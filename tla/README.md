# Sarvanetra: formal models

Sarvanetra is a surveillance server. A fleet of pipeline processes reads the
cameras, tracks vehicles and people, reads plates and raises alerts; an API
server polls the cameras' health, cuts and seals evidence of critical alerts,
dispatches officers and escalates when nobody answers, and lets officers review
alerts to train the detectors. This directory holds TLA+ models of the parts
whose correctness depends on the order in which things happen, the TLC
configurations that check them, and TLAPS proofs of what matters most.

## The system

### How it runs

- The API server is FastAPI under uvicorn with several processes
  (`src/Dockerfile:44` `--workers 4`, `src/Dockerfile.backend:97` `--workers 2`).
  Each runs `backend/main.py`'s start-up: the evidence sweep, the camera
  heartbeat loop and the escalation tick. So every background task exists once
  per process, and nothing elects one of them.
- Inside a process, request handlers are coroutines on one event loop.
  The detectors' bridge (`behaviour_bridge.py`) has an event loop in a thread
  of its own. The escalation tick and every capture of evidence run in threads.
- The pipeline (`live_24x7_pipeline.py`) runs in processes of its own, each with
  some of the cameras, which `scripts/fleet_supervisor.py` starts and restarts. In
  each there is a reader thread per camera, one inference thread, an ANPR worker
  thread, a pool of two threads for evidence and the detectors' bridge. It shares
  with the API server the database, the evidence directory and the portal's
  session file, and nothing in memory.
- The database is SQLite with WAL and a busy timeout of 60 s by default
  (`backend/db/session.py`), PostgreSQL in `docker-compose.yml:181`. The
  statements of `routing/` use SQLite's `datetime('now')`, so the dispatch model
  is the SQLite deployment. `SessionLocal` has `autoflush=False` and
  `expire_on_commit=False`: a row once loaded is not read again after a commit,
  and an UPDATE carries the columns that differ from the loaded row and no
  others. Several of the hazards below come from exactly this.

### Components

| component | state | operations | what makes it correct |
|---|---|---|---|
| officer dispatch, `routing/` | `officers`, `routed_alerts` | route an alert, escalation tick, ACK, mark available | an officer has one case; a case is escalated once; a closed case stays closed; nobody stays BUSY for nothing |
| evidence lock, `evidence_capture.py` | `evidence` rows, the directories `.tmp/{id}` and `{id}`, the alert's hash | trigger, on-demand capture, startup sweep | a COMPLETE row's digest is that of the clip; nothing is PENDING forever |
| camera health, `camera_heartbeat.py` | `cameras`, the portal's breaker | heartbeat cycle, portal batch, PATCH maintenance | status follows the feed, debounced; maintenance is left alone |
| officer review, `review_service.py` | sessions, `officer_reviews`, `review_pairs`, `vault_entries` | start, submit, reconcile | borderline alerts need two officers who agree; training data is vouched for |
| audit log, `audit_service.py` | `audit_log`, its checkpoint | append chained, append plain, verify | loss is reported; an alarm has a cause |
| camera reader, `StreamReader` in `live_24x7_pipeline.py` | the capture, the failover mark, back-off counters | open, read, reconnect, fail over, probe, swap back | a frame's stamp tells where it is from; the reader gets back to the source |
| portal session, `corp8_session.py`, `hls_ffmpeg_capture.py` | one login of the portal, its copies in files and processes | session, log in, open, restart | processes do not end each other's sessions for ever |
| tracks, plates and patrol units, `live_24x7_pipeline.py`, `anpr_engine.py`, `cad_dispatch.py` | buffers, crops, votes, locked plates, rows, units | frame, flush, read, vote, clip, dispatch | what is stored, sent and cut for a stolen plate belongs together |
| loitering and cooldown, `loitering_detector.py`, `alert_cooldown.py`, `behaviour_bridge.py` | positions, a camera's budget, episode flags | submit, allow, flag, fire | one camera does not flood the control room, and is not silenced |
| alert deduplication, zone incidents, circuit breaker, event bus | - | - | inert at this commit, see below |
| supervisor | child processes | restart | dead children come back, once |
| re-identification, watchlist | indexes and lists | match, insert | index and table agree |
| detection, dashboard, push, analytics, access, front end | - | inference, fan-out, reads | numeric or presentation |

`PROJECT.json` lists every component with its sources, including those that
are not modelled and why, and the hazards of the code line by line.

### How the components interact

A critical alert spawns three things that share nothing but the alert:
`evidence_capture.on_alert_fired`, which inserts the row and starts a capture,
routing (`route_alert`), and a push. Dispatch reads cameras for their position
but never their status. Review reads the alert's evidence hash, which is where
the embedding of a vault entry comes from: `sealed` in `Review` is what `Evidence`
establishes. Review and camera health write audit rows; `AuditChain` models the
writers as callers that come at any time, which covers both. Heartbeat and PATCH
share the camera row and the write lock. Because the shared data is that
narrow, the modules are composed inside a component (routing with ticks, ACKs
and overrides; captures with sweeps; heartbeats with PATCH handlers) and across
those that share a thread's data: `Tracks` joins the inference thread, the ANPR
worker, the evidence pool and the patrol units, `Portal` the sessions and the
captures of several processes, `Loitering` the bridge, the budget and the
detector. `CameraReader` sees the portal as a source that is served or not;
`Portal` shows when each of its captures is served in the end.

### What is hard here

- Read, wait, write: almost every handler reads a row in one transaction and
  acts on it in a later one, and the waits (probes, post-roll, a tick's list of
  overdue rows) are long.
- Guards that are not backed by a constraint: `route_alert`,
  `create_pending_row` and `log_event` look and then insert.
- Each process believes that it is alone: heartbeat, tick, sweep and login.
- A crash between two commits leaves rows that only the code's own restart path,
  where there is one, takes up.
- Locks that are held across an await, on the loop another handler blocks.
- Copies of one fact in several threads: the plate of a vehicle is in the
  engine, in the pipeline's table and in the row, and they change at different
  times; the session of the portal is in a file and in each process.
- Side effects before the commit: a unit is sent, a clip queued and the
  dashboards told while the transaction of the alert may still fail.

## The modules

| module | models |
|---|---|
| `Dispatch` | `routing/service.py`, `routing/escalation.py`, the ACK and available endpoints |
| `DispatchLedger`, `EvidenceSeal`, `ReviewLedger`, `TracksLedger` | what `Dispatch`, `Evidence`, `Review` and `Tracks` promise, without handlers, processes or transactions |
| `DispatchRefinement`, `EvidenceRefinement`, `ReviewRefinement`, `TracksRefinement` | the mapping from each of the four to its promise |
| `Evidence` | `services/evidence_capture.py` and the GET of `routers/v1/evidence.py` |
| `CameraHealth` | `services/camera_heartbeat.py` and PATCH maintenance |
| `Review` | `services/review_service.py` with `store_entry` of the vault |
| `AuditChain` | `services/audit_service.py`, `services/audit_logger.py` |
| `CameraReader` | the reader thread of a camera in `services/live_24x7_pipeline.py`, with the captures of `hls_ffmpeg_capture.py` |
| `Portal` | `services/corp8_session.py` and the opening and restarting of captures in `hls_ffmpeg_capture.py` |
| `Tracks` | tracks, plates and stolen-vehicle alerts: `services/live_24x7_pipeline.py`, `anpr_engine.py`, `cad_dispatch.py` |
| `Loitering` | `services/loitering_detector.py`, `alert_cooldown.py`, `behaviour_bridge.py` |
| `DispatchProofs`, `EvidenceProofs`, `CameraHealthProofs`, `ReviewProofs`, `AuditChainProofs`, `TracksProofs`, `LoiteringProofs` | the inductive invariant of each, and its theorems |
| `CameraSourceProofs` | the same for `Portal` and for `CameraReader`, whose specification is named `ReaderSpec` so that both can be extended |
| `MC*` | instances for TLC: symmetry sets, and the distances of `MCDispatch` |

One action is one database transaction of one handler (or one file operation,
where files are shared). Whatever a handler keeps between transactions is a
record of locals with a `pc`. Definitions marked "Seeded fault" are wrong
variants of the definition below them; no specification uses them. Each property is
shown to fail when one of them takes its original's place.

### Dispatch

`officers[o]` is the status and `current_alert_id`; `rows[r]` is a row of
`routed_alerts`. A call of `route_alert` inserts at most one row, so the call's
identity is the row's. `overdue` abstracts `assigned_at` against
`ACK_TIMEOUT_SECONDS`: `Expire` sets it at any time after the assignment.

| action | code |
|---|---|
| `RouteCheck`, `RouteRead`, `RouteInsert`, `RouteClaim`, `RouteFinalise` | `route_alert`: the idempotency guard, the camera and the available officers, the PENDING row, one guarded UPDATE per candidate in order of distance, ROUTED or UNROUTED |
| `AckRead`, `AckUpdate`, `AckRevert` | `ack_alert`: the row as read, the UPDATE by alert id, the release of the officer that was read |
| `TickScan`, `EscRead`, `EscClaim`, `EscReassign`, `EscRelease`, `EscGiveBack`, `EscUnroute`, `TickEnd` | `_scan_and_escalate` and `_escalate_one`, row by row |
| `MarkAvailable` | `mark_officer_available`, which asks nothing |
| `Fault` | a process that dies or a transaction that raises, in any handler |

`freed` remembers the officers an operator made available while they were BUSY:
the system cannot keep a promise about those, and the invariants except them.

`DispatchLedger` is the abstract specification: cases that are assigned to an
idle officer, passed on once to another idle officer, given up or acknowledged. In
`DispatchRefinement` a case is a row, PENDING rows are still new, and claims,
releases, reads and crashes are stuttering.

### Evidence

One alert, because everything is keyed by its id. `rows` are its evidence rows,
`dir` what is on disk, `content[c]` how often the file that capture `c` created
was written to: a digest is the pair of file and count, so it changes with every
write. `Fire` and `Request` are the ways a capture starts, `Load` to `Insert` the
row, `Cut` to `Manifest` the clip, `Commit` to `Cleanup` the two commits and the
PDF, `Fail` and `CommitRaises` the error paths. `Workers` are the processes that
run captures, `Servers` those of them that sweep when they start: `Crash` is any
process's, `Restart`, `SweepRead`, `SweepWrite` and `SweepRaises` are a server's,
`Respawn` is a pipeline's. `interfered` remembers that a capture ran beside
another or beside a sweep. After a commit that raises, the handler's query of the
row raises on the same session and is passed over, so the row stays as it is:
`dropped` remembers that this, or the death of a process that does not sweep, may
have left a row to nobody since the last sweep. `Unique` says whether
`evidence.alert_id` is UNIQUE: it is in the migrated schema, not in the one
`create_all()` makes.

`EvidenceSeal` is the abstract specification: a clip and its manifest are worked
on until the clip is sealed with its own digest, which the alert is given and the
manifest states, and then nothing changes. In `EvidenceRefinement` the seal is the
digest of the COMPLETE row and the clip is the digest that `/verify` would compute
of the file in its place, so that a write to a sealed file shows; once captures
have overlapped (`interfered`) nothing is promised. Temporary files, the PDF and
failed attempts are stuttering.

### CameraHealth

`cycle[p].loaded` is the copy of the rows a heartbeat works on; `Updated` is the
UPDATE that SQLAlchemy derives from it. `writer` is the process whose transaction
holds the lock (SQLite's only one; in PostgreSQL the plain cameras' rows).
`BeginBatch` is where the cycle's transaction survives an await. A PATCH keeps
its process's event loop from its read to its commit: `LoopFree` is false between
`PatchRead` and `PatchCommit`, and no step of that process's heartbeat that needs
the loop is enabled. `PortalProbe` answers with the feed, its absence ("failed")
or a request that raised ("errored"), which `_apply_result` cannot tell from a
feed that is absent. `installed` is which processes and cameras there are and
never changes, so that one run looks at several installations. `streak` (failed
checks since the last success, in commit order), `raced` (the flag changed while a
cycle was running) and `overlapped` (two processes' cycles, or a PATCH with another
PATCH or a commit, have overlapped) are history.

### Review

One alert and its sessions. A review is named by its session, a pair by the
session of its first review, a vault entry by the session that stored it. `Start`
finds the pair, `Submit` is the submission that passes the gate, and then
`Insert`, `OpenPair`, `Store`, `Link`, and of a second review `ReadPair`,
`ReadFirst`, `Resolve`, `Promote` (the look for a duplicate), `Add` and `LinkBoth`
are the statements and transactions of it. What the handler read of the pair and
of the first review stays with it (`status`, `agreed`, `linked`), because the
UPDATE carries only the columns that differ from what was read. `SessionsKept`
says whether the service's store outlives the request, as it does with Redis and
in `scripts/verify_active_learning.py`; the router's own does not (see
Departures), so the run assumes TRUE. `Settled` says where a review has to end: in
the vault, waiting for a second officer, or in disagreement with the supervisor.

`ReviewLedger` is the abstract specification: decisions are given; one is learned
with its officer's trust, or, of an alert that is reviewed twice, with trust high
when two officers have given it; nothing is taken back. In `ReviewRefinement` the
reviews are what is given and the vault's entries what is learned. Sessions,
pairs, links and the waits between are stuttering.

### AuditChain

A payload stands for its SHA-256. `LogRead` and `LogInsert` are the halves of
`log_event`, `LogAudit` a plain row without hash, `VerifyRead` and `VerifyWrite`
one batch of `verify_integrity`. `Lose` removes one row that was not yet verified,
between two chained rows that show it: the damage that the chain is for. `gap`
and `forked` are history: the row after the lost one, and the rows whose
predecessor is not the one they name.

### CameraReader

One reader thread. `kind` is what its camera is configured with (RTSP, a portal
camera, another stream, clips) and `strict` whether it may not fall back;
`readable` are the clips that open, `net` whether the source is down, answers
without serving, or serves. `cap` is what is open: a live capture, one whose ffmpeg
has exited, a clip, or nothing.

| action | code |
|---|---|
| `StartOpened`, `StartFailed` | the head of `run`: the first open, failover at once when it fails |
| `Reconnected`, `ReconnectFailed` | `_handle_network_reconnect` with its doubling delay |
| `ClipFrame`, `SkipClip` | `_read_clip_frame` and `_open_clip`: the next frame, the next clip, also when one does not open |
| `LiveFrame`, `LiveMiss`, `LiveLost` | `_read_live_network_frame`: the count of misses, and the failover at its limit |
| `RecoveryFails`, `HotSwap` | the probe in failover and `_open_network_stream` after it |
| `Tick`, `Network`, `ChildExits`, `Stop`, `End` | the clock of delays and probes, the source, ffmpeg's exit, the end of the thread |

### Portal

`copy[p]` is the session a process holds and `copy[File]` the one in the shared
file, each with whether the portal still accepts it and how old it is: young (15
seconds), fresh (30 minutes), old, or none. `login[p]` is the login a process has
under way behind its lock, `cam[c]` where a capture stands. `PostAccepted` is the
portal's rule that a login ends every other session. `Reuse`, `Adopt`,
`BeginLogin`, `Store` are `session` and `_login`; `Probe`, `Refused`, `Exits`,
`Restart`, `Reopen` are `open_corp8_stream`, the capture's child, and
`_relogin_and_restart`. `AgeCurrent` lets the session the portal accepts grow
older at any moment, whatever captures and logins are doing.

### Tracks

One camera. `pts` and `laps` are the buffers: a track that is flushed and still in
view begins another lap with a row of its own. `queue` and `attempts` are the crops
for the worker, `voted` and `confirmed` the engine, `plates` the pipeline's best
reads. `flush` is the inference thread inside `_flush_completed_tracks`, whose
transaction spans `Persist`, `Check`, `Raise` of every track up to `Commit` or
`Fail`; `row` is what became of each row, with its plate, its event, its alert,
its clip and its appearance. `unit` are the patrol units.

`TracksLedger` is the abstract specification: the readers of the tables see a
frame's records appear together, each with what is said of it and called stolen
only with an alert, never see one changed, and see clips of alerts that are there.
In `TracksRefinement` a record is a saved row: only `Commit` and a `Capture` that
finds its alert are steps of the ledger.

| action | code |
|---|---|
| `Frame` | a frame: points appended, a crop queued, tracks that are stale or long taken out of the buffers |
| `Persist`, `Check`, `Raise` | `_persist_vehicle_track`: the row, the look at the engine's locked plate and the unit, the alert with its queued clip |
| `Commit`, `Fail`, `WriteAppearance` | the end of the flush, and the appearances, which have a transaction each |
| `ReadCrop`, `Store` | the ANPR worker: a vote and perhaps a lock in the engine, then the pipeline's table |
| `Capture` | a job of the evidence pool, which sees what is committed |
| `Stop`, `Die` | `stop()`, and the end of the process |

### Loitering

A coroutine of the detector is a track and a number. `last` is the age of the
budget's window, `sent` that of the last alert that was written, `flag[t]` what is
left of the episode's flag in Redis (or its stand-in). `Sample` takes the position
and asks `allow`, with no await between; `ReadFlag`, `SetFlag` or `Refresh`, and
`Fire` each come after an await, so that others pass in between and time does
(`Time`). `age` and `late` of a coroutine are history: the time since it was
allowed, and whether an alert that was under way or written when it asked had been
allowed within the window.

## The runs

A refinement says at once what several smaller properties said one by one, and
the smaller ones are proved as theorems only: `EscalatedOnce` follows from
`LedgerKept`, `SealIsOneDigest` and `SealIsFinal` from `SealKept`, `ClipHasAlert`
from `RecordKept`.

| run | shows |
|---|---|
| `dispatch_safety` | two alerts that want the same nearest officer, two calls, an ACK, two ticks, one fault, one override: `TypeOK`, `HeldIsBusy`, `StrandedOnlyByAck`, `TerminalIsFinal`, and `DispatchLedger` as a property (`LedgerKept`) |
| `dispatch_live` | `PendingResolves`, `OfficerReturns` unless a handler was cut short, `OverdueResolved` even then |
| `dispatch_ackrace` | violated: `NoOfficerLeftBehind`, see Findings |
| `evidence_captures` | `SealMatchesClip`, `PendingIsAnswered`, `PendingEnds` and `EvidenceSeal` as a property (`SealKept`) with two captures, a server and a pipeline process, two deaths, and commits that raise anywhere |
| `health_servers` | `MaintenanceShown`, `CounterMatchesStatus`, `FlipNeedsConsecutiveFailures`, `RecoveredIsShown`, `DeadIsShown` in two installations: one process with a plain and a portal camera, two processes with a plain one |
| `health_errors` | violated: `ErrorsNeverFlip`, see Findings |
| `review_safety` | `ConsensusBehindVault`, `PairIsBorneOut`, `TrainingIsVouchedFor`, `ReviewsSettle` and `ReviewLedger` as a property (`VaultKept`) with three officers, four sessions, two submissions side by side, one fault |
| `audit_chain` | `AlarmHasCause`, `LossIsReported`, `ForkIsReported` with two callers that may overlap |
| `reader_failover` | `MarkTellsSource`, `ClipsInSequence`, `HotSwapsBack`, `FailsOverToClips` for every kind of source and every set of clips that open |
| `portal_session` | `NoThrashing`, `AllStream` with two processes and three cameras on one session |
| `tracks_alerts` | `AlertIsVouchedFor`, `StolenEventHasAlert`, `StolenIsAlerted` and `TracksLedger` as a property (`RecordKept`) with two vehicles flushed together and twice, a transaction that fails, a process that is stopped or dies |
| `loitering_budget` | `BudgetKept`, `CameraIsNotSilenced` with two tracks, time that passes between any two steps, and an alert that cannot be written |

### Bounds

- Dispatch. Two officers and two calls are what a contention takes: a winner, a
  loser, and an officer to go on to. Two ticks race for one row; one ACK is
  enough, for ACKs only race with ticks and other releases. The liveness instance
  has one tick. The theorems have no bounds.
- Evidence. A third attempt at one alert only meets what an earlier one left, as
  the second does; two deaths let both an attempt and the sweep after it be cut
  short. One of the processes sweeps and one does not.
- CameraHealth. `Threshold` is the code's default 2; the counter is not told
  apart above 3. Two flag changes set and clear the flag, and one cycle is lost to
  an exception. The second process and the portal's camera have an installation
  each: a cycle treats each camera on its own, and what the portal's batch adds, the
  wait inside the transaction, is there with one process and its PATCH handler.
  `health_errors` needs no flag changes and no lost cycle.
- Review. Four sessions: a first review and three second reviews of one pair, which
  is what it takes for a pair to end with a status and a second review that are not
  of one submission; or two pairs with a second review each. One of three officers
  is senior.
- CameraReader. Three clips of three frames: one to be at, one to go on to and
  one to come back from; a limit of three misses, a delay that doubles twice and a
  probe interval that doubles twice show the start, the growth and the ceiling of
  each counter.
- Portal. Two processes are what displacing a session takes, three cameras put
  two of them behind one process's lock; one restart is spent and then used up;
  one trouble (a login refused, a session exhausted, a child that exits) comes at
  any time. Everything else repeats without bound, the displacing of sessions by
  logins and their ageing included.
- Tracks. The second vehicle is one no plate is looked for on, and is there to
  share transactions with the first: two laps of the first, one of the second. A
  track is stored from two points and flushed at three, the queue holds one crop,
  and the first vehicle has two: a weak read, a vote and a lock need no more.
- Loitering. Two tracks, two coroutines of each, two of all in flight; a window
  of three ticks and a flag of one, because the flag's time must be shorter than
  the window (twice `LOITER_DURATION_SEC` against 1800 s; with the flag the longer
  of the two a person who stays is reported once and never again), and a tick must
  be left between the two.
- AuditChain. Five rows are three batches of two, with a seam before and after
  the lost row.

Symmetry is used in safety runs only, over sets whose elements no definition
compares: calls, ticks, requests and alerts (all at the same distances) of
Dispatch; sessions, handlers, the non-seniors and the decisions of Review;
payloads and writers of AuditChain.

`CHECK_DEADLOCK FALSE` stands where the system may stop: where the bounded
requests run out (Dispatch, Evidence, Review, AuditChain), where the process may
have died (Tracks) and where every camera may be streaming with nothing left to
happen (Portal). CameraHealth, CameraReader and Loitering run forever and are
checked for deadlock.

### Fairness

Weak fairness of a handler's steps, because a handler that has started runs on:
the event loop and the thread pool are fair, and every probe, writer and statement
has a time limit. Of the tick, because `escalation_tick` catches every exception
and APScheduler keeps calling it. Of the heartbeat, because `heartbeat_loop`
swallows exceptions. Of a dead server's restart, because uvicorn's master or the
container's restart policy starts it again; of a pipeline's nothing is assumed.
Nothing is assumed of officers, administrators, feeds or the portal, and no crash
or fault is ever fair. The reader's thread loops and its clock goes on. In
`Portal` a login is answered, a request gets its session though others stand at
the same lock (strong fairness: the lock is free again and again), captures notice
that theirs has ended, and copies of ended sessions grow old. The session in use
may age at any moment and need not. In `Tracks` the threads run, the camera gives
frames, and a vehicle is out of view for a while at times; a camera that stops
giving frames is outside this assumption (see Departures). In `Loitering`
coroutines run to their end, positions of a track are taken again and again
(strong fairness: below the ceiling of the bridge there is room again and again),
and time passes as long as that makes a difference, also while coroutines wait.
Nothing is assumed of how long they wait; `CameraIsNotSilenced` excepts those that
keep taking most of a window. `PatchTimeout` (SQLite's busy timeout) is part of
the PATCH handler's step; PostgreSQL has none configured, so in that mode there is
nothing to be fair to.

## The proofs

Eight modules prove, for every value of the constants, what the runs show on
small instances:

| module | theorem | states |
|---|---|---|
| `DispatchProofs` | `TypeCorrect` | `Spec => []TypeOK` |
| | `HeldOfficerIsBusy` | `Spec => []HeldIsBusy` |
| | `OnlyAckStrands` | `Spec => []StrandedOnlyByAck` |
| | `EscalationIsSingle` | `Spec => EscalatedOnce` |
| | `ClosedStaysClosed` | `Spec => TerminalIsFinal` |
| | `ImplementsLedger` | `Spec => LedgerKept` |
| `EvidenceProofs` | `SealIsTheClip` | `Unique => (Spec => []SealMatchesClip)` |
| | `DocumentsAgree` | `Unique => (Spec => []SealIsOneDigest)` |
| | `SealStays` | `Unique => (Spec => SealIsFinal)` |
| | `LockIsKept` | `Unique => (Spec => SealKept)` |
| | `PendingIsSomebodys` | `Spec => []PendingIsAnswered` |
| `CameraHealthProofs` | `MaintenanceIsShown` | `Spec => []MaintenanceShown` |
| | `CounterIsTrue` | `Spec => []CounterMatchesStatus` |
| | `Debounced` | `Spec => FlipNeedsConsecutiveFailures` |
| `ReviewProofs` | `VaultNeedsConsensus` | `Spec => []ConsensusBehindVault` |
| | `PairsAreTrue` | `Spec => []PairIsBorneOut` |
| | `TrainingIsTrusted` | `Spec => []TrainingIsVouchedFor` |
| | `EveryReviewSettles` | `Spec => []ReviewsSettle` |
| | `VaultIsKept` | `Spec => VaultKept` |
| `AuditChainProofs` | `AlarmsHaveCauses` | `Spec => []AlarmHasCause` |
| | `LossesAreReported` | `Spec => LossIsReported` |
| | `ForksAreReported` | `Spec => ForkIsReported` |
| `CameraSourceProofs` | `LoginsDoNotThrash` | `Spec => NoThrashing` |
| | `MarkIsTrue` | `ReaderSpec => []MarkTellsSource` |
| | `ClipsAreReadInSequence` | `ReaderSpec => ClipsInSequence` |
| `TracksProofs` | `AlertsAreVouchedFor` | `Spec => []AlertIsVouchedFor` |
| | `StolenEventsHaveAlerts` | `Spec => []StolenEventHasAlert` |
| | `ClipsHaveAlerts` | `Spec => []ClipHasAlert` |
| | `RecordsAreKept` | `Spec => RecordKept` |
| `LoiteringProofs` | `BudgetIsKept` | `Spec => BudgetKept` |

Each of the others has a theorem of type correctness too. The assumptions are
those each module states of its constants, which say little more than that NULL
is not one of the values and that limits are positive. The reader's probe clock
is a power of two, of which the provers know nothing, so `ReaderTypeCorrect`
also takes `2 ^ MaxDoubling \in Nat`. One hypothesis is more than that.
`Unique`: the evidence table has its UNIQUE constraint, as in the migrated
schema; without it a second row replaces sealed footage (see Departures);
`PendingIsAnswered` is about one row and has it as its premise.

### Why the properties hold

In every module what has to be found is what a handler still knows between two of
its transactions. The properties themselves are not inductive: they say nothing of
what is in flight.

Dispatch. A release by officer and row is harmless only if the row is not, or no
longer, that officer's case, and that depends on what the releasing handler
knows: an ACK that read the officer releases after the row has been closed; a
tick that timed an officer out releases after the row names another; a tick that
lost its race gives back an officer whom nobody else could have taken. `IndInv`
says this of each handler:

- `RowInv`: an active row names an officer, an ESCALATED_ROUTED row has count 1;
- `RouterInv`: where a call is tells the status of its row;
- `AckInv`: a request reverts an officer only after its row has left the active
  states;
- `TickInv`: a job in a tick's hands is a row that was dispatched, and as long as
  it is still escalatable it names the officer of the job;
- `ClaimInv`: an officer in a handler's hands is BUSY on that handler's row.

`AvailableIsUnclaimed` is the step that uses the `AND status = 'AVAILABLE'` of
the claim, `HarmlessRelease` the one that uses the `AND current_alert_id` of the
release; one lemma per action follows. The action properties and the refinement
follow from `IndInv` step by step. `StrandedOnlyByAck` is inductive beside it:
whoever answers for an officer hands the officer on in the same transaction, and
only the UPDATE of an ACK does not (`StrandedStep`).

Evidence. The seal is made from the clip by copying: digest, manifest, row, alert.
`KnowInv` says, place by place, which of the copies agree already, `AloneInv` that
without interference one capture works at a time and no sweep beside it, `SweepInv`
that a sweep has no sealed row in its hands. A crash between any two steps leaves
copies that the next attempt does not use: it starts from a new file.
The refinement is the same argument step by step: `CompletionSeals` is the one
step that seals, `SealedRests` says that no step of anybody touches sealed
evidence, `Statements` sorts the others into work and stuttering, and
`OverlapLasts` lets go of everything once captures have overlapped.
`PendingIsAnswered` needs none of this and holds through overlaps. A row becomes
PENDING in the hands of a capture; that capture lets go of it only when it has
ended it or with its process (`AtWorkAnswers`), or sets `dropped`; a server that is
down sweeps before it does anything else; a sweep has in its list every row that
was PENDING when it looked. So whoever lets go of the row leaves it to somebody
(`AnswerNext`).

CameraHealth. `FlagInv` compares the row that a cycle loaded with the one it will
write to: unless the flag has changed since, what it writes agrees with the flag,
and whatever it does not write is left alone. `AloneInv` says that until something
overlapped one cycle and one PATCH at most are under way, and `CountInv` that then
counter and streak are in step, for the row and for the loaded copy with the
change that is still to be flushed (`Fits`).

Review. A submission is spread over several transactions, so every fact it relies
on must outlast what others do in between: who wrote a review and what it says
never changes (`ReviewsLast`), a second review looks at a pair that another officer
began (`SessionInv`), at most one request goes on with a session's review
(`OneGoesOn`), and until it ends it answers for that review (`SettleInv`).
Of what it read of the pair it must still be so that a verdict which was there has
its second review (`Knows`), for the UPDATE leaves out a status that was read: then
the status that stays is some second review's, though not this one's
(`PairIsBorneOut`).
The refinement needs more than `TrainingIsVouchedFor`, for the ledger asks how an
alert was reviewed and not only who vouches: `LedgerInv` adds that a pair exists
only of an alert that is reviewed twice (`PairsAreDouble`), and that a request that
is yet to store finds no entry of its session, and every entry a review behind it
(`StoredOnce`), so that what is learned is only added to.

AuditChain. The argument is about neighbours in the table. `CauseInv`: neighbours
that do not fit have a cause, a loss or a fork, between them; `MarkInv`: and every
cause leaves such neighbours around its place, also when the row of a fork is
itself lost. `Passing` shows that a batch reports just the misfits it passes:
its seed is the hash of the row before it, because a verified row is never lost
(`SplitInv`), and `VerifierInv` keeps the verdict true while others write.

CameraReader. Only the first attempt may leave the capture as it finds it
(`StartsClosed`): nothing is open then. Everywhere else the branch that opens is
the branch that marks.

Portal. A process that holds a copy may be wrong about it, so the argument goes
through the file: unless two logins overlapped, every copy of the session in use is
as old as the file's (`FileIsCurrent`), and a process that is about to post looked
at the file and found nothing young there (`LoginSeesOld`), which only another
login could have changed (`OneLogin`). Between the portal's answer and the file the
new session is nobody's (`LoginIsOnlyOne`).

Tracks. The one row that may say stolen and have no alert yet is the row at
hand between `Check` and `Raise` (`StolenInv`), so no worker step and no
failure comes between the two; a clip is queued with its alert and cut only
when the row is saved (`ClipInv`). The refinement follows from the same two,
because all rows of a flush are saved by one `Commit`, and until then nobody
sees them. The alert is true to the engine, which goes on meanwhile, because a
locked plate never changes (`RaiseVouched`, `LockedIsVoted`).

Loitering. Time passes between any two steps, so nobody finds the budget as it was
when somebody else was let past. What lasts is an order: everything that is let past
restarts the window, so the window is never older than the leave of an alert that is
under way (`SpentOnAll`) or was written last (`SpentNotLater`), and all of them age
together. Who asks within the window of one of those is therefore within the
budget's (`LateIsForced`).

### Only model-checked

All liveness properties, because fairness and `ENABLED` are out of the prover's
reach: those of Dispatch, Evidence (`PendingEnds`), CameraHealth
(`RecoveredIsShown`, `DeadIsShown`), CameraReader (`HotSwapsBack`,
`FailsOverToClips`), Tracks (`StolenIsAlerted`), Loitering
(`CameraIsNotSilenced`) and Portal (`AllStream`). Of `PendingEnds` the safety half
is proved, `PendingIsAnswered`: what is left to fairness is that whoever has the
row in hand goes on. Every safety invariant and every action property that a
passing run checks has a theorem.

## Findings

`dispatch_ackrace`: `ack_alert` reads the officer before its UPDATE. If an
escalation comes between, the UPDATE closes a row that names a new officer, the
old one is released, and the new one stays BUSY on a closed dispatch. The comment
in `escalation.py:33` says that does not happen. `StrandedOnlyByAck` shows that it
is the only way without a crash.

`health_errors`: `Corp8Session.probe` (`corp8_session.py:303-306`) turns an
exception of its request into `ok: False`, and the batch records that like a
playlist that is not there (`camera_heartbeat.py:170`). Two requests in a row that
time out take a portal camera OFFLINE. The comment at `camera_heartbeat.py:87-89`
says that an errored check never does, the docstring at lines 130-133 that such a
camera is absent from the result, and
`tests/test_camera_heartbeat_corp8.py:115-132` tests it with a session whose
`probe` raises, which the real one does only when it gets no login.
`FlipNeedsConsecutiveFailures` therefore counts errored checks too.

## Departures

What else the code does that its comments, or a reader, would not expect. Each is
a step of the module it concerns, or is said to be outside it.

Dispatch and evidence:

- Two calls of `route_alert` for one alert both dispatch (the guard and the INSERT
  are two transactions).
- Two captures of one alert share the temp directory, and one may publish the
  clip the other is still writing, against the atomicity the module describes; a
  starting server sweeps the captures of running processes. The seal properties are
  about attempts that do not overlap.
- `route_alert` joins `cameras.id`, an integer, to the string key in
  `alerts.camera_id` (`service.py:101`), as zone incidents do, and so does the
  tick's scan (`escalation.py:116`). An alert of a camera whose key is not a number
  finds none: `route_alert` returns without a row and nobody is dispatched.
  `Resolvable` is the set of alerts for which the JOIN finds a camera, and the runs
  are about those.
- `backend/main.py:473-477` says that the API never reports "processing" for
  something with no task alive. Three things leave a row PENDING with nobody at work
  until a server starts: a commit that raises (the query at
  `evidence_capture.py:693` raises on the same session, which line 696 passes over),
  a sweep that raises, and the death of a pipeline process, which captures
  (`live_24x7_pipeline.py:1715-1744`) and never sweeps. `PendingIsAnswered` and
  `PendingEnds` except them (`dropped`).
- With `Unique = FALSE` in `MCEvidence_captures.cfg` a second row lets a later
  capture replace sealed footage.

Camera health:

- A heartbeat flushes plain cameras' changes and keeps the transaction open while
  it awaits the portal batch. In PostgreSQL (`Database = "postgres"`) a PATCH of
  such a camera in the same process waits for the row lock inside the event loop
  that would have to resume the heartbeat: neither returns, although
  `check_camera_health` says a slow camera never blocks the loop.
- Two heartbeat loops lose updates of the failure counter; a flag set during a
  cycle may be overwritten on the screen until the next PATCH. A comment at
  `camera_heartbeat.py:84` speaks of a 30-minute cooldown, the default at line 100
  is 45 seconds.

Review, vault and audit:

- The router builds its service per request, with an empty session store unless
  Redis is there: every submission meets a session that starts now and is refused
  as too fast.
- A second session on the same pair may turn an escalated disagreement into an
  agreement. With three of them in flight a pair may end `disagreed_escalated` and
  name an agreeing second review, because an UPDATE carries the columns that differ
  from what its request read. `PairIsBorneOut` says what is left.
- A submission's `alert_id` is never compared with that of its session
  (`review_service.py:352`, `378`, `394`): what was looked at as one alert may be
  filed as a review of another. The model is about one alert.
- A crash between a borderline review and its pair leaves a review nobody sees.
- `feedback/service.py:147` means to add a vault entry for an operator's verdict.
  It does not import `VaultEntry`, so the line raises NameError, which lines 163-164
  pass over, and nothing is added. Were it imported, one officer's GENUINE would be
  stored with trust high, against what `TrainingIsVouchedFor` says of reviews.
- Overlapping `log_event` calls are reported as tampering (`ForkIsReported`).

Cameras and portal:

- The docstring at `live_24x7_pipeline.py:422` promises automatic fallback to clips.
  A portal camera whose playlist is inconclusive is opened with ffmpeg all the
  same, and a child that was spawned counts as open: the swap "succeeds", the count
  of failed recoveries starts again, and the dead capture leads to reconnects and
  never back to the clips. `FailsOverToClips` is about the other kinds.
- A clip that does not open in failover leaves nothing open, and from then on only
  the network is tried. A camera of the kind "stream" never probes its source
  once it is in failover.
- The login gate is called fleet-wide and is one process's. Two processes that log
  in together end each other's sessions; `NoThrashing` says it takes that.
- Without overlapping logins processes may still take turns. A capture whose session
  was ended forces a login, and if the session that ended it is more than 15 seconds
  old by then, the login ends that one in turn. A login may take 25 seconds and a
  probe 12, so nothing stops this from going on for ever. `AllStream` says that it
  is the only thing that keeps cameras from streaming.

Tracks and plates:

- The second vote locks a plate even when it contradicts the first. An ANPR event
  that is marked stolen carries the row's plate, which may be another than the
  locked one.
- An evidence job that runs before the alert's transaction commits finds no alert
  and is not repeated. The comment at line 3468, "row is already saved", comes
  before the commit, as do the broadcast and the unit.
- `stop()` says no plate reads are lost (line 1505); the buffers are left
  unflushed, and so are those of a camera that stops giving frames.
- A track that is flushed every sixty points raises an alert and sends a unit each
  time; units are never freed in the pipeline's process, and none is sent from 60
  seconds after its start, because nothing there renews their positions.
- A full queue drops the new crop; the docstring of `_enqueue_anpr_crop` says the
  oldest.

Loitering:

- The docstring (lines 28-32) says that the flag is refreshed on every tick of an
  episode and expires only once updates stop. The budget comes before the flag, and
  a position that it suppresses does not refresh the flag; the flag (twice
  `LOITER_DURATION_SEC`) runs out long before the window (30 minutes), and a person
  who stays is alerted in every window.
- The budget is spent before the flag is looked at and before the alert is
  written, and a failed alert leaves its flag: either way others are suppressed for
  the window. Two positions with a suspicious path that are in flight together are
  both alerted.
- The window begins with the leave and not with the alert, and up to 400 coroutines
  may wait for a commit on one loop: an alert that is written late may be followed
  by another at once. `BudgetKept` is about the leave. Likewise a flag may run out
  between a position's submission and its look at the flag.
- `_fire_alert` is not one transaction: `create_pending_row` commits inside it
  (`evidence_capture.py:466`), alert included. What fails after that loses the audit
  entry and the message only; `Fire` is the alert's being there.

## What is left out

- Dispatch: WebSocket broadcasts after the commits, the read-only listings.
- Evidence: frame selection, annotation and layout. A manifest that could not
  be written is None although the file of an earlier attempt may still be there.
- CameraHealth: creating, editing, deleting cameras; whether the portal's feeds are
  there (its probe answers anything).
- Review: the queue, statistics, crop upload, expiry, retention, and the
  training samples of the vault. `enforce_ttl_policies` has no caller.
- AuditChain: a payload edited in place, which one row's own hash shows.
- CameraReader: frame rate, seeking, the relay, the batching of frames.
- Portal: camera lists, prefetched buffers, the wait between two logins of one
  process.
- Tracks: detection, tracking, speed and geometry, roll-ups, overlays; what is
  forgotten when tables of tracks grow past their limits; other cameras.
- Loitering: how a position is judged; crowd and abandoned-object detectors.
- Components that are inert at this commit. Deduplication needs `Alert.global_id`,
  which nobody sets; zone incidents look for a camera by a key of another type and
  find none; nobody publishes to the event bus; nothing imports the circuit
  breaker. A model of them would say nothing about the program.
- The other components with status `not_modelled` in `PROJECT.json`, each with its
  reason.

## Plan

1. The fleet supervisor: restart of dead and silent workers, and a supervisor that
   is started while another is launching (`no camera has two workers`).
2. Vault retention against reviews in flight; the re-identification
   index and its table.
3. Crowd and abandoned-object detectors, when their guards move before the alert.
4. Proofs: the safety halves of other liveness properties, as `PendingIsAnswered`
   is of `PendingEnds`: who has a BUSY officer or a PENDING dispatch in hand, and
   which camera of the portal waits for whose login.

## Running

    tlc -config MCDispatch_safety.cfg MCDispatch.tla
    tlapm DispatchProofs.tla

and the same for the other configurations and proof modules.
Each run takes between a second and three minutes on two cores.
