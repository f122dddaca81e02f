# A formal model of the SpaceMouse bridge

The bridge (`src/`) lets a 3Dconnexion SpaceMouse navigate CAD applications in a
browser on Linux. It takes the place of the vendor's driver service: it reads
the device from `spacenavd`, serves the vendor's WAMP v1 protocol over a TLS
WebSocket on `127.51.68.120:8181`, and, for each page that connects, reads the
page's camera, moves it and writes it back up to sixty times a second.

This directory holds TLA+ modules of that program, the TLC configurations that
check them and proofs that TLAPS checks. File names below are relative to `src/`.

## 1. Inventory

| Component | State | Operations | Works with | What makes it correct |
|---|---|---|---|---|
| WAMP session `internal/wamp/session.go` | prefixes, `pendingRPC`, the socket | `Serve`/`dispatch` (read loop), `CallClient`, `send`, `Close` | called by drive loops; calls the bridge inline | every reverse call gets its own answer or fails; none leaks; the loop never dies of a well-behaved page |
| Message codec `internal/wamp/message.go` | none | `Decode`, `encode` | session | a bad frame is skipped, not fatal |
| Bridge `internal/navlib/bridge.go` | `connexionID`, `instanceID`, `info`, `controller` | create, update, delete, SUBSCRIBE | read loop in, drive loop out (`OnReady`) | one Controller per subscription; updates reach the current one |
| Controller `internal/navlib/controller.go` | `focus`, `clientFrames`, `frameTimes` (one slot) | reads, writes, motion, transactions, `notifyFrameTime` | shared by read loop and drive loop | the read loop never blocks on it; the newest frame time wins |
| Drive loop `internal/server/drive.go` | `moving`, frame counter, cached extents, its own copy of the settings | ticker, frame times, buttons, one frame | Controller, spacenav client | motion flag and transactions bracket what is written; focus is respected; the loop ends with the session |
| spacenav client `internal/spacenav/spacenav.go` | latch, `events` (128), `done`, `dead`, `readErr` | `readLoop`, `emit`, `State`, `Events`, `Close` | spacenavd in; drive loops and the watcher out | the newest state is never lost; order is kept; loss is noticed and told from Close |
| Axis detection `internal/spacenav/axis.go` | sample windows | `WaitCentred`, `DetectDeflection`, `MeasureNoiseFloor` | calibrate command | detects the dominant axis once, after the puck was centred |
| Navigation model `internal/nav/nav.go` | none | `shape`, `keepLargest`, `Step`, `Fit` | drive loop | dead zone, dominant axis, `Moved` only when the camera changes |
| HTTP server `internal/server/server.go` | upgrader, options | `serveWAMP`, origin check | session, registry | teardown order: socket closed, context cancelled, registry entry removed |
| Client registry `internal/server/clients.go` | connected clients | `Add`, `Describe`, `Remove`, `Snapshot` | server, status page | an entry lives exactly as long as its connection |
| Plaintext listener `internal/server/plaintext.go` | `ready`, `done` | `accept`, `classify`, `Accept`, `redirect` | TLS server | a silent connection holds nobody up |
| Orbit and probe modes `internal/server/orbit.go`, `probe.go` | loop-local | `runOrbit`, `runProbe` | Controller | diagnostics |
| Log buffer `internal/logbuf/logbuf.go` | ring, `seq`, subscribers | `Append`, `Since`, `Subscribe` | every logger; status page | a subscriber sees every record the ring still has |
| Status page `internal/webui/webui.go`, `assets/app.js` | per-stream position; the page's last `seq` | event stream, snapshot, `appendLogs` | log buffer, status source | no record twice, no silent gap, no stalled logger |
| Status source `cmd/spacemouse-bridge/uisource.go` | `trustCache` | `snapshot`, cached trust check | status page | at most one check at a time |
| Settings `internal/config/config.go`, `cmd/.../settings.go` | JSON file | `Load`, `migrate`, `Save`, flag overrides | main | a crash leaves the old or the new file |
| Certificates `internal/certs/certs.go`, `trust.go`, `cmd/.../credentials.go` | CA and leaf files, trust stores | `Ensure`, `Install`, `Remove` | main, the `-trust` and `-untrust` commands | whatever the files are, `Ensure` ends with a usable pair, and browsers trust what is served |
| Process `cmd/spacemouse-bridge/main.go` | signal context, `deviceLost` | watcher, `Shutdown`, exit code | all | losing spacenavd ends the process with a failure, a signal without one |
| Calibrate `cmd/.../main.go` | readings of each gesture | noise floor, opening push, gestures with retries, `Save` | axis detection, settings | what is saved is what was measured, and covers the puck at rest |
| Self test, packaging | none of their own | command-line tools | | |

Concurrency: one read loop per connection, one drive loop per Controller, one
read loop for the device, one watcher, one goroutine per status stream. They
share the pending map (mutex), the Controller (mutex and one-slot channel), the
device latch (mutex) and the one events channel. What is hard is listed under
`hazards` in `PROJECT.json`, each at its line: late and duplicate answers, calls
without a timeout, a read loop that must never wait for a call, one button
stream for many pages, a page that can stop the clock of the loop that drives
it, a latch that outlives its device.

## 2. Modules

| Module | Models | Run |
|---|---|---|
| `ReverseCall` | the promise of `CallClient`, with no loop, map or socket | refined by `WampSession` |
| `WampSession` | `session.go`: callers, read loop, page, teardown | `session` |
| `WampSession_proofs` | theorems about it | Section 4 |
| `Spacenav` | `spacenav.go`: read loop, `emit`, `Close`, daemon loss | through `MCSpacenav`, `Drive` and `Process` |
| `Spacenav_proofs` | lemmas about its steps, for every module that extends it | Section 4 |
| `MCSpacenav` | `Spacenav` with a daemon, a consumer and the history of what they exchanged | `spacenav` |
| `MCSpacenav_proofs` | theorems about it | Section 4 |
| `Drive` | `drive.go`, `bridge.go`, `controller.go`, on top of `Spacenav` (EXTENDS) | through `MCDrive` |
| `MCDrive` | constants for `Drive` | `bursts`, `buttons`, `abandoned_frames` |
| `Drive_proofs` | theorems about it | Section 4 |
| `LogFeed` | the promise of the status page's log | refined by `Logs` |
| `Logs` | `logbuf.go`, the event stream of `webui.go`, `appendLogs` of `app.js` | `logs`, `restarted_log` |
| `Logs_proofs` | theorems about it, and that it implements `LogFeed` | Section 4 |
| `Credentials` | `certs.go`, `trust.go`, `credentials.go`, for the service and a command beside it | `credentials`, `torn_pair` |
| `Credentials_proofs` | theorems about it | Section 4 |
| `Calibration` | `-calibrate`, `axis.go`, `config.go`, `settings.go`, the dead zone of `nav.go` | through `MCCalibration` |
| `MCCalibration` | readings and settings files for it | `calibration`, `rest_drift` |
| `Calibration_proofs` | theorems about it | Section 4 |
| `Process` | the service in `main.go` and the listener of `plaintext.go`, on top of `Spacenav` (EXTENDS) | through `MCProcess` |
| `MCProcess` | constants for `Process` | `process` |
| `Process_proofs` | theorems about it | Section 4 |

### ReverseCall and WampSession

`CallClient` wraps a CALL in an EVENT and waits for a CALLRESULT with its id.
Each caller goes through `idle -> send -> wait -> leave`; the steps are the
places where another goroutine may run: `Register` (id drawn, entry made under
the lock), `Send`/`SendFails`, the select (`CallCancelled`, `CallAnswered`), and
`Return` (the deferred delete). The read loop takes one frame at a time; for an
answer the lookup (`ReadAnswer`) and the store-and-close (`Resolve`) are separate
because `resolvePending` gives up the lock between them. A CALL of the page is
answered inline. When the loop ends or panics, `serveWAMP` closes the socket and
net/http then cancels the request context.

`TimedCallers` are callers with a timeout of their own (`stopMoving`), which do
not see the session's context; the others see only that. `Repeatable` names the
calls a page may answer twice. An id is never drawn twice (16 characters of 62).
`CallClient` without a deadline never ends while the page stays silent, so the
liveness properties promise an end only after an answer or after the session.

`ImplementsReverseCall` is refinement under the mapping `calling <- call`, with
`spent`, `given` and `ended` as history variables of the same name.

### Spacenav

`emit` is three selects, and the consumer may act between any two: `Receive`
(latch, first send), `DiscardOldest`, `SendAgain`. The loop's end is also split:
`ReadError` or `SeeClose`, `MarkDead`, `CloseEvents`. `Close` is two steps
(`CloseDone`, `CloseSocket`) because the read loop may see one before the other.
`reader` is the loop's place; `emitting` the event in its hands.

### Drive

A loop is a pair of a page and the number of its Controller; `delete` makes a
new Controller, and so a second loop, possible. `pc` names the place in
`runDrive`:

| `pc` | Code | Actions |
|---|---|---|
| `select` | 151-177 | `ContextDone`, `FrameArrives`, `Tick` |
| `buttons`, `fit`, `key` | 182, 287-393 | `TakeEvent`, `NoEventLeft`, `Fit`, `SendKey` |
| `focus`, `input` | 186-195 | `CheckFocus`, `CheckInput` |
| `read` | 197-249 | `ReadScene`, `ReadFails` |
| `motion` | 251-256 | `StartMotion` |
| `begin`, `write`, `end` | 258-283 | `BeginTransaction`, `WriteView`, `WriteFails`, `EndTransaction` |
| `stop`, `lastStop` | 135-146 | `StopMotion`, before `continue` and before a return |

A call to the page is one step, taken when the page answers; that it gets its
own answer is what `WampSession` shows. Every action that calls the page has a
branch for a session that is closed (the call fails, the context is live) and
for one that is over (the context is cancelled), because the code tells them
apart with `ctx.Err()`. The page's side is kept where properties need it:
`motion`, `transaction`, `animating`, `announced` focus, `keysDown`, and
`lateFrames`, the frames written since it announced blur.

Motions are classes of deflections: `Rest` inside the dead zone, `Turning` ones
that only rotate, and the rest. `Step` then moves the camera unless the motion
turns and rotation is locked or the view is not rotatable.

### LogFeed and Logs

`Append_` is the critical section; the signals that follow are one step per
subscriber (`Notify`), because the lock has been released by then. A stream is
`none -> subscribed -> select <-> sending`: `OpenStream` subscribes, `ReadBacklog`
and `WakeUp` are a `Since` each, and `Send` blocks while `wire`, the socket's
buffer, is full. `ShowLogs` is `appendLogs`. `Disconnect` is what every end of a
connection has in common: the deferred `release`, and whatever was under way is
lost. The browser then opens the stream again with the URL it was given when the
page was loaded, so `since` is always 0. `Reload` and `Restart` end a page and
the bridge. A record has the number the buffer gave it and an identity over all
starts, which only the violated property looks at.

`ImplementsFeed` is refinement of `LogFeed` under `logged <- seq` and `shown <-`
the numbers on the page: the abstract page shows runs of records in order, each
once, and skips only what had been overwritten. That holds within one start of the
bridge: its numbers begin again with it, while a page that stays open goes on after
the last number it was shown. `LogFeed` permits that loss, and `restarted_log`
shows it.

### Credentials

A file holds a key or a certificate, nothing, or half of it (`Torn`); keys are
numbered. `Ensure` is `LoadCA`, `CheckLeaf` and then the writes of `createCA` and
`createLeaf`, each of them `Truncate` and `Fill`, as `os.WriteFile` does. `pc`
runs `loadCA -> writing -> leafOK -> writing -> ensured -> trusting -> serving`
for the service and ends at `down` for a command. `harmed` records that a process died in one
of the windows (`Window`) whose files the next `Ensure` takes for good; it is
what `HealsOutsideTheWindow` and `ServiceComesUp` leave out and `torn_pair` shows.

The loops over the browsers' stores run one certutil after another, and the other
actor, a new profile, another Ensure or a crash may come between any two:

| Code | Actions | `pc` |
|---|---|---|
| `Trusted` in `ensureTrust` (`credentials.go:74`) | `TrustStore`, a look | `trusting -> deleting`, or on to the next store |
| `certutil -D` in `Install` (`trust.go:146`), failure ignored | `DeleteCA` | `deleting -> adding` |
| `certutil -A` in `Install` (`trust.go:147`) | `AddCA` | `adding -> trusting` |
| `Trusted` in `runUntrust` (`credentials.go:136`) | `UntrustStore`, a look | `untrusting -> removing`, or on |
| `Remove` (`trust.go:154-162`) | `RemoveCA` | `removing -> untrusting` |

`sweep` holds the stores an actor has yet to look at, `store` the one it is changing.
What a step does depends on the store as it is by then, not as it was at the look.
So a `-trust` that saw a store without the authority, and is overtaken by the
service, takes out what the service has put in and is already serving with; the
store is without an authority until the command's own `-A`, and for good if the
command dies in between (until the next start or `-trust`). `credentials.go:45-46`
says that installing into a store that has the authority is skipped, which is true
of the look only. `ServedIsTrusted` therefore leaves out the stores where that is
the case (`Replacing`, and those `Crash` puts into `untrusted`) and those where an
untrust removed the authority, and says that there are no others. A second `-A`
over an authority the other actor has put in meanwhile may leave either (`Added`).

Two Ensures do not overlap (`NoEnsure` in `Start` and `DeleteDir`). The code has
nothing that keeps a restart and `-trust` apart; the model makes no claim there.

### Calibration

`Calibrate`, `NoiseSample`/`NoiseDone`, `Centred`, `DetectSample` and what follows
a reading are the walk of `runCalibrate`. A poll of the latch picks any motion;
polls that change nothing are no steps. `provisional = 0` marks the opening push.
Timeouts are choices. `CreateTemp`, `FillTemp`, `Rename` are `Save`, with an
interrupt between any two. Settings are records with the keys a file happens to
have; `Load` completes them from the defaults and migrates them, `Effective` puts
the typed flags over them (`Over` is unmarshalling over a struct: the keys of the
file or the flags, and of the rest what was there). `Ranked` is the loop of
`Motion.Dominant` and `Newer`, in `Logs`, the loops of `Since` and `appendLogs`;
both are recursive functions, so that a proof can speak of them. `ShapeIsZero` is what the drive loop asks of a reading.

### Process

`main` walks through `Phases`; each may fail. The watcher starts at `watch`, before
the listener exists, so `Shutdown` may come first. `acceptor` is the goroutine of
`peekListener`, `conn` the state of each connection: in the backlog, waiting for
its first byte, waiting to be accepted, redirected, served, upgraded. The device
is `Spacenav` itself, with its read loop, its loss and its `Close`. The loop of
`peekListener` ends on any error of the inner `Accept` and hands that error to
`http.Server`: one that it retries (`acceptor = "ended"`) leaves a process that
lives on without new connections, any other (`"broken"`) comes back from `ServeTLS`
and ends the process with 1 (`ServerFails`). `http.Server` is not the repository's code and is modelled by what main relies on.

## 3. Runs

| Run | Shows | States |
|---|---|---|
| `session` | Types; the pending map holds exactly the calls in flight; the loop panics only on a duplicate answer; the page's calls are answered in order; refinement of `ReverseCall`; calls end after the session or an answer. | 196,000 |
| `spacenav` | Order kept and nothing repeated; the newest event always gets through; Close and loss told apart; loss always closes the channel. | 184,000 |
| `bursts` | Deflection starts a burst, centring or blur ends it, also when only the page's own frames step the loop; every loop ends after its session. | 149,000 |
| `buttons` | The motion flag at the page mirrors the loop on every path out; frames are bracketed; at most one frame after a blur; no step but the discarding of an event strands a menu key. | 4,000,000 |
| `logs` | Lists in order, nothing twice, within one start only what was overwritten missing; no wake-up is lost; a page that reads catches up; a page that does not holds no logger up. | 133,000 |
| `credentials` | Ensure repairs what a crash left outside two windows; the stores swept hold the authority that is served, but where an untrust or a `-trust` that looked too early took it out; the service comes up again by itself. | 805,000 |
| `calibration` | Settings always parse; a start uses what was measured; an accepted reading moved one axis; released and pushed do not meet; the walk ends. | 151,000 |
| `process` | The exit code tells a signal from a loss; a signal or a loss at any moment ends the process; a speaking connection is served beside silent ones. | 154,000 |
| `abandoned_frames` | violated: a page that gives up its animation stays in motion (`docs/01:80`). | |
| `torn_pair` | violated: Ensure returns over a key it did not read (`certs.go:185-186`). | |
| `restarted_log` | violated: records delivered after a restart are not shown (`webui_test.go:93-94`). | |
| `rest_drift` | violated: the resting offset passes the dead zone after a calibration (`main.go:587-588`). | |

Each property of a passing run was seen to fail on a variant of the code, an
operator marked `variant` next to the one it replaces: a deferred delete that is
missing, a `continue` without `stopMoving`, an off-by-one in the channel.

The four violated properties quote a sentence of the repository that the code
does not keep:

* `abandoned_frames`: the page's `{motion: false}` is ignored and its frame reports
  have stopped, so neither of the two clocks steps the loop, the flag stays set and
  even a new deflection moves nothing.
* `torn_pair`: a crash between `leaf.pem` and `leaf-key.pem` leaves a certificate
  that is in order beside a key that is not its own. `leafOK` Stats the key file, so
  `Ensure` has nothing to do and `ServeTLS` fails on every restart from then on.
* `restarted_log`: a page that was open across a restart compares the new numbers
  with the last old one and skips what it is sent until they catch up.
* `rest_drift`: the dead zone is computed from the sliding scale and applied to both
  halves; a resting offset of 11 on a tipping axis with a scale of 146 is outside 6 %.

### Bounds

* `session`: two callers, one of each kind, and two ids (each call spends one),
  two frames under way and two CALLs of the page. Two concurrent calls are
  enough to mix answers up; a third id adds another pair of the same kind. One
  id may be answered twice, the other not, so both cases of the panic occur.
* `spacenav`: capacity 2, each of five events reported once. A channel longer
  than two adds nothing between its ends, which are where emit and the consumer
  meet.
* `bursts`: one page, one Controller, no buttons, capacity 1. The Controller may be
  deleted, and its loop goes on; a second loop beside it is in no run (too many
  states with client timing), and the properties of a page are stated for one loop.
* `buttons`: one page, one Controller, capacity 2, one finger at a time
  (`MaxFingers`), three actions, no client timing (that is in `bursts`).
* `logs`: a ring of two and three records, so that one is overwritten; two loggers,
  whose signals interleave; a page that reads and one that need not; two starts.
  One batch fits on the wire, so the second `Send` blocks.
* `credentials`: one crash, one aged certificate and one deleted directory, in any
  order and at any step; the store Chromium browsers share and one in which
  `certutil` fails. The first is enough for the service and a command to meet at one
  store in every order of their looks, removals and additions, since a store is
  changed by no step that concerns another. One crash at every step is enough, since `Ensure` starts from
  the files alone; two ages would renew the same files once more.
* `calibration`: one sliding and one tipping gesture of three axes, eight readings
  from the ranges the documents report, files of version 1, 2 and without a version,
  one calibration (`MaxRuns`). The six gestures of the program are walked through
  one by one and share nothing but the pooled peaks.
* `process`: one connection of each kind, in drive mode and without a device; one
  motion that is reported over and over.
* Violation runs use the least that shows the behaviour.

### Fairness

* Goroutines that can run do (WF on each loop and caller step), tickers and
  `context.WithTimeout` fire. `select` chooses at random among ready cases, so
  `ctx.Done()` is eventually taken however often the ticker competes: SF on
  `ContextDone`.
* `NoEventLeft` has SF: draining takes microseconds and motion events come at
  125 Hz. This is used for capacity 1 and without buttons. With fits, each of
  which takes several round trips, a user who presses again before each ends
  keeps the loop draining for ever, so `bursts` has no buttons.
* In `WampSession` the page owes nothing. In `Drive` it answers the calls it gets
  and reports frames while it animates; it may stop animating at any time, and
  `BurstEnds` then promises nothing (`Animated`).
* Device and user owe nothing.
* `logs`: goroutines run; only pages in `Readers` read their stream, and no page has
  to come back.
* `credentials`: the unit has `Restart=always` and `StartLimitIntervalSec=0`, so the
  service is started again for ever; SF, because a user's commands may be in its way
  again and again. Commands that were started go on.
* `calibration`: tickers and timers fire.
* `process`: goroutines run and a phase of the start ends. No deadline is assumed
  (`peekTimeout`, `redirectTimeout`), so `SpeakersAreServed` does not rest on one.

## 4. Proofs

Every invariant that a passing run checks, its one action property and both
refinements are theorems of the specification, for all values of the constants:
any number of callers, pages, loops, loggers, stores, connections, axes and prompts,
a channel and a ring of any capacity, any bound on crashes, restarts and retries.
TLC keeps the liveness properties. Each proof has the same shape: an invariant that
is inductive, one step per action, and what it implies; the temporal step is the
last one.

### What is assumed

The named assumptions of the modules (`SessionAssumption`, `SpacenavAssumption`,
`DriveAssumption`, `ProcessAssumption`, `LogsAssumption`, `CredentialsAssumption`,
`CalibrationAssumption`), which TLC evaluates in the runs. They say that a channel,
a ring and the wire have room for one, that the bounds are numbers, that sets named
after a part are subsets of the whole, and three things the proofs needed and the
code provides: there is a first start (`MaxStarts`), there is a prompt (`Gestures`,
a literal table in `main.go`), and settings files and flags have no keys but those
of `Config`, the flags neither `version` nor the calibration time.

### WampSession

Typed (types, and a caller holds an id exactly inside `CallClient`), and on top of it
`Matched == Distinct /\ Faithful`, `Counted` and `Queued`.

* `TypeCorrect`: `Spec => []TypeOK`.
* `PendingExact`: `Spec => []PendingIsInFlight`. The map is exactly the set of
  ids of callers inside `CallClient`. It is not inductive on its own: a return
  removes the id of one caller, and one must know that no other caller holds the
  same id. `Distinct` says that ids in flight are drawn, and distinct for distinct
  callers.
* `CallsKeepTheirPromise`: `Spec => ImplementsReverseCall`. Every step maps to a
  step of `ReverseCall` or a stutter. It needs `Faithful`: every answer that is
  inbound, in the loop's hands, stored or about to be returned was given by the
  page to that call.
* `LoopSurvivesSingleAnswers`: `Spec => []OnlyDuplicatesPanic`, by `Counted`: the
  page has sent at least as many answers to a call as are inbound, in the loop's
  hands or delivered.
* `CallsInOrder`: `Spec => []CallsAnsweredInOrder`, by `Queued`: while the loop reads,
  the CALLs still inbound are those after the last one answered, in their order.

### Spacenav, MCSpacenav, Process

`Spacenav_proofs` says what every step of the client preserves, whoever consumes its
events: its types with the bound on the channel, and `Explained`, that a read loop
that ended has a reason. `MCSpacenav`, `Drive` and `Process` cite these lemmas.

* `HistoriesTyped`, `LossIsToldFromClose`: directly from them.
* `EventsInOrder`: `Spec => []ServedInOrder`, by `Ordered`, which relates received,
  queued and emitting events to their places in what was reported. It uses that the
  daemon reports no event twice, which is how the histories tell events apart.
* `NewestGetsThrough`: `Spec => []NewestIsServed`. The strengthening says where the
  newest event is in each of the three selects of `emit`; the one that discards meets
  a channel of which the newest is not yet a part.
* `ServiceTyped`: `TypeOK` of `Process` is not inductive. That `Serve` and the watcher
  close a listener that is there needs `NoListenerYet`: it is made in the phase
  `listen`, and not before.
* `ExitCodeIsHonest`: `Spec => []ExitTellsWhy`, by `Told`: a watcher that is shutting
  down was told to or saw a loss, main comes back from `Serve` only after a shutdown,
  and it closes the device only where there was no loss. So no Close of its own can
  be what `deviceLost` came from.

### Drive

* `DriveTyped`: `Spec => []TypeOK`, with `HoldsKeys` (a loop holds an event exactly
  while it tells the page of a menu button) and `Starts` (a loop exists once its
  Controller was made).
* `MotionIsMirrored`, `FramesClose`, `BlurIsHeard`: by `Tracks`, which says for each
  place of the loop what the page was told: of motion (also in the three places where
  the call that changes it is under way), of an open frame, and how many frames were
  written after a blur. All three hold for any number of pages, each as long as one
  loop has driven it; the proof shows where that is used: a second loop writes to
  the same page, and nothing relates the two.
* `KeysComeUp`: `Spec => KeysFollowFingers`, by `InPairs`. A press still in the
  channel, with emit or with a loop, has its finger down or its release behind it.
  Without the order of the channel the property would not be inductive: a loop that
  takes a release must not leave a press behind.

### Logs

* `LogsTyped`, `WakeUpsArrive`: `Spec => []TypeOK`, `Spec => []NoLostWakeUp`.
* `StreamsFeed`: `Spec => ImplementsFeed`. Each step maps to a step of `LogFeed` or a
  stutter.

`InOrder` is the ring: walked from its oldest slot it holds the last `RingSize`
numbers in a row, zeros first while it fills. `Streams` says that each batch, on the
wire or in the handler's hands, is a run of numbers that begins right after the one
before it or after what was overwritten, and that a stream behind the buffer has a
token or a signal coming. That `Newer` returns the tail of a run of numbers is
proved for runs of every length.

### Credentials

`Credible` says for each step of the running `Ensure` what the files it has written
hold and which are still to be written (`Stage`), that outside the windows the
authority's and the leaf's files belong together or will be replaced
(`Recoverable`), and `Covered`: a store the service has finished with (`Looked`)
holds the authority the service was given or none, and none only if it is in
`untrusted` or somebody is between `-D` and `-A` there (`Adding`), who will put the
same authority back. It says nothing of a store at which the service has not looked,
where an older authority may be; the steps of a command at such a store are harmless
because the service has yet to come.

* `CredentialsTyped`, `EnsureHeals` (`HealsOutsideTheWindow`), `ServedStaysTrusted`
  (`ServedIsTrusted`), for any number of crashes, expiries and deletions, and with a
  crash or the other actor between any two certutils. In the run one crash had to do.

### Calibration

* `CalibrationTyped`, `SaveIsAtomic`, `MeasuredReachesTheLoop`: by `Walk`, which says
  what each of the two files of `Save` holds at each step.
* `GesturesArePure`: by `Ranking`, what the loop of `Dominant` returns for any number
  of axes: a peak some axis reached, and a runner-up no other axis exceeds.
* `PushIsNoRest`: `RestThreshold < PushThreshold` through the integer divisions, for
  every scale and every floor up to a tenth of it.

### Induction

The library's induction theorems take an operator, which the provers cannot be
given. Where a proof needs induction over a loop (`Ranked`, `Newer`, maxima of
sequences) it takes the least number for which the claim fails
(`WellFoundedInduction`, `LeastNumber`) and contradicts it.

### What the proofs changed

* `Drive`: `TypeOK` lacked the range of `current`; `KeysFollowFingers` spoke of the
  one loop of a single Controller and now speaks of every loop.
* `Credentials`: `Usable` now also asks that `ca-key.pem` is the authority's own key,
  as its comment said.
* `Calibration`: `Promote` was a CASE whose guards overlap; the code's switch takes the
  first that holds, and so does the model now.
* `Logs` and `Credentials`: `TypeOK` gives the ranges the invariants rest on.

### Model-checked only

Every liveness property: the prover does not do ENABLED and fairness. They are
`CallsDrain`, `AnsweredCallsReturn`, `LossIsNoticed`, `BurstEnds`, `BurstStarts`,
`LoopsEndWithTheSession`, `ReadersCatchUp`, `AppendsReturn`, `ServiceComesUp`,
`CalibrationEnds`, `StopsWhenItMust` and `SpeakersAreServed`. The four violated
properties are counterexamples of TLC.

## 5. Not modelled

* Floating-point camera algebra, response curve and matrix layouts, JSON encoding,
  HTTP routing and origin checks, logging text, TLS itself, the terminal dialogue
  of calibrate, packaging.
* Clocks: `dt`, the 2 s life of cached extents, the 60 ms of the page, the settling
  time of a push appear only as choices. Reads whose errors are ignored do not appear.
* The status half of the event stream, `GET /api/logs`, the test scene's stream and
  the status record it sends; `trustCache`, whose default branch is a data race.
* The client registry, a map under one mutex that follows `Upgrade` and `Leave`.
* Orbit and probe modes, the self test, `-read-mouse`: diagnostics.
* Two Ensures at the same time.
* What happens inside one `certutil`, and one that fails now and then: a store is one
  in which certutil works, or one in which it never does (`Locked`).
* Two pages that share the buttons, and the frame that a loop leaves open when it dies
  of an error: both are in the model, but no property speaks of them.

## 6. Plan

What is left is proof:

1. `Drive` with more than one loop at a page: what still holds of motion and frames
   while an old loop has not noticed that its Controller was deleted.
2. The safety part of the liveness arguments: that in each state where a loop, an
   Ensure or the walk is not at its end some fair action leads nearer to it.
3. `Process`: that a connection that spoke is never in a state no goroutine is
   responsible for.
