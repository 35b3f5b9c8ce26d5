# A TLA+ verification of the UniFi Protect – Google Home bridge

This directory specifies the concurrent core of the Go program under
`src/unifi-protect-google-home`, model-checks it with TLC and proves part of it
with TLAPS. Paths below are relative to that directory; `reconciler.go:353` is a
line of `internal/bridge/reconciler.go`, and so on.

The bridge is one process. It learns the cameras of a UniFi Protect controller
(a polled *bootstrap* plus a WebSocket of updates), offers them to Google Home
(SYNC, QUERY, EXECUTE; pushes through the HomeGraph API), and serves their video
three ways: WebRTC, HLS and progressive MP4, all fed from RTSP sessions it opens
on demand. Nearly everything that can go wrong in it goes wrong between
goroutines.

## 1. The system

| Component | State | Operations | Hard behaviour | Correct when |
|---|---|---|---|---|
| **Streams and registry** `internal/streams` | `Registry.streams`; per Stream `refs`, `started`, `tracks`, a mutex held across Producer.Start and Stop | Put, Delete, Get, Acquire, release | racing acquire and release; registry entry replaced while in use | the count is exact; every viewer is on the live run; nothing stays open for nobody |
| **WebRTC sessions** `internal/webrtc` | `Session.closed`, `release` | Negotiate, Close | three goroutines may close one session; error paths before a Session exists | each reference is released exactly once |
| **RTSP producer** `internal/rtsp` | `client`, `track`, `closed` under `Producer.mu`; one reconnect goroutine per run | Start, Stop, run, packet callback | a dial that outlives a stop and a restart; Close joins callbacks | no orphan session; a wanted producer keeps reconnecting; Stop ends |
| **MP4 muxer** `internal/mp4` | `started`, `initBytes`, `subs`, per-session goroutines | ServeHTTP, Close, demux, read loop, watchdog | leftovers of one session meet the next | subscribers get only their session's data; idle sessions close; requests end |
| **HLS muxer** `internal/hls` | `started`, `hlsMux`, `lastAccessNs` | ServeHTTP, Close, read loop, watchdog | as the MP4 muxer, without subscribers | as above |
| **Stream servers** `internal/mp4`, `internal/hls` | `muxers`, `closing` | ServeHTTP, muxerFor, Prune, Shutdown | a muxer is closed while a request is on its way to it | hidden or moved cameras are not served |
| **Reconciler and camera source** `internal/bridge` | `cameras`, `rtspURLs`, `allowed`, `gen`/`onlineGen`, `firstRefreshDone`, `refreshMu` | Refresh, WebSocket updates, SetAllowed | a bootstrap in flight is older than an update; reports leave from goroutines without an order | the stream servers have pruned against what is in force, Google knows the cameras but for the races and failures of section 4, and the source comes to agree with the controller |
| **Setup glue** `internal/bridge/setupglue.go` | `sync_state.json` | StartupRequestSync, ApplyExposedCameras | crashes between the request and the file; edits that overlap; states reported late or, after a failing RequestSync, not at all | a start skips its request only for a list that Google has; an edit is reported. Both fail in cases of section 5 |
| **UniFi client** `internal/unifi` | cookie jar, `loggedIn`, shared by goroutines without a lock across a request | Login, do, SubscribeEvents | expired sessions, logins answered out of order, goroutines that clear each other's flag | a call is refused only if its session ended; the event feed comes back; logins cease |
| **Smart Home handler** `internal/ghome/intents.go` | none | SYNC, QUERY, EXECUTE | reads several pieces of source state | answers fit the allow-list |
| **HomeGraph client** `internal/ghome/homegraph.go` | cached token | RequestSync, ReportState, Notify | concurrent token exchanges, the later answer wins | no push carries an expired token |
| **OAuth server** `internal/oauth` | `codes`, `pwFails` | Authorize, Token, Validate | repeated exchanges of one code, attempts racing the failure window, restarts | one grant per consent; wrong passwords are bounded; access ends with the refresh token |
| **HTTP API** `internal/api` | none; the signed URLs are outside | bearer check, EXECUTE, signed URLs, signalling, stream routes | URLs outlive tokens and restarts; the exposure list changes between signing and use | a view follows from a recent token; a camera hidden before the request is not shown |
| **Setup UI** `internal/setup` | the add-on options, kept by the Supervisor | save, cameras, log level, restart | read-modify-write without a lock; calls that fail, time out and take place all the same | saves that neither overlap nor read an empty answer lose nothing; the bridge goes by what is stored and could be applied |
| **Wiring** `cmd/bridge` | how far the start has come | run | the setup UI serves before anything else is ready | appliers find their bridge, or the save counts as not applied |
| **Discovery, stream secret, configuration** | none after startup | | | see section 8 |

How they interact:

```
 controller --bootstrap/WS--> Reconciler --set--> CameraSource <--SetAllowed-- Setup UI
                                 |  |                  |  ^
                        Put/Delete  RequestSync        |  |ListCameras (SYNC, QUERY)
                                 v  ReportState        |  Smart Home handler
                             Registry    |             | OnStreamsChanged -> Prune
                                 ^       v             v
        WebRTC session --Get/Acquire   Google      HLS/MP4 Server --> Muxer --> RTSP
                                 |
                              Stream --Start/Stop--> RTSP Producer
```

## 2. Modules

| Module | What it is | Composition |
|---|---|---|
| `SharedUpstream` | abstract: upstreams shared by viewers, open while used | refined by `Streams` |
| `Streams` | Registry, Stream, Session for one camera | `INSTANCE SharedUpstream` |
| `StreamsProofs` | its theorems | extends `Streams` |
| `MuxerLife` | abstract: one upstream on demand, viewers attached only while it is open, a stop that ends all of them at once | implemented by `Mp4Muxer`, `HlsMuxer` and each muxer of `StreamServer` |
| `RtspProducer` | Producer with its reconnect loops | the inside of `StartOK`/`ProducerStopped` of `Streams` |
| `Mp4Muxer` | one progressive-MP4 muxer over its sessions | the inside of `Attach`/`MuxerStops` of `StreamServer`; `INSTANCE MuxerLife` |
| `StreamServer` | map of muxers, requests, Prune, Shutdown | driven by what `Reconciler` calls `pruned`; `INSTANCE MuxerLife` per muxer |
| `Reconciler` | controller, Refresh, WebSocket, source, exposure edits | |
| `MCReconciler` | model values and symmetry for TLC | extends `Reconciler` |
| `ReconcilerProofs` | its theorems | extends `Reconciler` |
| `DeviceSync` | RequestSync and its fingerprint over restarts | the startup step of `Reconciler`, with crashes |
| `OAuth` | consent page, codes, tokens, with clock and restarts | |
| `Api` | tokens to URLs to streams, with the exposure list | extends `OAuth` |
| `ApiProofs` | theorems about both | extends `Api` |
| `Setup` | start of the process, save requests, Supervisor | calls what `Reconciler` calls an exposure edit |
| `SetupProofs` | its theorems | extends `Setup` |
| `UnifiClient` | the session with the controller, shared by goroutines | beneath `Reconciler`'s bootstrap and messages |
| `HomeGraph` | the service-account token of the pushes | beneath `Reconciler`'s and `DeviceSync`'s pushes |
| `ServicesProofs` | theorems about the three and their sum | extends `MCClients` |
| `HlsMuxer` | one HLS muxer over its sessions | as `Mp4Muxer`, for the HLS server; `INSTANCE MuxerLife` |
| `Timeline` | timestamps to presentation times, three consumers | the packet callbacks of the producer and both muxers |
| `Mp4MuxerProofs`, `StreamServerProofs` | theorems | extend their modules |
| `MCSetup` | symmetry and focus for TLC | extends `Setup` |
| `MCClients` | `DeviceSync`, `HomeGraph` and `UnifiClient` in one run | sum |
| `MCRtsp` | `RtspProducer`, `HlsMuxer` and `Timeline` | sum |
| `MCUpstreams` | `MCRtsp` and `Streams` in one run | sum |
| `MCServers` | `Api`, `StreamServer` and `Setup` in one run | sum; extends `MCSetup` |
| `RtspProofs` | theorems about the three and their sum | extends `MCRtsp` |

The four *sums* put modules that share no variable and no event side by side: the
initial state chooses which of them moves (`subject`, `streamsMove`, `moving`), the others
stay as they begin. This is one exploration of each and says nothing of their
interleaving, which could not matter.

A variable is named after the field it stands for, and an action after the
function or the critical section it stands for. Two conventions run through all
modules. A critical section of a mutex is one step; a mutex is a variable only
where the code keeps it across something that waits (`Stream.mu`, `Session.mu`,
`refreshMu`, and `Producer.mu` inside Stop). A definition whose comment begins
*Faulty variant* is not part of the specification: it records a plausible mistake
at that place, and the property that notices it is named in `PROJECT.json`.

**Streams.** One camera, several `Stream` objects, because the reconciler
replaces the entry when the URL changes and the sessions keep the object they
acquired. `AcquireIdle`/`StartOK`/`StartFails` and `ReleaseLast`/`ProducerStopped` are
split because `Stream.mu` is held while Producer.Start and Stop run and other
requests queue up behind it. `tracks` and `attached` are the number of the
Producer run, so *watching the live run* can be stated. `CallClose`,
`CloseFirst`, `CloseAgain` model the closers of a Session, including pion's
callback for the Closed state that `pc.Close` itself causes. It is assumed here
that Stop returns; section 5 shows when it does not.

**Reconciler.** The controller (`CtrlChange`) is the environment. A message is
queued for a new online state, or lost. A Refresh goes through the lock and the
generation sample (`RefreshBegin`), the HTTP answer (`BootstrapOK`), the previous
snapshot (`TakeSnapshot`), the pass over the cameras (`Diff`), `SetCameras`, `Publish` and
`Notify`; WebSocket events and exposure edits interleave everywhere. `Diff` is
one step because each camera is judged alone and the allow-list is read only for
the counts at its end. `streams` stands for `rtspURLs` and the Registry, which are
always changed one right after the other under `refreshMu`.

ApplyExposedCameras is called by requests that may overlap (`Editors`), and each call goes
through six critical sections or answers: SetAllowed stores the list (`ApplyAllowed`),
unlocks, and notifies the stream servers with whatever is in force by then
(`ApplyNotify`, `source.go:173-176`); the states are read (`ApplySnapshot`) and those of
the exposed cameras kept (`ApplyFilter`); the goroutine asks Google to sync and then
reports (`ApplySyncOK`), or gives up with nothing reported (`ApplySyncFails`,
`setupglue.go:104-107`). handleStateChange flips the flag (`WSEvent`) and reports later
(`ReportFlip`).

HomeGraph is enabled. A ReportState leaves from a goroutine of its own: `way` has, for each
camera, the states that are on their way. They arrive in any order (`ReportArrives`) or
fail (`ReportLost`), and nobody repeats them. A RequestSync has Google fetch the list as it
is when it is answered (`Fetched`); it may fail too (`SyncAnswered`). Equal reports and
requests under way are not counted but may always be followed by another. `told` and
`synced` are Google's side; `raced` and `doubtful` are history, explained in section 4. The
callback for the stream servers is installed by `run` after Poll has started (`main.go:188`
and `223`); no muxer exists before, so an earlier notification has nothing to prune.

**RtspProducer.** Start and Stop as the Stream calls them, one reconnect
goroutine per run, and the sessions with their packet callback. Of gortsplib the
model has only that Close and Wait return once a running callback has returned;
the comment at `mp4/muxer.go:94-97` states exactly that. Stop's early return is not
reached because a Stream stops a run once. Not modelled: the failure of
NewTrackLocalStaticSample, which closes the new session again.

**Mp4Muxer.** Every critical section of `Muxer.mu`. A fragment or init segment is
the number of its session, so mixing sessions shows. Time is one Boolean, `idle`:
more than `idleTimeout` since the last access. A subscriber's timeouts and write
errors are its freedom to leave.

**StreamServer.** One camera, several Muxer objects, each reduced to whether its
upstream is open. The goroutines that change `LookupRTSP`'s answer call Prune
later (`notify`). The HLS and the MP4 server share this code; the model's viewer
that stays attached is the MP4 one, and an HLS request is a viewer that leaves.

**DeviceSync.** The fingerprint is the list it was made from. A change of the cameras while
the bridge runs sends a RequestSync (`pending`) that is answered later or fails and writes
no file; a crash may come between any two steps, and the list may change while the bridge
is down. The write of the file fails as it may: the file is as it was, or cut off. `since`
is history: what has made Google fetch a list since the sync whose fingerprint is on file.

**OAuth.** Handlers of the consent page (`Workers`) check the budget (`CheckBudget`) and
record a failure or mint a code in separate critical sections of `Server.mu`; a token
request takes its code (`TakeCode`) and is answered later (`Grant`, `InvalidGrant`). The
clock moves and the process restarts in between, and `tooManyFailures` judges by a clock
read before it got the mutex. A token is its kind and expiry: the server stores none, so
`tokens` is the set of strings whose signature verifies and survives a `Restart`, whose
key comes from a persisted secret (`main.go:190-202`); that secret file is assumed to
survive. (The package comment `server.go:9-11` still says that tokens are kept in memory;
the type's comment at 59-64 and the code have them stateless.) Randomness is taken to be
unique and signatures to be unforgeable; the parameter checks of Authorize and Token,
which read no state, and minting errors are left out.

**Api.** On top of OAuth's tokens: `Authorize` is authMiddleware, which checks the access
token when the request begins (`api/server.go:83-98`); its body may take up to
`ReadTimeout` (60 s, `main.go:236`) before `Execute` finds an exposed camera and signs a
URL, with the lifetime counted from then; `Answer` ends the request. `Arrive` needs a URL
that verifies, `Admit` looks at the exposure list
once more, and from then on the stream is in the hands of `Streams` or `StreamServer`. A
URL is the pair that its signature covers, so the set of them survives a restart. The
viewer's `hidden` is history: whether its camera has been hidden ever since the request
came.

**Setup.** The process goes from *down* over *setup* (the UI serves), *loaded* and
*running* to the registration of the two appliers, and may stop anywhere. The Supervisor writes the options
to `options.json` when it starts the process (`file`), and it is that file which `Load`
reads, so a save that comes in between is not in it. A save goes
through the probe (credentials only), the read of all options, the write of all of
them, and the applier or the restart. The read may yield no options at all: supervisorJSON
ignores the error of `io.ReadAll` and takes an empty body for `{}` (`server.go:450-456`), and the
writers go on from there (`ReadOptions` with `Defaults`). The Supervisor stores a write
whether or not its caller still waits (`Stored` of an `abandoned` one), also after a restart.
The option groups are the three that the UI edits and `"rest"`, which Home Assistant's own
page fills in; a group that is not mentioned is at its default. `unapplied`, `overlapped`,
`last`, `lost` and `probed` are history.

**UnifiClient.** The controller ends all sessions now and then, so a cookie is
the number of its era. A login is three steps, because the answer puts its cookie into
the jar before Login sets `loggedIn`, and logins of several goroutines are answered in any
order. `calm` is history: nothing has ended and no older cookie has been put into the jar
during the call. All calls are GETs, so the CSRF token plays no part.

**HomeGraph.** A token is the time at which Google stops accepting it. The client
counts its life from the answer, Google from the minting, and `Margin` has to cover the
difference.

**HlsMuxer.** As `Mp4Muxer` without subscribers: a request touches the clock, makes sure
that a session runs and is handed to the segment muxer it then finds.

**Timeline.** One session of a camera, with `Wrap` for 2^32, and what the HLS callback, the
producer's callback and runDemux make of its timestamps. runDemux misses access units
when its channel is full, and begins only with the parameter sets. `straight` is history: the consumers
that have seen no gap that is backwards or of half the range. HLS and MP4 count in ticks.
The WebRTC callback turns the ticks of a sample into a `time.Duration` with a division that
drops the rest (`rtsp/client.go:185`), which is exact for multiples of nine ticks only:
`SampleDuration` does the same with `Second` and `Rate`.

## 3. Runs

| Run | Specification and bounds | Shows |
|---|---|---|
| `upstreams` | fair; registry: 2 sessions, 2 Stream objects; producer: 4 sessions, 2 starts; HLS: 2 players, 2 sessions; timeline: `Wrap` 8, 5 access units, gaps -1, 0, 1, 3, a `Second` of 5 at a `Rate` of 3 | exact counts, viewers on the live run, refinement of `SharedUpstream` with its liveness, every started Close completes; no orphan session, loops run while wanted, cancelled runs end; HLS sessions close when idle or lost; presentation times survive the wrap |
| `rtsp_stop` | FairSpec, 2 sessions, 1 start | violated: section 5 |
| `reconciler` | FairSpec, 1 camera, 2 URLs, ticker and debounce, 2 overlapping editors, 2 changes or edits in all, 1 once a push has failed or been overtaken | the membership, report, sync and prune invariants; flips in flight survive; convergence to the controller |
| `reconciler_stale` | Spec, 2 cameras (symmetric), 1 URL, 1 editor | violated: section 5 |
| `reconciler_reexpose` | Spec, 1 camera, 1 URL, 1 editor | violated: section 5 |
| `mp4` | Mp4FairSpec, 2 requests, 2 sessions, backlog of 1 | subscribers, fragments, watchdog, ends of requests |
| `mp4_stale` | as `mp4`, Mp4Spec | violated: section 5 |
| `clients` | sync: 3 lists, 3 changes, 3 restarts; token: 2 callers, life 6 (or 5), margin 2, timeout 1, clock to 14; session: 2 users and the watcher, 3 eras, 1 fault, fair | skips only what Google has; no expired token sent; refused only if disturbed; the session settles |
| `clients_skip` | sync: 2 changes, 2 restarts | violated: section 5 |
| `servers` | API: 2 addresses, 2 handlers, 1 code, 2 token requests, 2 redirect URIs, 1 camera, 1 intent, 2 viewers, clock to 4; streams: 3 requests, 3 muxers, 2 URLs, 2 notifiers, 3 changes; setup: 2 handlers, 2 lists, 1 set of credentials, 3 saves, 1 revocation; all names but those of the lists symmetric | consent budget, one grant per consent, end of access and of views, hidden cameras; the registered muxer is the current one and the one in use; saves keep other groups, live is stored, only probed credentials are refused |
| `server_hide` | ServerSpec, bounds of `servers` | violated: section 5 |
| `setup_wipe` | SetupSpec, bounds of `servers` | violated: section 5 |

Why the bounds are enough. Two sessions are needed for every race on a reference
count (one leaves while one comes) and two Stream objects for a replacement in
use; for more of either, the safety results are proved. The properties of the reconciler
are stated per camera and the code's loop treats cameras independently. Two refreshers
contend for the lock. Two controller changes are a change during a bootstrap and its
revocation; two edits overlap, the second between the two halves of the first one's
SetAllowed; one of each is an edit beside a change. Pushes that fail or overtake each other
are explored with one change or edit, after which the camera is `doubtful` and only the
properties that do not except it are at stake; two URLs let an address be replaced. Two starts and four sessions are the smallest instance in which a
loop of the first run dials across a stop and a restart *and* the second run reconnects.
Two MP4 sessions are an old and a new one; a backlog of one fills with one fragment.
Three requests, muxers and changes let a camera be hidden, exposed and hidden
again with a request caught in each phase. Three lists, changes and restarts let
a list go away and come back with crashes in between. In the API two token requests race
for one code with the right and the wrong redirect URI; budgets of one per address
and two in all are overrun by two handlers in flight; the lifetimes are one unit and
`ReadTimeout` is one, so that four units are enough to renew, expire, sign late and view
later still. In the setup two handlers overlap while a third save is made after a restart;
the credentials may be revoked once, and the installation may begin with or without them.
In `clients` two eras end, so that a cookie can be two logins old, and the clock passes two
lives of a token. In the timeline a `Wrap` of 8 is passed twice within five access
units, a lost unit makes a gap of half the range, and with 5 and 3 for `Second` and `Rate` a
sample of one tick is no whole number of nanoseconds, while one of three is. The main invariants of the
reconciler are proved for any number of cameras and editors.

Four constraints cut the exploration. `Focus` of `MCReconciler` bounds changes and edits
together, `Focus` of `MCSetup` asks for a third save only after two that neither overlapped
nor read nothing nor saw a password change, and `FirstList` begins with one of the
interchangeable lists. `Apart` of `MCServers` explores failed consent attempts, the exchange
of a code, and the streams in separate behaviours, as their steps share nothing but the
clock and the tokens. The symmetries are of sets whose members no property tells apart;
`servers` checks invariants and one action property only, for which symmetry is sound. In
`MCServers` values of modules of which one moves at a time bear the same names, so that
one symmetry serves each of them.

`MaxChanges`, `MaxApplies`, `MaxStarts`, `MaxSessions`, `MaxHlsSessions`, `MaxRestarts`,
`MaxTime`, `MaxNow`, `MaxFails`, `MaxSaves`, `MaxRevocations`, `MaxEras`, `MaxFaults` and
`MaxUnits` are the only bounds in guards; the proofs hold for every value of those in the modules
they are about. `CHECK_DEADLOCK FALSE` is used where every request may have been
served, nothing is left to change, or Stop and a callback block each other.

**Fairness.** Goroutines that can run, run: weak fairness per goroutine in
`Streams`, `RtspProducer`, `Mp4Muxer` and `HlsMuxer`. No client has to send a request, no
camera has to send a packet, nobody has to edit anything. `Reconciler` assumes the
ticker keeps starting Refreshes (`Poll` loops until shutdown), that WebSocket
messages in the queue are read, and strong fairness for `BootstrapOK`: the
controller may fail any number of bootstraps, but not all of them.
`Mp4Muxer` and `HlsMuxer` assume `idleTimeout` passes when nobody touches the clock
(`TimePasses`, `HlsTimePasses`). `UnifiFairness` says that requests are answered or time
out and that watchEvents redials for ever, as its loop does; no user has to make a call,
and the controller has to end no session. In the sums a module that does not move has
nothing enabled that its fairness is about.

## 4. What the properties say

Each module states one type invariant; the others are these.

* `Streams`: **RefsCountHolders**, **HoldersWatchTheLiveRun**,
  **UpstreamOnlyWhileUsed**, and the refinement **SharedSpec**: joining needs an
  open upstream or opens it, the last viewer's departure shuts it, an open
  upstream without viewers is eventually shut. **CloseCompletes**.
* `Reconciler`: **DiffIsAgainstCurrent** is the reason the code gives for
  `refreshMu` (`reconciler.go:42-45`). **ServersPruned**: unless somebody has changed
  URLs or the allow-list and is about to notify (`NoticePending`), the stream servers have
  pruned against what is in force. It holds in the window of SetAllowed between its unlock
  and its callback only because of that exception, and it holds after overlapping edits
  because each callback reads the list afresh. **ToldIsCurrent** and **ExposedIsSynced**
  compare what Google was last told, and the list it last fetched, with what the bridge
  would answer now, whenever nothing is under way. **InFlightFlipKept** is the purpose of
  the generations. **Converges**.

  Two histories collect the cameras for which the claims about Google do not hold by the
  code's own design. `raced`: a flip that falls between the generation check and the end
  of the Refresh (`Window`), a change of a camera while a goroutine holds a state of it
  that it is to report (`Held`: the WebSocket's between flip and report, an edit's between
  reading the states and the end of its RequestSync), and a camera exposed while a Refresh
  is deciding what to report. `doubtful`: a push about the camera failed, which the code logs
  and never repeats, or two reports of it were on their way at a time and may have arrived
  in the wrong order. These exceptions are large, and the properties say what is left: with
  pushes that arrive one by one, no flip, adopted camera or re-exposed camera goes
  unreported. InFlightFlipKept excepts `raced` cameras too.

  The `reconciler_stale` run shows the first kind of race without the exception. What
  follows from it: a camera goes offline in the window and Google is told so; the
  Refresh writes *online* back; the camera returns; its *online* message changes
  nothing in the source, so nothing is reported and Google shows it offline until
  its next outage. `reconciler_reexpose` shows the failing push of an edit.
* `RtspProducer`: **NoOrphanSession** (with **HlsNoOrphan** the **EverySessionOwned** of
  the run), **LoopRunsWhileWanted** and, as part of
  **SessionsClose**, **CancelledRunEnds**. The first is subtle: the loop of an earlier run can install
  its session over the newer one in `Producer.client` (`client.go:252-257` looks
  at `closed` only). Nothing leaks, because each loop also watches its own context.
* `Mp4Muxer`: **StopLeavesNothing** joins three halves of one promise:
  **SubscribersOfTheRunningSession** (a registered subscriber is within the reach of
  stopLocked), **DroppedAreTold** (a request that is a subscriber no more has had its
  channel closed) and **UpstreamIsWatched** (an open upstream is the running session's, and
  its read loop and watchdog are there to stop it). **NothingFromAnEarlierSession** (the
  guarantee of the comment at `muxer.go:456-458`; an init segment of a *later* session can
  reach a subscriber whose channel has been closed already),
  **IdleUpstreamCloses** (the 0.4.0 watchdog bug), **DisconnectedRequestsEnd**.
* `StreamServer`: **RegisteredMuxerIsCurrent**, **ServedByRegisteredMuxer**, the
  latter except for muxers closed while a request was on its way to them
  (`escaped`).
* `DeviceSync`: **SkipsOnlyWhatGoogleHas**: a start that skips its request does so with
  Google up to date, through crashes at any point and failing requests, as long as Google
  has fetched no list since the one whose fingerprint is on file (`since` is empty). The
  exception is no detail: a live RequestSync does not write the file, so a list that returns
  around a restart to the persisted one is taken for *nothing changed*, although `main.go:167-169` speaks of the fingerprint of "the last
  successful sync". `clients_skip` shows it.
* `OAuth`: **OneGrantPerConsent** ("one-time", `server.go:276`) across overlapping
  requests, expiry and restarts. **FailuresBounded** states what the budget of the consent
  page is worth when handlers run concurrently: not `pwMaxPerIP` and `pwMaxGlobal`, but
  those plus the handlers already past the check, less one.
* `Api`: **ViewsFollowAccess** follows a view back to its URL, the URL to an access
  token and the access token to a refresh token: whoever views asked at most `ReadTimeout`
  and `PlayTTL` after the end of an access token, the former because a request whose token
  has been checked may dawdle with its body (**AccessEndsWithRefresh**;
  the clock does not move inside `RefreshAccess`, which waits for nothing).
  **HiddenStartsNothing**: a camera hidden before the request came, and not exposed again
  since, is not streamed, though its URL verifies. What is already streaming when
  the camera is hidden is `StreamServer`'s and `Streams`' matter.
* `Setup`: **SavesKeepOtherGroups**, **LiveIsStored** and the action property
  **RefusedWereProbed**. The exceptions are the code's: overlapping saves write back each
  other's old values (`overlapped`); a save that read an empty answer resets the groups it
  is not about, and only those (`lost`, see `setup_wipe`); and a save whose answer is lost,
  that met no applier or that reset the group is stored and not applied until the next
  restart (`unapplied`). RefusedWereProbed leaves credentials that a probe accepted and the
  controller has revoked since, and those of the installation.
* `UnifiClient`: **RefusedOnlyIfDisturbed**, an action property, says that goroutines that clear each other's `loggedIn`
  cost logins and never a call. **SessionSettles** joins **WatcherReconnects** (the
  WebSocket is redialled with a new cookie, not "forever with the same dead cookie") and
  **LoginsCease**.
* `HomeGraph`: **SentTokenIsGood**, whichever exchange was answered last.
* `HlsMuxer`: **HlsNoOrphan**, the HLS half of **EverySessionOwned**: an open upstream is
  the running session's, and the goroutines that stop it are there although leftovers of
  earlier sessions may stop it first. **HlsIdleCloses** and **HlsLostCloses** are part of
  **SessionsClose**.
* `Timeline`: **KeepsCameraTime** for the consumers in `straight`: HLS and MP4 keep the
  camera's time exactly, and the WebRTC durations are never ahead of it and lose less than
  one nanosecond per sample to the division. The exception matters: a
  frame that repeats a timestamp or goes back is lifted to the minimum duration, and the MP4
  base time runs ahead of the camera by that much for good (`mp4/muxer.go:412`).

## 5. Where the code does something else

Seven runs check what a comment or the changelog says and find it violated.

1. `rtsp_stop`. Producer.Stop waits in Client.Close with `Producer.mu` held; the
   packet callback waits for `Producer.mu`. The MP4 muxer was changed in 0.4.0 to avoid
   precisely this; the WebRTC producer still has it. `Stream.mu` is held above it, so
   no other viewer of that camera gets through either.
2. `mp4_stale`. The read loop of an ended session that is late to `Muxer.mu` stops
   the session that replaced it. `hls/muxer.go:291-293` is the same code.
3. `server_hide`. A request between muxerFor and ensureStarted reopens a muxer that
   Prune has just closed and dropped; a hidden camera keeps playing.
4. `reconciler_stale`. The window after the generation check, see section 4.
5. `reconciler_reexpose`. "Re-exposing a camera pushes a fresh ReportState"
   (`CHANGELOG.md:45`), but not when the RequestSync before it fails
   (`setupglue.go:104-107`); Google's copy stays stale until the camera's next flip.
6. `clients_skip`. Only StartupRequestSync persists a fingerprint. After a live RequestSync
   for another list, a list that has come back to the one on file by the next start is not
   synced, and Google keeps the other one.
7. `setup_wipe`. An answer of the Supervisor that breaks off before its first byte passes
   for empty options, and the save writes its own group and nothing else.

## 6. Proofs

The eight proof modules follow one scheme: an inductive invariant (`IInv`, `HlsInv`,
`TimelineInv`, ...), a lemma for the initial states, one lemma per action or group of
actions, a `Next` lemma that puts the disjuncts together, `Invariance`, and the theorems.
Each holds for every value of the constants under the module's named assumption;
`Streams` assumes finitely many sessions, because a reference count is a cardinality.
Every invariant that a passing run checks is a theorem, and so is every action property.
For the sums `MCRtsp` and `MCClients`, whose types are stated together, the invariants of
the summands hold together (`SumInvariance`, `ClientsInvariance`): a step of the sum is a
step of one summand and stutters in the others. The other two sums are for TLC only.

**StreamsProofs.** Besides the types and the stated properties the invariant has
`LockInv` (a request that is starting or stopping holds its stream's mutex, and
nobody else holds one), `CloseInv` (a Session that is marked closed is on its way
out, and one that is not was asked to close only while open) and `RunInv` (Start runs
only on an idle Stream, Stop only on one without holders, and the tracks of a
started Stream are those of its last run). Without `LockInv` a second starter could
change `runs` under a holder; without `CloseInv` a second closer could release again.
Adding or removing one holder changes the count by one by the cardinality facts of
FiniteSetTheorems. Theorems: `TypeCorrect`, `RefsCorrect`, `ViewersSeeLiveRun`,
`NoIdleUpstream`, and `RefinesSharedUpstream`, the safety part of the refinement: each
action maps to Join, Leave, Shut or a stutter.

**ReconcilerProofs.** `MutexInv`: a Refresh is past its beginning exactly while it holds
`refreshMu`. With it, `DiffIsAgainstCurrent` is inductive, because only the holder
changes the membership (a WebSocket event changes flags only). `ServersPruned` needs
`DirtyInv` (only a Refresh past its diff is about to notify): one that begins, fails or makes
its diff has no notice pending that it could forget. `FlipInv`: a camera flipped since the
sampled generation is one the Refresh knows, its flag in the snapshot is the present one,
and its flag in the result is kept, as long as it did not race. The second half adds
`HeldInv` (an edit holds states only between its snapshot and its report) and `PushInv`, which
follows a push through the Refresh, the flip or the edit that owes it, for the cameras
that neither raced nor are doubtful (`Sure`). `TellInv`: an exposed camera is as Google was
told or the one report on its way says; or an edit has yet to capture it, or a goroutine
holds its present state, or a Refresh will report it. `ListInv`: it was in the list Google
fetched, or somebody has asked or has yet to ask. Both are relative to the first half,
because only the holder of `refreshMu` may change the membership that the debts are about.
Theorems: `TypeCorrect`, `DiffsAgainstCurrent`, `PruneReachesServers`, `FlipsSurvive`,
`GoogleIsTold`, `ExposedAreSynced`.

**ServicesProofs.** Three invariants of three modules that share nothing. `SyncInv`
(`DeviceSync`): while nothing is in `since`, the persisted fingerprint is the list Google
has; and between the request of a start and the file, the list Google has is the one
computed, unless that had `moved` or a live sync has come in between. `TokenInv` (`HomeGraph`): the client reckons the end of the cached token at most one
timeout too late, a request under way has not passed its deadline, and a token that is
being sent is good until then; the step that matters is `UseCached`, where the margin has
to cover both timeouts, and `HomeGraphAssumption` says that it does. `SessionInv`
(`UnifiClient`): the second attempt of an undisturbed call goes through a login of the
present era, whose cookie stays in the jar until the request is sent. Theorems:
`SyncTypeCorrect`, `SkipIsSound`, `TokenTypeCorrect`, `SentTokensAreGood`,
`SessionTypeCorrect`, `RefusalsAreDisturbed`, and `TypeCorrect` of the sum.

**StreamServerProofs.** `RoutedInv`: a request on its way to a muxer will reach the
registered one, or one that was closed under it (`escaped`). Without it, the step that
starts a muxer could open an upstream that no Prune reaches. Theorems: `TypeCorrect`,
`RegisteredIsCurrent`, `ServedWithinReach`. `MuxersAreUsedAsPromised` adds that each muxer,
as the Server uses it, is a `MuxerLife`; it needs `WatchedIsOpen` (who watches does so
through a started muxer), which is what makes closing the registered muxer and
disconnecting its watchers one Stop.

**ApiProofs.** Four invariants; `AccessInv` and `ViewerInv` are inductive together, the others alone. `CodesInv`: a
request that has found a code holds it alone, and the code is out of the map for good.
`AccessInv`: view to URL to request under way to access token to refresh token, each with
its lifetime, and `ReadTimeout` between the token and the URL. `ViewerInv`: a
request that has been admitted since its camera was hidden does not exist. `BudgetInv`: the
failures a window still holds are all listed, and together with the handlers past the check,
each of which may add one, they stay within the budget plus all handlers; the bound alone is
not inductive, because a handler past the check carries a failure that is not counted yet. Every step of
OAuth is a step of `Api` that leaves the streams alone (`ApiRunsOAuth`), so what holds of
`OAuth` alone is not proved twice. The types need `AccessInv` and `ViewerInv`: what is served
was asked for with a URL, and a URL comes from a token, so its times are times that have
been. Theorems: `TypeCorrect`, `OneGrant`, `FailuresAreBounded`, `AccessIsBounded`,
`HiddenStaysHidden`, `ApiRunsOAuth`.

**RtspProofs.** *The producer.* `CallerInv`: Start and Stop alternate, `Producer.mu` is held
over a wait only by Stop, a run that is not installed yet has no loop, and one that was not
stopped is not cancelled. Without it the loop that installs its session over a newer one
could leave an orphan. *The HLS muxer.* `ContextInv`: what is cancelled is closed, and only
sessions that have begun are cancelled; with it a read loop or a watchdog that ends because
its context is cancelled leaves nothing open. *The timestamps.* `KeepsTime` holds for every
`Wrap`, every set of gaps and every number of access units. `DeltaIsGap` is the arithmetic: the signed difference of two timestamps modulo
`Wrap` is the gap of the camera's clock when that is less than half the range either way
(from `Remainder` and `RemainderUnique`, which is all that is used of `%`). `Truncation` and
`LagGrows` are that of the division: a sample of any length adds less than `Rate` to the lag,
in the unit in which a nanosecond is `Rate`. `ClockInv` and
`DemuxInv` carry it over a step: the last timestamp a consumer holds is that of a moment of
the camera's clock, modulo `Wrap`, and what the consumer has counted since its first is the
time between the two. `straight` is needed, since one clamped gap breaks the equation for
good. Theorems: `TypeCorrect`, `NoOrphans`, `LoopRuns`, `KeepsTime`, `HlsRefinesMuxerLife`.

**Mp4MuxerProofs.** `SessionInv`: only the running session's demux goroutine is not
cancelled, and the init segment is of that session. `RequestInv`: a request that is not
subscribed has received nothing. `WatchedInv`: a dropped subscriber's channel is closed, an
open upstream is watched by both of its goroutines, and what is cancelled is closed, so that
neither goroutine can end before the upstream does. Theorems: `TypeCorrect`,
`StopIsComplete`, `NoStragglers`, `RefinesMuxerLife`.

**The muxers and MuxerLife.** `StreamServer` reduces a muxer to one Boolean and a set of
watchers. `RefinesMuxerLife` and `HlsRefinesMuxerLife` show that the two real muxers keep
the promise behind that, with *open* read off the RTSP clients (some session's is not
closed) and *attached* off what a request sees (its channel is open; it is in the hands of
the segment muxer that runs), not off the fields that stopLocked resets. `UpIsStarted`
(`HlsUpIsStarted`) says that `started` tells the truth about the clients; it follows from
`WatchedInv` (`HlsNoOrphan`) and from the running session's client being open. Then
stopLocked, by the Server, a read loop or a watchdog of any session, is one Stop or a
stutter. TLC agrees on the instances of section 3.

**SetupProofs.** `AloneInv`: without an overlap one request at most has a copy of the options,
the copy is what is stored or empty, and the stored options are the last values but for the
groups `lost`. `LiveInv`: what the bridge goes by, or will once it has read its file, is
stored, or the handler that stored something else has yet to apply it. `ProbedInv`: every copy of the
credentials beyond the probe has passed one. `TypesInv` follows the values of each group from
the request through normalisation into the options and the live bridge. Theorems:
`TypeCorrect`, `SavesAreIsolated`, `LiveFollowsStored`, `OnlyProbedRefused`.

Only model-checked: all liveness (`Converges`, `CloseCompletes`, `SessionsClose`,
`IdleUpstreamCloses`, `DisconnectedRequestsEnd`, `SessionSettles`, the fairness part of
`SharedSpec`), because TLAPS does not reason about fairness and ENABLED. What these rest on
is proved: that whoever is to act is there (`StopIsComplete`, `NoOrphans`, `LoopRuns`).

## 7. Plan

Done: every module of section 2, and the theorems of section 6. Left:

1. An abstract specification of what Google knows, which `Reconciler` and `DeviceSync` would
   implement as the muxers implement `MuxerLife`.
2. The file of the stream secret, with crashes between its creation and its first use.

## 8. Not modelled

* Discovery: one UDP broadcast and a deadline, answers collected by one goroutine.
* The stream secret and the defaults of the configuration: read once, by one goroutine.
* Handlers that only read: status, validation of a form, the ingress filter, CORS, the
  parsing of paths.
* The byte level of H.264, fMP4, HLS playlists, JWT and JSON; SDP and ICE, which
  pion negotiates.
* The doorbell notification, which is sent once and forgotten.
* The test camera (`internal/rtsptest`), which belongs to the tests.
* Log levels but for their place in the saved options, and formatting everywhere.
