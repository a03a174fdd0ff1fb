# spotifyctl: TLA+ models, checks and proofs

spotifyctl is a Windows library, with a C API, bindings and a command-line
tool, that watches the Spotify desktop client.  Three kinds of threads tell it
what they see; it fuses that into one `PlaybackState`, publishes it and calls
whoever subscribed.  Most of what can go wrong is in the order in which those
threads, the application's calls and Spotify's own changes meet.  This directory
holds TLA+ models of those parts, the TLC instances that check them and proofs
checked by TLAPS.  Paths below are relative to the repository.

    tlc -workers 2 -config MCSignal.cfg MCSignal    # a run
    tlapm SignalProofs.tla                          # a proof

## 1. The system

    Windows media sessions       Spotify's audio session      Spotify's windows
      WinRT pool threads           polling worker thread       WinEvent hooks
             |                            |                          |
        SmtcSource                  AudioSession                Impl (Lifecycle)
             | ApplySmtc                  | ApplyAudio               | ApplyTitle, ResetFragments
             +----------------+-----------+--------------------------+
                              v
         fragments and smtcAnchor   (fragMu)        Impl::Aggregate
                              v
         latest and publishedAnchor (stateMu)  --->  LatestState, LatestPositionSmooth
                              v
         Signal<...> for each event (one mutex each)
                              v
         C API: handle, tokens (conMu)  --->  Python and Node.js classes,
                                              C callers, the command-line tool

| Component | State | Operations | What makes it correct | What is hard |
|---|---|---|---|---|
| Aggregator (`src/client_win32.cpp`) | fragments, anchor, published state and anchor | `ApplySmtc`, `ApplyAudio`, `ApplyTitle`, `ResetFragments`, `Aggregate`, `LatestState`, `LatestPositionSmooth`, position tick | the published state ends up the fusion of the fragments; state and anchor belong together; edges add up; subscribers are told what was published | two mutexes taken one after the other, and none while it emits: publications and notifications overtake each other |
| Position (`src/position.h`) | an anchor: position, time, playing | `ExtrapolatePosition`, `UpdateAnchor`, `SmoothPosition` | a report is honoured, small corrections do not make the counter jump | the default anchor, the clock read before the lock, the end of the track |
| Signal (`include/spotify/events.h`) | slots, next token, mutex | `connect`, `ConnectAndReplay`, `disconnect`, `clear`, `operator()` | who stays connected is called once, a replay comes first, calls return | slots that call back, the snapshot, the replay under the mutex |
| AudioSession (`src/audio_session.cpp`) | bound session, hysteresis, throttle | worker: resolve, measure, apply, notify, wait; `Start`, `Stop`, `SetVolume`, `SetMuted` | edges tell the state, silence is debounced, Stop is final and returns, the session is found | a process id that changes under the worker, sessions that Windows drops, failing COM calls, the lost wake-up |
| SmtcSource (`src/smtc_source.cpp`) | manager, session, registrations | `Setup`, `RebindSession`, `RefreshAll`, `Teardown` | subscribed to the bound session only, follows the session, quiet after Stop | handlers on pool threads that nothing serialises, calls that throw half-way, sessions that go while they are read |
| Lifecycle (`src/client_win32.cpp`) | tracked window, process, hooks | `Start`, `Stop`, `OnWindowEvent`, `OnNameEvent`, `SetWindow` (which hooks, reads and applies the title) | hook, tracked window and `OnOpened`/`OnClosed` agree; the current title is applied | events come late, about windows that have changed or are gone |
| C API (`src/c_api.cpp`) | tokens, handle, state holder | `on_*`, `*_with_replay`, `disconnect`, `free`, `latest_state`, JSON | a token disconnects its slot and no other; calls return | callbacks that call the API, two locks |
| Python and Node.js classes (`bindings/`) | callback shims, handle | subscribe, disconnect, close | a shim outlives its slot | the order of unregistering |
| Text (`src/title_parser.cpp`, `src/control.cpp`, `src/json_writer.h`) | none | `ParseWindowTitle`, `PercentEncode`, `AppendEscaped`, `WriteStateJson` | what is decoded is what was encoded | separators, control characters and signs of the encoding in the text itself |
| Command-line tool (`cli/main.cpp`) | arguments, place in the command, exit code, stdout | thirteen commands, each a client that is made, started, waited for, used and freed; two of them stream until Ctrl-C | exit codes tell what was delivered, streams end with the last state, every command ends | library threads write to the same stdout in several calls each, settings race the first resolve, nobody pumps messages |

The hazards of each part, with their lines, are listed in `PROJECT.json`.

## 2. The modules

| Module | Models | How it corresponds to the code |
|---|---|---|
| `Playback` | `PlaybackState`, the fragments, `FuseFragments`, the outcomes of `ParseWindowTitle` | text is a member of a small set; volume, loudness and flags stay |
| `Position` | `position.h` | the three functions as operators; time in units, `SnapThreshold` a constant |
| `Aggregator` | the aggregator and its threads | one action per critical section and one per callback: `StoreSmtc`, `ApplyAudio`, `ApplyTitle`, `ResetFragments` store under fragMu; `Fuse` copies under fragMu; `Publish` or `SkipPublish` under stateMu; `EmitEdge`, `EmitState` under no lock; `MaybeFirePositionTick`, `EmitPosition`.  What a thread carries between them (`call`, `out`, `anchor`, `owed`, `tick`) are the locals of `Aggregate` |
| `ChangeFeed` | what the notifications promise, abstractly | a publisher changes the state and owes the notifications of that change, which it delivers one by one in an order fixed only for itself |
| `Signal` | one `Signal` under a publisher's state | `LockAndPush`, `Replay`, `EndReplay` for `ConnectAndReplay`; `TakeSnapshot`, `Invoke`, `CallbackReturns` for `operator()`; a slot may disconnect slots while it is emitted to and while it is replayed to |
| `AudioSession` | the worker and its owner | the loop cut where it unlocks or waits, and where another thread can see it: `BeginPoll`, `Release`/`KeepSession`/`Resolve`/`ResolveFails`, `MeasureSession` and the other three measurements (no session, reads that fail, a session that Windows has dropped), `Apply`, `NotifyAudible`, `CountTick`, `Sleep`, `TimeOut`; `BeginStop`, `Notify`, `Join` are `Stop` |
| `SmtcSource` | handlers, owner and Windows | one action per access to what another thread may change and per call to Windows; events are raised per registration and delivered to any idle pool thread, whatever the others are at; the search, each read (`ReadProps`, `ReadInfo`, `ReadTimeline`), a registration and `Setup` may throw.  `mishap` and `report.late` are history: two rebinds have overlapped (or one has thrown), and a report was overtaken |
| `Lifecycle` | the thread that calls Start and Stop and pumps messages | `SetWindow` is `StoreWindow`, `StillOpen`, `HookTitle`, `ReadTitle`, `ApplyTitle`, `Unhook`; Spotify opens, renames and destroys windows between any two |
| `CApi` | handle, tokens, signals' mutexes, shims | `BeginConnect`, `Connect`, `ConnectAndReplay`, `EndReplay`, `Reserve`, `Store`; `BeginDisconnect`, `Remove`, `Disconnect`, `Pop`; `Free`, `FreeDisconnects`, `FreeEnds`.  Calls come from application threads, from emitted slots and from replayed ones, with any signal and any token ever given |
| `Text` | the pure functions on text | a text is a sequence of bytes; the readers of the encodings (`PercentDecode`, `Unescape`) are the references the writers are checked against |
| `Cli` | one invocation of the tool, with the library under it | `place` is the line of `main` and of the command's function: `Refuse`, `New`, `Seed` and `StartSources` for `spotifyctl_start`, `Detected`/`Sleeps`/`GivesUp` for `WaitForSpotify`, one action per request (`AskSession`, `PostKey`, `Seek`, `Volume`, `Mute`, `Open`), `BeginStop`/`Notify`/`Join`/`Teardown` for `spotifyctl_free`.  The worker is that of `AudioSession`, a second library thread handles media events; both publish, and their callbacks are cut where they ask for the state and at every call on stdout (`EmitSize`, `EmitCopy`, `EmitWrite`, `EmitNewline`): a `track_changed` object is five calls, every other object two.  `Cut` is the buffer the window's title is read into |
| `MC*` | instances for TLC | values of constants that a configuration cannot write |
| `*Proofs` | theorems | each EXTENDS the module it is about |

`Aggregator` EXTENDS `Playback` and `Position` and instantiates `ChangeFeed` as
`Feed`: `current` is `latest`, and `owed` is, for every thread, the signals it
has not emitted, each with the state it is about to hand over
(`owed[t] \X {out[t]}`).  A publication maps to `Publish`, an emission to
`Notify`, everything else to a stutter.  `ChangeFeed` says which guarantees the
notifications give (each is delivered once, by who published; edges of
advertisements add up) and which they do not (that they arrive in the order of
publication).

`Cli` EXTENDS `Text`, which EXTENDS `Playback`, and instantiates `AudioSession`
as `Audio` over its own variables of the same names: `Audio!WorkerStep` is a step
of the tool's worker, `Audio!Start` and `Audio!BeginStop` are part of its
`StartSources` and `BeginStop`.  Storing a fragment, fusing and publishing are one
step there; `Aggregator` has that in detail.

Definitions that a comment calls a mutant are wrong on purpose: they are
variants of the action they follow, with a bug one could make there, and the
property named with them in `PROJECT.json` must fail when they replace it.

## 3. The runs

| Run (`.cfg`) | Instance | What it shows |
|---|---|---|
| `MCAggregator` | two SMTC threads, worker, window thread; reports Playing, Paused, partial, none; two titles; two samples; two changes of the environment, two clock ticks | types; a state that does not play has its own position as smooth position; no position counts from boot; edges of advertisements add up; a report is honoured within the snap threshold |
| `MCAggregatorLive` | the same threads, clock at rest | when the environment is quiet the published state becomes and stays the fusion; the notifications implement `ChangeFeed` |
| `MCSignal` | two publishers, two clients, two tokens, two publications; slots disconnect slots, the one that is replayed to included | replay first; who stays connected during an emission is called exactly once; every call returns, and who holds the mutex runs, unless a client has blocked itself (`BlocksItself`) |
| `MCAudioSession` | two processes with different settings, three low polls for silence, two changes: a process, a session that comes or expires, a resolve or a read that fails; Spotify may be playing before Start | the audible edge tells the state, silence is debounced, Stop is final and returns, the worker it joins has been woken, a session that stays is reported unless an expired one of the same process is bound |
| `MCSmtcSource` | two sessions one after another, two pool threads beside the owner, two changes; the search and every read may throw | subscribed to the bound session and nothing else; no change lost whenever it has handled every event (`NothingLost`); ends up reporting the session that exists (`FollowsSession`) |
| `MCLifecycle` | three windows of two processes, four changes | hook, tracked window and OnOpened/OnClosed agree; once every event is delivered the tracked window's title is the one applied (`TitleNotLost`), and a title that stays is applied |
| `MCCApi` | two application threads, one library thread, two signals, three registrations per handle | tokens and slots match one to one, also when two threads give back one token; a shim outlives its slot, except while the first of two disconnects is removing the slot; unless a thread waits for itself, calls return and who holds a mutex somebody waits for does not wait (`HoldersRun`) |
| `MCCli` | 35 command lines (17 refused, 2 refused late, 14 one-shot commands, `watch`, `events --position`), Spotify present or not, one change of it, two titles of which one is too long for its buffer, one report | a failed command changed nothing and a successful one made its request once; the last state or track published was written to its last byte; commands end; a search finds its query; what JSON says of the track, decoded, is what the media session reports and, for what that leaves out, what the window's title says |

### Where the code and its documents differ

Each of these runs ends in a counterexample.

| Run | Document | What the code does |
|---|---|---|
| `MCSignalReplay` | README and `c_api.h`: with replay "no value is dropped" | `LatestState()` is the argument and is read before the lock |
| `MCSmtcStop` | `c_api.h`: no callbacks after `spotifyctl_stop` | `Teardown` does not wait for a handler that is running, which then applies its report (and uses a deleted source) |
| `MCLifecycleClosed` | README: OnClosed when the window goes away | the event is delivered out of context; if the window is destroyed by then, `IsWindow` fails and the event is ignored |
| `MCCliAds` | docs/cli.md: `events` prints `{"type":"ad_started"}` | advertisements are told by the window title only, title events are delivered to a thread that pumps messages, and the tool sleeps: no title is read after Start |

Other observations have no run of their own:

- README.md:103-109 says that push and pull "return the same `PlaybackState`".
  `PushEqualsPull` of `Aggregator`, as an INVARIANT of
  `MCAggregatorLive`, is violated: states are emitted after `stateMu` is released,
  two threads may do so in the opposite order, and the last state pushed stays
  older than `LatestState()` until something changes.
- CHANGELOG 0.3.0 excludes snapping back on unrelated updates.
  `NoJumpOnUnrelatedUpdate` is violated with `SmtcReports <- MCStall` and three
  changes in `MCAggregator.cfg`: an SMTC update that changes nothing moves
  `smtcAnchor` but not `publishedAnchor`; the next update of the volume publishes
  it.
- docs/cli.md promises one object per line.  `OneObjectPerLine` of `Cli`, as an
  INVARIANT of `MCCli`, is violated: an object and its line feed are two calls on
  stdout, and the worker and a handler may be in their callbacks at once.  The
  object of `track_changed` is written by five calls, and `Unspliced` is violated
  by `events --position`: the line of another thread may end in the middle of it.
  For the same reason the last line may be the older of two states (each is read
  before it is written), and an object is cut when it grows between the two calls;
  `WatchShowsLatest` says what remains true.
- `watch` and `events` read no title after Start and `--wait-ms` never notices a
  window that opens later, all for want of a message pump.  A state published
  between the baseline and the connection of `watch` is not printed either.
- Exit code 0 of a transport or of `seek` means that Windows accepted the request
  (`lost` in `Cli`): the asynchronous answer is not looked at.
- `volume set` and `mute` exit with 4 unless the worker has bound a session in the
  few milliseconds since Start; `mute toggle` takes a session that is not bound for
  an unmuted one.  `volume get` prints "unresolved" where docs/cli.md says -1.
  `volume up` and `down` post media keys, which move the master volume.
- A relative `seek` counts from the position last reported, not from the position
  now.  `seek nan` and a number of minutes that overflows reach undefined
  conversions; `Times` leaves them out.
- docs/cli.md calls the default of `watch` human-readable; it is JSON.  Its example
  compares `.status` with "PLAYING", the writer says "playing".
- A tab in a title splits a field of `now-playing --tsv`, and a title of more than
  254 characters is cut before it is parsed.
- `c_api.h` says that in a callback any API call but `free` and `stop` is safe.
  `EveryCallReturns`, as a PROPERTY of `MCCApi`, is violated: a slot that is
  replayed to runs under its signal's mutex, and waits for itself when it connects
  to that signal or disconnects from it.  Every later emission of the signal waits
  behind it, too.  `HoldersRun` and `CallsReturn` name this case (`BlocksItself`)
  and exclude every other.
- The comment on `_callbacks` of the Python class says that a shim lives as long as
  the C side holds its pointer.  When two threads disconnect one token, which
  `c_api.h` allows, the second finds nothing to remove and lets the shim go while
  the first has not reached the slot yet (`Leaving`); and an emission under way may
  have a copy of a slot whose disconnect has returned.
- Nothing serialises the handlers of `SmtcSource`, nor `Setup` against them.
  `AlwaysSubscribed`, as an INVARIANT of `MCSmtcSource` without its CONSTRAINT, is
  violated: of two `RebindSession` that overlap, one may revoke nothing and the other
  register, and a registration is left with a session that was given up, or the bound
  session has none or two.  The same follows when a registration throws half-way.
  And of two reports that overlap, the older may be handed over last (`late`); it
  stays until the next event.
- The search for the session and the three reads swallow whatever is thrown.  A
  source whose search threw lets go of a session that is there, one whose read threw
  shows defaults for that part, in both cases until the next event.
- When `Setup` throws after the manager's handlers are registered, `running` is false
  again and `Stop` skips `Teardown`: the handlers stay registered and go on calling
  a source that calls itself disabled (`SetupFails`).
- `ReportsBoundProcess` of `AudioSession` does not hold: until the new process
  makes a sound, the session of the previous one stays bound and is reported.
- `c_api.h` says that the audio session is rebound when Spotify produces audio.  A
  session of another process is; one the *same* process makes after Windows has
  dropped the bound one is never looked for, because the process is the one that is
  bound.  `EverySessionReported`, as a PROPERTY of `MCAudioSession`, is violated.
- The default anchor after `ApplySmtc({})` is valid: a title that says Playing
  makes position ticks run without a media session.
- A track change whose position differs by less than the threshold keeps the
  anchor of the track before (`ReportHonoured` allows for it: the error is below
  the threshold).
- Start's documentation speaks of a "WinEvent dispatcher thread" (README,
  threading); the hooks are out of context and run on the thread that called
  Start, if it pumps messages.

### Bounds, and why they are enough

Every bound is a named constant.  `MaxChanges` limits how often the environment
changes, never what the code does: after the last change the code goes on as
long as it likes, which is what the liveness properties are about.  Two SMTC
threads beside worker and window thread give every overtaking of two
publications and a third; two changes give an old value, a new one, and one back
again.  Two tokens let a slot stay while another comes and goes, and three polls
are the smallest debounce with a first, a middle and a last poll.  Two changes are
enough for an audio session that expires and one that follows, for a session of
another process, and for a failure in between; two pool threads and the owner
put any two handlers into any two places of `RebindSession` and `RefreshAll`.  Two
processes and three windows give a window replaced within a process, another
process, and a late event about each.  Three tokens per handle and two signals give equal
core tokens under different API tokens.  Clocks only count differences; a few
units on both sides of `SnapThreshold` tell its branches apart.  The command-line
tool runs once against one process: the worker binds and loses its session, the
handler publishes once more, so that two threads are in a callback together; one
sleep of the wait is as good as sixty.  The title has a quote, a backslash, a tab, a
line feed, a control character and a byte above 127 in its names and a blank around
them, and is longer than the buffer, the report leaves the artist to the title, the
query has a blank, a percent sign and two digits.  `Symmetry` is
used for the SMTC threads, in a run with no liveness property.

Three configurations have a CONSTRAINT, which prunes states a property says nothing
of.  `Orderly` (`MCSmtcSource`) ends a behaviour at a mishap, of which every property
of the run makes an exception, and leaves what a source does while or after it is
stopped to `MCSmtcStop`, but for the handlers that have only begun and find it gone; `Faultless` there looks for the counterexample among the
runs in which no rebind has failed.  `Answers` (`MCCli`, `MCCliAds`) lets an audio
session that has been dropped answer as it did before or not at all; `MCAudioSession`
has every answer.

`CHECK_DEADLOCK FALSE` is given where the instance may come to rest: a stopped
source on a quiet system, a signal whose tokens are used up in `MCSignalReplay`, a
tool that has ended; and in `MCSignal` and `MCCApi`, where a thread that blocks itself
may bring all the others to a stop, which the code does as well.  All other runs check
for deadlock.

### Fairness, and why it is justified

- Aggregator: weak fairness of each thread inside a call, since critical sections
  are short and callbacks return; strong fairness of `ApplyAudio`, since the
  worker polls until Stop joins it.  The environment is never forced to act.
- Signal: weak fairness of each thread inside a call.  A wait for the mutex is a
  guard; whoever holds it is itself scheduled and waits for no other thread
  (`HolderRuns`, which is proved).
- AudioSession: the worker, `Notify` and `Join` are scheduled.  That waits time
  out and clocks advance (`Timely`) is a premise of `SessionReported` alone, so
  `StopReturns` holds without the help of the time-out.
- SmtcSource: calls go on, and an event that was raised is delivered.
- Lifecycle: the thread handles its messages, and a window whose destruction was
  announced is destroyed.
- Cli: main and the worker are scheduled, so sleeps end and writes return.  Nothing
  is assumed of Spotify, of its media session or of the user who presses Ctrl-C,
  nor that a wait of the worker times out before it is notified.
- CApi: calls go on; strong fairness of the return of a callback, which may call
  the API any number of times but returns in the end.

### Assumptions

- Mutexes exclude, and memory they protect is seen as last written.  Access to
  the `session` pointer of `SmtcSource`, which the code does not synchronise, is
  indivisible in the model; it is a data race in the code.
- An event that was raised before its hook or registration was removed may still
  be delivered.
- The application has finitely many threads.
- The application makes no call with a handle while it frees it or afterwards; the
  callbacks have ended by then, since Python's `close` calls stop first (but see
  `MCSmtcStop`).
- A slot does not call Start or Stop (`c_api.h` forbids Stop), and Start and Stop
  are called by one thread.
- In `Cli`, media events are handled one at a time, and a state is published in the
  step that changes its fragment; one call on stdout is indivisible (the C library
  locks it), two of them are not.
- A callback uses tokens that were given before; in `Signal`, ones that are still
  held, in `CApi`, any.

## 4. The proofs

Each holds for every value of the constants that satisfies the named assumption
of the module, so for any number of threads, clients, windows, processes,
reports and thresholds.

| Module | Theorems | The argument |
|---|---|---|
| `ChangeFeedProofs` | `FeedAdEdges`, `SolePublisherInOrder` | a publisher owes one state at a time; the balance is a difference of cardinalities of those who owe |
| `AggregatorProofs` | of `Position`: `ExtrapolateMonotone`, `UpdateAnchorHonoursReport`, `SteadyReportNoStep` | arithmetic, by cases of the snap |
| `AggregatorProofs` | `TypeCorrect`, `Inductive`, `PausedPositionIsRaw`, `NoPhantomUptime`, `ReportsHonoured`, `ImplementsFeed`, `AdEdgesAddUp` | see below |
| `SignalProofs` | `SignalInductive`, `SignalTypeCorrect`, `ReplayIsFirst`, `DeliveryIsStable`, `HolderWaitsForNobody` | see below |
| `AudioSessionProofs` | `AudioInductive`, `AudioTypeCorrect`, `AudibleEdges`, `StoppedForGood`, `WakeUpNotLost`, `SilenceDebounced` | the code's count of low polls equals a reference count as long as it matters; a notification that is owed is the difference between state and subscriber; `running` is cleared before the worker is notified (`Awake`) |
| `LifecycleProofs` | `LifecycleInductive`, `LifecycleTypeCorrect`, `TrackedWindowConsistent`, `TitleIsNotLost` | `Progress` says for each place inside `SetWindow` what is stored, hooked and told already; see below for the titles |
| `CApiProofs` | `CApiInductive`, `CApiTypeCorrect`, `TokensDisconnectTheirs`, `ShimsOutliveSlots`, `HoldersNeverWait` | see below |
| `SmtcSourceProofs` | `SmtcTypeCorrect`, `SubscribedThroughout`, `NoChangeLost` | see below |
| `CliProofs` | `CliTypeCorrect`, `LastStateShown`, `SearchFound`, `ExitCodesTell`, `NowPlayingShown` | see below |

*Aggregator.*  `SmoothIsRawUnlessPlaying` and `NoUptimeShown` speak of the
published pair, which comes from a thread's copies, which come from the
fragments.  None is inductive alone.  `IInv` adds that the pair is coherent at
all three places (`PairsCoherent`), that every anchor lies between the boot
clock and now and every position in range (`PositionsInRange`), and that only a
thread that emits owes anything (`OnlyEmittersOwe`).  The last is also what the
refinement needs: a thread that publishes has nothing left to deliver, so its
debt in `ChangeFeed` is exactly the new one.  `AdEdgesAddUp` then counts, over
any finite set of threads, who owes a start and who an end.

*Signal.*  `StableDelivery` compares what a slot has heard with an emission that
is under way.  `IInv` says who holds the mutex and where it is (`MutexHeld`),
that a slot that is being replayed to is out of reach (`NewSlotHidden`), that
tokens not yet given have heard nothing (`FreshTokens`), that payloads of two
publishers differ (`PayloadsDistinct`), that what was heard was published
(`EmittedWasPublished`), and that a publisher has invoked a slot that stays
exactly when it has crossed it off (`CrossedOff`).  `HolderWaitsForNobody`
says where the holder of the mutex is: inside its `ConnectAndReplay`, on its way
through the replay or, if the slot disconnects one meanwhile, waiting for itself.  It
never waits for another thread, so there is no cycle of several.

*Lifecycle.*  `TitleNotLost` speaks of a thread with nothing left to deliver.  Its
strengthening, `TitleKept`, says at every other moment why the current title of the
tracked window is not lost: it has been applied, or an event about it is in the queue
(`Announced`), or the thread is at a place from which it still reads the title, or
it has just read it and is about to apply it (`Applied`).  The title hook is
installed before the first read, so a change raises an event or comes before the
read; an event in the queue stays there until it is handled (`NamesAfter`), and
handling one reads the title again.

*CApi.*  `TokensMatchSlots` says of every connected slot that it can still be
disconnected.  For a step to keep that, `Inv` has to know how: its token is in
`conns`, or its `on_*` has not stored it yet, or `removeConn` has moved it out
(`Served`, `HasWay`).  Nothing else may reach it, so slots and tokens differ
(`TokensDiffer`, `Registers`), those that are spent never come again
(`NeverAgain`, by the counters of the signals and of the handle), and a token that
is given back is not held any more (`Undoes`).  Any number of threads may give it
back: what it disconnects is moved out of `conns` once.  Callbacks that call the API are
the reason for `CallsNest`: from within a replay there is a slot that has no token
yet and a disconnect under way, on one thread.  `ShimsOutliveSlots` follows from
`HasWay`: a shim is let go after its own call has removed the slot, or found that
another call has taken it, and of that call it is the one slot left (`Leaving`).

`HoldersNeverWait` is the freedom from deadlock of two locks that are taken in both
orders: `spotifyctl_free` holds `conMu` and takes the signals' mutexes, a replayed
callback holds its signal's and takes `conMu`.  `Locks` says why nobody waits for a
thread that waits.  Between two steps `conMu` is held by who frees, and then by
`Inv` no call is under way; a signal's mutex is held by a replay alone, and of
the calls a replay makes, `storeConn` and `removeConn` wait for nobody, and a
connection or disconnection waits only if it is of the replaying signal, whose mutex
its own thread holds (`BlocksItself`).

*SmtcSource.*  A change of Spotify's session is seen twice, by the event that tells
of it and by whoever reads the session next, and several reads make one refresh.
`NothingLost` says that nothing falls between: a source at rest, with no event under
way, is bound to the session there is and has handed over what it contains.  The
inductive invariant says, while the source serves, what each place of a refresh
may still not know, and that an event makes up for it: the session found is
Spotify's, or a change of the list is due (`SessionKnown`); what has been read so
far is what the session has, or is the default (`Fits`), or another refresh is due
or under way that fits (`Promised`), or the report has been overtaken
(`ReportsKnown`).  Between
`assign` and `subscribe`, and nowhere else, the bound session has no registration
(`Subscribed`); a session that changes there is read after `subscribe`.  An event
that finds the source stopping is of no use any more, so all of this ends when Stop
begins.  Handlers overlap as they like; what the invariant cannot keep is lost in two
ways, and both are recorded where they happen: two rebinds that overlap, or one that
throws half-way (`mishap`), and a report handed over after a later one (`late`).
Until the first, one thread at a time is between finding and subscribing
(`OneRebinds`).  The types (`SmtcTypeCorrect`) hold in any case.

*Cli.*  `ExitTellsDelivery` is kept by two invariants
around the request: before main stops, it has asked for nothing (`NothingYet`);
from then on its exit code is its verdict (`Verdict`).  The arguments of a command
that got that far are right (`RightArguments`), so a seek goes to a position that
is not negative, whatever the tokens stand for (`TargetInRange`).

`CliTypeCorrect` rests on `AudioInductive`: the audio session of the tool is an
instance of `AudioSession`, and each step of the tool is a step of that module,
leaves its variables alone (`AudioNext`) or changes only what surrounds the worker,
the process, its streams and its settings (`AudioEnvironment`), so its invariant is
the tool's.  What is
new are the connections (`ConnectInv`: they are a beginning of what the command
wants, since they are undone in the opposite order) and the notifications under way
(`EmitInv`: each has something left to say, and a call left on stdout exactly while it
writes).  Where the worker runs at each `place` of main is `WorkerInv`: it ends only
at the head of its loop, outside of its callbacks (`EndedSilent`).

`LastStateShown` is about threads that overtake one another: each asks for the
latest state itself, twice, and may cut the object or write an older one last.
`StaleInv` says why the last one is still written: whatever is stale is owed by some
thread, which is about to ask for the state, or whose answer is the state as it is
now, with the size it has now; or which has the current track to write (`Owes`).
A publication makes the publisher owe it; a step of a callback passes the debt on or
pays it with the last of its calls on stdout; and nobody who owes is idle.

`SearchFound` is about the encoding, for a query of any bytes.  `DecodeEncode` says
that `PercentDecode` gives back what `PercentEncode` was given.  Both are recursive
over the text, so its lemmas first say where in the whole the code of each byte lies
(`FlattenLayout`), then that the decoder, started where the code of a byte begins,
reads the rest of the query; the least place where it would not is the
contradiction (`Least`, from the well-foundedness of the natural numbers).  The same
argument shows that the recursive functions exist at all (`FlatExists`,
`DecodingExists`, `SortingExists`).  In the tool, the one request of `search` is the
encoding of its query (`SearchInv`), whose words are tokens of the command line
(`PositionalTokens`).

`NowPlayingShown` follows a name from the title of the window, or from a report,
through the fusion and the writer of JSON to its reader.  At the one end,
`UnescapeEscape` says that `Unescape` gives back whatever bytes `AppendEscaped` was
given: `Unescape` is a recursive function over positions, which exists by the same
kind of argument (`UnescapingExists`); the code of each byte is one of three shapes
(`EscapeShape`), and the reader, started where the code of a byte begins, reads the
rest (`ReadsAll`).  At the other, `TitleTells` says where `ParseWindowTitle` divides
a title, by positions of the title itself: at the first separator that has something
other than blanks before it, if something other than blanks follows, and the names
are what is left of both sides without the blanks around them.  `NowInv` holds the
two together: the title is parsed once, before anything is shown (`TitleInv`,
`UnshownInv`), and what is written or about to be written has the names of one report
and of that title (`WritesInv`, `PrintedInv`).

The invariants of `SmtcSource` and `Lifecycle` and `StaleInv` of `Cli` were checked as
INVARIANTs of their runs before they were proved.

*What is only model-checked.*  All liveness: `LatestConverges`, the fairness of
`FeedSpec`, `CallsReturn`, `StopReturns`, `SessionReported`, `FollowsSession`,
`TitleFollows`, `Terminates`; fairness and ENABLED are beyond the prover.  What can
be said of them without fairness is proved: that a wake-up or a title is not lost
(`WokenUp`, `TitleNotLost`), that no holder of a mutex waits for
another thread (`HolderRuns`, `HoldersRun`), that a source at rest has lost no change
(`NothingLost`).  Every invariant
and action property of the runs that pass has a theorem.

## 5. Not modelled

- The Node.js class: it unregisters a shim before the C side lets the slot go, in
  `disconnect` and `close`, so `SlotsHaveShims` does not hold of it (that order is
  the mutant `PopFirst` of `CApi`); conversions of values are one to one.
- The copies of slots an emission under way has, as far as the shims of the bindings
  are concerned: `SlotsHaveShims` is about the slots of a signal.
- The holder behind `spotifyctl_latest_state`: its pointers are valid until the
  next call on any thread, which the header says; the tool calls it on one thread.
- What a client keeps from one Start to the next (fragments, published state): no
  document says what a restarted client shows.
- `SendKey` and the URI builders that prepend a fixed prefix.
- COM apartments, thumbnails, string conversion, examples, tests, build files.

## 6. What could follow

1. A composition of Lifecycle, AudioSession and Aggregator over two Starts, once it
   is decided what a restarted client shows: which fragments survive, and whether
   an audible edge may be told twice.
2. The holder of `spotifyctl_latest_state` with several application threads.
3. The Node.js class beside the Python one, with the values it converts.
