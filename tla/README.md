# PulseScope in TLA+

PulseScope is one process that owns one software defined radio and serves many
consumers of it: a scanner, scheduled jobs, recordings, decoders, listeners and
operators on a web API. This directory models the parts of
`src/src-tauri/src` in which those consumers meet and the decoders that read
what the radio delivers, checks the models with TLC on small instances and
proves, with TLAPS, what matters most of the receiver's core and of the
services around it for every instance. Paths below are relative to `src/src-tauri/src/`.

## 1. Inventory

| part | state | operations | what is hard | correct when |
|---|---|---|---|---|
| receiver lease (`state.rs` `ReceiverSession`) | owner, forced takeovers, saturating revision, behind one mutex | claim (also by force), release | everybody claims and releases under names; scan start and the supervisor share the name `scanner` | an owner loses the lease by its own release or by force only; a revision identifies a lease |
| receiver flow (`state.rs` `ensure_receiver_flow`, supervisor, job executor; `api.rs` scan, device and profile handlers; `main.rs`) | scanner slot, scanner tasks and their command channels, connection, samples, job rows, completion timers | start, stop, retune, replace the scanner; probe and reconnect the device; run a due job | each handler is several critical sections; four kinds of actor interleave; aborts do not wait | no scanner out of hand; jobs are exclusive and give the receiver back; a dead flow comes back |
| v2 commands (`api.rs` 1009-1202, 1862-1902; `AppState.command_results`) | a map from command ids to answers, at most 1024 | session, tune, select commands with a revision and an id | retries overlap; eviction is arbitrary | a retried command is answered, not applied again |
| scanner task (`scanner.rs` `scanner_loop`, its handlers in `api.rs`) | bank and cycle, capture window, VFOs, hold and dwell timers, candidate, copy of the blacklist, command channel | commands; per frame: hit, measure, decide, move | handlers write lock and device directly while other requests are queued; decisions are applied after the mutex is let go; signals that never end | the sweep leaves no gap, holds a signal and lets it go; VFO ids name one slot; a skipped channel stays quiet |
| banks and manual retunes (`config.rs`, `api.rs` `follow_manual_retune`) | the list of banks in memory and on disk, the active bank, queued `FollowRetune` | retune, cycle, edit, restart | radio, bank, configuration and queue are read and written at different times | the bank follows the radio and feeds the right decoders; edits survive restarts |
| device layer and capture (`device.rs`, `capture.rs`) | open radio, network source, last key, status, IQ rings, capture thread | connect, disconnect, recover, tune, play back, read | recovery crosses the walk of requests over several locks; a connect takes scanner and capture thread down first | the radio streams again; a flush leaves at most one stale chunk |
| network IQ (`network_iq.rs`, `capture.rs`) | sockets, bytes pending, a queue and its counters | receive, parse, reconnect, read | partial reads, lost and repeated packets | samples keep their I and Q and their order |
| recording, recording jobs (`state.rs`, `api.rs`) | the recording, its file and sidecar, job rows | start, stop, write, complete | check and use under different locks; failing writes; crash | a sidecar tells of its file |
| sidecar registry, decoder scheduler (`sidecar.rs`, `decoder_scheduler.rs`) | child processes, pipes, recipes, restart counters | start, stop, supervise, feed | exits and restarts race with stops and starts; a client that goes away cuts its start off | no process without an owner, and none but such a start's without a supervisor; one restart budget for all supervisors |
| decoder installation, configuration file (`depmanager.rs`, `config.rs`, `api.rs`) | configuration in memory and on disk, program files | install, settings, bootstrap | several copies of the configuration in flight; crash while extracting | settings are not undone; configured programs are whole |
| trunking (`trunking.rs`, `api.rs`) | voice table, switch, watch list, followed calls | observe, filter, follow, log | what is read one by one changes in between | only what was let through is followed |
| native decoders (`ais.rs`, `aprs.rs`, `aviation.rs`, `adsb.rs`, `pocsag.rs`, `lora.rs`, `ble.rs`, `radiosonde.rs`, `goes.rs`) | bit clocks, frames, buffers kept between chunks | push, emit | chunks cut anywhere; errors near flags | what is published was sent; what came whole is published |
| windows of the decoders (`scanner.rs` `NativeRangeDecoders`) | IQ and audio windows | collect, cut, clear | a burst across a cut | heard, and a packet once |
| text decoders (`demod.rs`) | none from window to window | decode a window | spacing, repetition, first bits | the text that was sent |
| signal identification, automatic decoding (`signal_id.rs`, `arrl_bandplan.rs`, `auto_decode.rs`) | none | classify a hit, try decoders | thresholds and bandwidths have to fit each other | a signal on its allocation is identified and decoded |
| audio (`audio.rs`) | channel count, pending samples, ring, queue | push, cut, clear | two locks | frames aligned, samples in order |
| listener sessions, WebRTC, transcription, voice and image decoders, manifests, database, user interface, deployment | - | - | - | not modelled, see section 7 |

The parts interact through `AppState`: mutexes (`receiver_session`, `scanner`,
`command_results`, `playback`, `recording`, `config`), channels (the scanner's
64 commands, broadcast of spectra, audio and decodes), rings (IQ to scanner and
audio worker) and the database. `PROJECT.json` lists each part with its status,
and the hazards with their lines.

## 2. Modules

| module | models | extends |
|---|---|---|
| `ReceiverSession` | the lease: `Claim`, `Grants`, `Release` | - |
| `ReceiverFlow` | who runs the receiver | `ReceiverSession` |
| `TunerOwnership` | abstract: what scan jobs are promised | - |
| `CommandLedger` | v2 commands with retries | `ReceiverSession` |
| `ScanWindow` | the arithmetic of the scanner: window steps, banks, rasters, blacklist and DC tests | - |
| `ScanWalk` | the walk of the window over one silent bank | `ScanWindow` |
| `ScannerSweep` | the scanner task and the requests that steer it | `ScanWindow` |
| `IqRing` | rings, the network queue, PSIQ packets (operators) | - |
| `DeviceLayer` | connection, retune, playback, capture thread | `IqRing` |
| `SidecarRegistry` | external decoder processes and their supervisors | - |
| `Selection` | the elements a `retain` or `filter` keeps, by their places, so that it can be reasoned about | - |
| `BandPlan`, `BandFollow` | the table of banks and its rules; the bank that follows the radio | `Selection`, `BandPlan` |
| `NativeWindows` | windows of samples and the bursts in them | `Selection` |
| `IqFeed` | samples over UDP, TCP and rings | `IqRing` |
| `Recordings`, `Trunking`, `DecoderInstall`, `AudioFanout` | one service each | - |
| `Services` | the seven services above as machines side by side | instances of them |
| `BitFraming`, `Pagers`, `Squitters`, `Beacons`, `Telegraphs`, `AisReports`, `LoraFrames`, `ControlChannel`, `SignalId` | the decoders, each with the transmitter that is its reference | each other |
| `DecoderLinks` | transmitter, air and decoder | the nine above |
| `*_proofs` (8) | the theorems | their module, `TLAPS` |
| `MC*` | symmetry, instances and traffic for TLC | their module |

### ReceiverFlow

One action is one critical section or one device call of one actor, and `pc`
says where the actor is between two of them; `held` is the scanner handle it
cloned out of the slot before an `await`.

| code | actions |
|---|---|
| `ensure_receiver_flow` (state.rs 114-227), by `main`, the supervisor and a reconnecting request | `FlowCheck`, `FlowClaim`, `FlowTune`, `FlowRelease`, `FlowSlot`, `FlowSend`, `FlowSpawn` |
| `start_hardware_supervisor` (252-324) and `receiver_needs_recovery` | `ProbeConnects`, `ProbeFails`, `HotplugStop`, `Recover`, `NoRecovery`, `NeedsRecovery` |
| `run_due_jobs` (326-525), scan jobs | `JobReject`, `JobStop`, `JobYield`, `JobClaim`, `JobTune`, `JobStart`, `JobAbandon`; the spawned completion task: `JobExpire`, `JobComplete` |
| `scan_start`, `scan_stop` | `ScanClaim` ... `ScanFirst`, `Cancel`, `ScanStop`, `StopSend`, `StopRelease` |
| `device_connect`, `device_disconnect`, `device_frequency`, profile apply, session claim and release | `ConnectCheck` ... `Connect`, `Disconnect`, `TuneCheck`, `TuneApply`, `UncheckedRetune`, `LeaseClaim`, `LeaseRelease` |
| `ScannerHandle::spawn`, `abort`, `send_command`, the command drain of `scanner_loop` | `Spawn`, `Aborted`, `Sent`, `Drain`, `Pull`, `Frame`, `Reap` |
| the device | `Stall`, `Deliver`, `CaptureRecover`, and the refusals of `Tune` and `Connect` |

Details worth knowing. `try_send` fails on a full channel, and `send_command`
then drops the command. A `ScannerHandle` that is overwritten in the slot is
dropped, which detaches its task; only `abort` ends it, after its threads have
joined (`Reap`). Until then the capture thread of an aborted scanner reads the
device beside that of the next one, which is spawned at once (state.rs 174-222,
capture.rs 338-345). A client that goes away while `scan_start` awaits the
sidecars drops the rest of its handler (`Cancel`). The mutex of a refused `scan_start` stays locked because the
guard of `if let Err(..) = lock().claim(..)` lives to the end of the statement
and the branch locks again: the handler is `wedged` and `guard` records it.

The abstraction: frequencies, VFOs and spectra are not modelled; a `Tune` is
one step that succeeds or is refused. Of the VFOs a scanner knows only whether
it has one (`vfos`): a Start of a bank with `max_vfos` 0 (`StartBare`, among the
`Starts`) leaves it without, and `NeedsRecovery` then takes it for a dead flow as
state.rs:712 does. `replaced` is history: the scanners over which another was
put into the slot. `lastAct` is a history variable (who
retuned or stopped last, under whose lease) and `budget` bounds requests.

### CommandLedger

`Compose` is a client that reads the lease and makes up a command, `Send` its
first and repeated requests, `Lookup`, `SessionApply`, `RevisionCheck`,
`LeaseCheck`, `DeviceCall` and `Remember` the critical sections of the three
handlers. `command_results` is a `HashMap`: the entry that makes room is an
arbitrary one. `Elsewhere` is everybody else who claims and releases,
including the `scanner` lease that a device select gives up and takes again.
Of the commands in `Patient` a client has one copy under way at a time. A tune carries
neither a name nor force. `effects` and `replies` are history.

### ScanWindow and ScanWalk

`ScanWindow` has one operator per function or test of `scanner.rs` that is pure
arithmetic, under its name (`search_window_wraps` is `SearchWindowWraps`), and
`pick_range_for_frequency` of `api.rs`. Frequencies are naturals, subtraction
saturates as in the code; a ratio of floating point numbers is compared by
multiplying out (`IsDcRejected`). `ScanWalk` follows `NextScanStep` over a bank
with nothing on the air and collects what its windows covered.

### ScannerSweep

`runtime` is the mutex-guarded `ScannerRuntimeState`, `loop` holds the locals of
`scanner_loop`, `queue` is the command channel. `loop.pc` is the stage:

| code | actions |
|---|---|
| command drain (918-1213) | one action per command: `StartCommand` ... `PanCommand` |
| frame and FFT (1215-1285) | `TakeFrame`: some set of channels is on the air |
| hit detection (1286-1479) | `Hit`: `NoPeak`, or `Peak` of one channel; `Allocated` chooses the slot |
| measurement (1483-1568) | `Measure` |
| decision (1598-1618) | `Decide` |
| move (1619-1686) | `ApplyStay`, `ApplyRetune`, `ApplySwitch` |
| handlers in `api.rs` | `ScanLock` ... `PlaceVfo`; scan start, device frequency and VFO frequency are two to four steps (`request` is the one in flight) |

Abstractions. Time is counted in frames. A frame is a set of channels that pass
the squelch and one bit for the 4 dB of hysteresis below it. The stages read
the center again, as the code does, so a request that retunes in between shifts
what a frame seems to show (`Seen`). Frames always arrive: a stalled device is
`ReceiverFlow`'s subject. `/vfo/add` and `/vfo/:id/frequency` read the device
and the lock in one step, and a move tunes the device and writes the VFOs in
one step. The copy of the blacklist is reloaded at any frame, not every 500 ms.
The analog bandwidth is taken to follow the sample rate. Mode, volume, mute and
squelch carry no control and are left out, as is everything downstream of a
frame, profile apply and the SSTV and listening-mode requests that write VFO
settings. `placed` and `skipped` are history.

### DeviceLayer and IqRing

The layer has no lock of its own; `at[a]` is where actor `a` is in its walk
over the open radio, the network source, the last key and the status. The actors
are requests, the supervisor and capture threads; a thread calls `connect` itself
(`Recover`). `scanner` is the slot: a capture thread belongs to a scanner, and goes
with it, after the read or recovery it is about.

| code | actions |
|---|---|
| `/device/connect`, `/v2/devices/:id/select`: the scanner is taken down first (api.rs 553-562, 1027), and has to be started again | `Connect` with `PauseScanner`, then `FlowStarts` or `FlowFails` |
| `connect`, by key (device.rs) | `ConnectMock`, `OpenFails`, `DefaultsFail`, `Open`, `Opened` |
| `disconnect`, `connect_network_source` | `Disconnect`, `Disconnected`, `NetworkConnect`, `SelectNothing` ... `NetworkConnected` |
| retune: contract, flush of the rings | `Retune`, `RetuneFails`, `BandwidthFails`, `Flush` |
| supervisor (state.rs): probe while the mock source is in use; restart a flow that starves | `Probe`, `ProbeFinds`, `ProbeFindsNone`, `Reapply`, `Starved`, `Restart` |
| playback requests | `PlaybackStart`, `PlaybackStop`, `PlaybackSeek` |
| `CaptureWorker` (capture.rs) | `CaptureReads`, `CaptureObserves`, `CapturePlays`, `CapturePushes`, `CaptureFails`, `Recover` |

The start of the flow is one step here, and always gets the lease: its steps and
the other holders are `ReceiverFlow`'s subject. `probing` and `configuring` as
`ensure_receiver_flow` shows them, the second between two recoveries and
`PULSESCOPE_PREFER_PHYSICAL=0` are left out.

A sample is the number of the RF settings it was taken under: `contract` counts
those that requests tune to (what a connect or the flow sets is followed by no
flush), and a stale sample is one with an older number than the last flush.

### SidecarRegistry

A start is three critical sections apart (children, pipe, and after 250 ms
recipe and supervisor), a restart four, a kill two; `agent[a].pc` says where a
handler or supervisor is. Processes are identities from a finite pool, and exit
at any moment. `process[p].by` tells a restart from a start. Handlers await their
starts themselves, so a client that goes away ends its handler at the await it
has reached (`Cancel`: the lock of the inputs, the 250 ms, or, after a failed
start, the lock again): what was registered stays registered, and nobody watches
it. `abandoned` remembers those processes. The count of exits is a `u8` that
nothing resets: at `CountLimit` it wraps in a release build (`Count`, remembered in
`wraps`), and in a debug build the addition ends its supervisor (`CountPanics`).

### The decoders

Each decoder module has the transmitter's side next to the decoder's:
encoding with flags, stuffing, checksums, parity, preambles and chirps, written
from the standard the decoder's own comments and tests name, and the decoder as
a record that pieces of the stream are pushed into. `DecoderLinks` puts the air
between them: it cuts the stream into pieces, flips symbols, or swallows one.
Twenty links run: AIS, VDL2, ACARS, POCSAG of both polarities, Mode S, UAT,
APRS, BLE, radiosonde, GOES of both polarities, CW, RTTY, NAVTEX, RDS, AIS
reports, LoRa, P25 control channels, and `auto`, where the frame is a signal
that the scanner hit and has to identify (`SignalId`) before a decoder is tried.

The two properties are what a decoder owes. For pagers that is what the air leaves
of a page (`LeftOf`): a word with more than two flips is beyond correction and
passed over, and past an address that is, the page before goes on. `Owed` lists, decoder by decoder,
what the code is known not to hear; each exception is a limitation of the code
that its comment explains, not of the model. Checksums and correcting codes
are computed in full (CRCs, BCH, Reed-Solomon); in place of ciphers and their
authentication codes there are a simple stream and sum that differ with the key.

Where the code works on floating point samples the model starts behind it: at
line levels, bits, magnitudes high or low, tones, key states, symbols.

### Services

`Services` runs one of seven machines in a behaviour and keeps the variables of
the others `Off`. The machines share no variable, so a step of one is a stutter
of the others: a property of one machine holds of all of them side by side
exactly when it holds of that machine alone, and the product of their states
need not be explored.

| scene | code | what can go wrong |
|---|---|---|
| `bands` (`BandFollow`, `BandPlan`) | retunes, `follow_manual_retune`, `FollowRetune`, scan cycles, edits of banks, `Config::save`, `merge_builtin_scan_ranges` | radio, status, bank and list are read at four times; the built-in table is the one of config.rs, so overlaps between real banks count |
| `windows` (`NativeWindows`) | `NativeRangeDecoders::feed` | a burst across the cut of a window, or in the overlap of two |
| `feed` (`IqFeed`) | `IqRing`, UDP and TCP ingest | lost, repeated, swapped packets; a stream that breaks between I and Q; overflow |
| `recordings` | `RecordingState`, its handlers, recording jobs | overlapping starts, failing writes, a crash |
| `trunking` | `trunking_start` and the requests around it | the watch list changes under a start |
| `installs` (`DecoderInstall`) | `decoders_install`, `decoders_configure`, `put_settings`, bootstrap | copies of the configuration; a crash while extracting |
| `sound` (`AudioFanout`) | `AudioSink` | channel count and pending samples under two locks |

## 3. Runs

| run | shows | bounds |
|---|---|---|
| `jobs` | types; a job holds the lease while it is executed and retunes under it; it gives it back; the executor implements `TunerOwnership` with its liveness | 2 jobs, 1 request (claim or disconnect), refusals, channel of 1, 1 task (nobody replaces it here but the supervisor, which waits for `Reap`) |
| `requests` | the slot never holds an aborted scanner; one not aborted is in it, or another was put in its place | 2 clients, 2 requests of any of 8 kinds, forced claims, refusals, 2 tasks, channel of 1 |
| `supervisor` | the flow recovers, and none of the aborted scanners is left beside it | 1 request (scan stop, disconnect), refusals, stalls, lost device, 2 tasks, channel of 1, starts of banks with VFOs and without |
| `commands` | commands are applied once and answered alike, revisions identify owners | 2 commands (claim, release, tune) twice each, 2 handlers, copies of a tune in turn, ledger of 2, revisions to 3 |
| `sweep` | the VFO list keeps distinct ids, its limit and, in a running bank, a slot; a skipped channel is not hit again; the sweep does not leave a signal before the hold is over | a bank two windows wide and one narrower than a window, 2 VFOs, 3 requests of any of 9 kinds, device failures, channel of 2, hold of 1 or 2 frames and at most 2 |
| `sweep_live` | a scan left alone keeps moving and visits every bank of its cycle | the same banks, and three bookmarks of which two have one label; a third bank outside the cycle; 3 requests (start, lock, unlock, skip, pan, view, and tune into that bank), signals that may never end |
| `scan_walk` | no gap, no window outside the bank, nearest channel, pans stay inside | all banks in 0..14, widths 1..5, rasters 0..4 |
| `device` | at most one chunk of an old band reaches a consumer after a flush; the radio streams again | 2 clients, 2 capture threads, the supervisor, 2 events (a request of any of 7 kinds, a refusal, a radio or network that breaks), rings of 2, chunks of 1, recovery after 2 failed reads |
| `sidecars` | every process owned and, unless its start was cut off, watched; one restart budget; the dead leave the registry | 1 decoder, 2 clients that may go away, 2 requests, 5 processes, 3 supervisors, 1 restart, a count that wraps at 3, 1 frame |
| `decoders` | nothing manufactured, everything whole is heard | twenty links, one to three frames, up to two flips (pagers: three, which their code cannot correct) or one lost symbol, two or three ways to cut |
| `services` | the eight properties of the seven scenes | 2 requests or starts in flight, a window of each kind, one with chunks longer than it; see `services.cfg` |
| `refused_start` | the refusal of a scan start never answers, see findings | smallest that shows it |

The bounds are small because the interesting cases need few actors: two
requests suffice for a check that is stale when used, two tasks for a scanner
nobody owns, a channel of one for a dropped command, a ledger of two for an
eviction: a remembered id that is answered again still evicts. `MaxCount` caps the revision: the code
saturates at `u64::MAX`, the model at `MaxCount`, so saturation is reached.
In `sweep` the banks force a hop inside a bank, a wrap, a bank that has no hop
and a switch; 2 VFOs reach the limit, 2 commands fill the channel, and 3
requests are enough for one to be stale twice over (add, remove and a hit).
In `device` one event is enough for each recovery, and the second for a
disconnect that overlaps a connect, or for the open that fails after a connect
took the scanner down; the second thread is that of the next scanner, beside the
one that still recovers. In `sidecars` five processes are two starts, the restart
of each and the one that a wrapped count grants beyond the limit; a count of 3 in
place of 256 wraps with a limit of 1 as 256 does with 3. One decoder suffices
because decoders meet only in `kill_all`. In `decoders` frames are shortened
where the length plays no part (`MaxFrameBits`, `WordsPerBatch`, `PauseBits`
replace 16384, 16 and the silence between overs); the payloads contain runs of
ones and an octet like a flag, so that stuffing and false flags occur. In
`services` the bands are the shipped ones that hold one of eight frequencies.
Deadlock is not checked: with the budget used up and every job done the model,
like the process, may have nothing left to do.

Fairness (`ReceiverFlow!Fairness`). A handler that has begun goes on, timers
fire, ticks recur: weak fairness per actor, and strong fairness for starting a
due job, because the executor starts them one at a time. `Drain` is strongly
fair while the supervisor rests: it sleeps 2 s between ticks, a scanner drains
a command in far less. Nothing is assumed of clients. `ScannerSweep!Fairness`:
the loop is a task of its own that waits for nobody, so each of its stages is
weakly fair; a handler that has begun goes on. `FlowRecovers` also assumes
`DeviceAccepts`, an assumption on the environment: a device that is asked again
and again accepts some time. `DeviceLayer!Fairness`: a capture thread that is
there goes on, as do the supervisor's ticks and a request that has begun (its
device calls run to their end even when its client goes away). A recovery takes
less than the supervisor's patience with a flow that starves, 5 s.
`SidecarRegistry!FairSpec`: handlers go on, or are cut off, and supervisors go on;
processes need not ever exit.

Every property of a passing run has a mutant in `PROJECT.json`: a plausible
fault of one definition (`...Faulty variant` comments) with which the same run
finds the property violated.

## 4. Proofs

36 theorems in eight modules, each for every value of the constants that the
named assumptions allow: 31 of them state a property some run checks. Each
safety property comes from an inductive invariant, which is stronger; what it
adds is the argument, and is told here. TLC checked the invariants on small
instances before they were proved.

### Receiver

`ReceiverFlow_proofs`: `TypeOK`, `JobHoldsLease`, `OneJobAtATime`,
`JobRetunesOwnReceiver`, `SlotIsLive`, `NoStrayScanner`, and that every behaviour
without forced takeovers implements `TunerOwnership!Safe`. `JobHoldsLease` is
not inductive: the executor's labels have to agree with `cur`, with the timers
and with the rows (`ExecutorOK`): a job with a timer is not due, so it is not
started twice, and while `cur` is claimed no other job holds. `JobHoldsLease`
then survives every claim, because `Grants` refuses a second owner without
force, and every release, because each actor releases a name of its own. All
steps that do not touch the executor share one frame lemma (`Outside`). The
argument rests on `FlowAssumption`: names given to the claim and release
endpoints are neither `scanner` nor a job's name. The endpoints accept any
string, so this is an assumption about clients and not something the code
enforces; a client that releases under a job's name takes its lease away.

`NoStrayScanner` holds of everything: boot, starts and connects that overlap, and
any number of tasks. Of a scanner that was not aborted it says where it is: in
the slot, or, by name, replaced there by a start that overlapped its own
(section 5). It says nothing of capture threads: an abort does not wait, so two of
them do read the device for a while; that the old ones go is part of
`FlowRecovers`.

`CommandLedger_proofs`: `TypeOK`, `SessionAppliedOnce`, `SessionReplyUnique`,
`SeenRevisionIdentifiesOwner`, `LedgerBounded` and `DeviceAppliedOnce`, for any
number of handlers, ids and retries. Until the revision saturates, the lease a
client saw determines the answer to its session command (`Outcome`), and a
command that took effect has left its expected revision behind (`Once`); so
copies, eviction and interleaving cannot apply it again. A device command has
no such revision of its own. `TurnInv` says what protects it: one copy is under
way at a time (`OneCopy`); a command that was applied is in the ledger or about
to be put there, and no copy of it stands between its lookup and its call
(`Turns`); and nothing was evicted, since as long as fewer commands than the
capacity have been answered there was room (`Kept`).

### Device, decoders, services

`DeviceLayer_proofs`: `StaleAtMostOneChunk`, for any rings, chunk and ring
size. What is stale lies at the head of a ring, before anything newer
(`StaleIsOldest`), no further in than one chunk; and while the capture thread
still holds a chunk it read before a flush, the rings are empty
(`StaleInHand`), where the thread is the one of the scanner whose rings they are. `DeviceAssumption`: a chunk is smaller than a ring.

`SidecarRegistry_proofs`: `NoStrayProcess`, `Supervised`, `RestartsBounded`,
for any decoders, clients that stay or go away, and processes. `RegistryInv` is an account of every
process: what is registered under a name was started for it (`Registered`), and so
was what a start carries to the registry (`Carried`); whatever runs is owned
(`AllOwned`). A registered process is watched or was left behind by the very
client that started it (`Supervised`, `abandoned`). `RestartsBounded` is about history, so its invariant counts
(`Budget`): the processes that restarts have made, plus the supervisors that
have decided to restart and have not yet, are no more than the restart counter and no
more than `MaxRestarts`, each plus `MaxRestarts + 1` for every time the counter has
wrapped; all supervisors of a decoder share that budget.

`Services_proofs`, one machine at a time. Its steps keep its invariant and the
other machines do not run.
- `FilesDescribed` (`RecInv`): a file nobody disturbed is in one hand, which
  either has just created it, records it, or has described it; the scanner
  writes where and as much as the recording says.
- `ConfigKept` (`InstallInv`): a path below the data directory leads to a file,
  in memory, in config.toml, in what a client sends back and in what an install
  will apply (`AllLead`); a program that is not whole has exactly one install
  at work on it or is known to be tainted (`Marked`); memory and file agree
  unless a settings request is between its two steps or was late (`Synced`).
- `OnlyWatchedFollowed` (`TrunkInv`): a request that is under way has witnessed what holds
  now and what it has read (`Saw`), so what passed the filter passed it with
  rows, switch and system name that each held at some moment of the request.
- `OperatorBanksSurvive` (`BankInv`): for each bank the operator made, the
  first bank of its name in the list, and in config.toml, is what was made of it
  (`Lasts`): the file has to be in the invariant because a restart reads it, and
  first because lookups by name take the first. `InputsAssumption` only gives
  types: banks are banks; lists may hold a name twice.
- `RetuneSettles` (`FollowInv`). Radio, status, bank, list and queue are read one
  after the other, so "the bank is right" is false at most moments of a retune. The
  invariant says how far the one undisturbed retune has got instead: all is right
  (`AtRest`); the radio has moved and the bank has not (`Retuning`), where the bank
  a request has chosen is the right one already; the command that will bring it is
  in the queue (`Following`); only the slot has still to follow (`Placing`); or a
  switch has been decided, or retunes overlapped, and nothing is claimed. What is
  right is told against the list in force, of which the bank the scanner works in
  and the one a command carries may be older copies (`InForce`, `Wanted`). Two theorems:
  `BankFollowsRadio`, the bank holds the radio if any does and the slot is inside
  the window; `RetunesSettle`, the decoders of the service there are fed as well.
  The first assumes `BanksOrdered`, that a bank ends no lower than it begins, which the
  endpoints that create and import banks do not enforce. The second assumes also
  `TablesServe`, a condition on the saved and shipped lists alone, without steps: from
  any bank of a list, the one picked for a point outside it feeds the decoders
  promised there. The proof adds that no order of steps can spoil what the tables
  provide; TLC evaluates the condition, for the lists of the run
  (`MCBanksAssumption`), and for the whole built-in table at the edges of its banks
  and next to them (`MCBuiltInAssumption`).
- `BurstsHeard` (`WindowInv`): a burst that nothing spoiled, of a length that is to be
  found and not published yet, stands in window and air part by part in order, as far as it
  has been sent (`StillThere`): a cut leaves it whole, since it is no longer than what
  is kept. A published packet has no beginning left there (`HeardOnce`), the
  next chunk pushes no samples out of a window of packets that holds two
(`WindowSize`), and a text
  that ends in what was published last has been published (`LastText`), as has the station
  named last (`LastStation`), so suppressing a repetition loses nothing.
  `WindowsAssumption` asks that a window hold twice what its decoder waits for, and
  nothing of chunks: their length is five times an `fft_size` that has no bound.
  What follows for bursts is a condition on each (`Fits`). With chunks longer than
  half a window of packets, nothing is promised but that no packet comes twice
  (`FeedLongChunkKeeps`).

`Picked`, a recursive function, is what `retain` and `filter` leave. That it
exists, and how it grows, is proved from a least length at which it would
fail, because the library's induction theorems cannot be instantiated.

`Streams_proofs`, the machines that move samples and bits: `FramesAligned`,
`IqIntact` and the framing of AIS.
- `SoundInv`: the samples that wait, in whatever buffer, are in order, and every
  frame cut is whole in the channel count it was cut for.
- `FeedInv`: packets under way come after what has arrived, and in turn unless two were
  swapped; over TCP the odd byte kept back, followed by the bytes under way, is the byte
  stream of the samples after some sample `a`, and what was parsed ends at or before
  it; a ring holds a span that ends with the newest sample, what was read from
  it is a span as well, and received, queued, read and dropped balance.
- `AisFramesHeard`, what `CleanFramesHeard` says of the link `ais` when the air changes
  nothing, for every sequence of frames, first level and cutting into pieces. A frame is
  any whole octets that still fit `MaxFrameBits` with check sequence and stuffing
  (`Sendable`). The argument: unstuffing undoes stuffing after every bit, and of any six
  stuffed bits one is a zero (`Stuffed`, `NoSix`), so within a frame a flag ends where
  the flag sent ends and nowhere else (`FlagAtEnd`); a decoder that waits after a flag then
  waits again, one frame richer (`FrameHeard`); two pieces do what their
  concatenation does (`NrziJoins`), and levels what their bits do (`LevelsHeard`).
  The machines run in blocks (`After`); `Grows` says for each of them that this is one
  element after the other.

### Scanner

`ScanWalk_proofs`: for every bank and window width the walk stays in the bank,
leaves no gap and pans stay inside; a peak inside a bank becomes a hit on the
nearest frequency of the bank's raster, for every raster. `WalkInv` adds to the
walk's place that everything up to the upper edge of the present window has
been covered; a hop of one usable span begins at most one frequency above it.
Nearest is arithmetic of rounding division; clamping to a bank brings a channel
no further from a peak inside it (`ClampNearer`).

`ScannerSweep_proofs`: `TypeOK`, `SlotsDistinct`, `RunningBankHasVfo`,
`SkippedStaysQuiet`, `SweepRespectsSignal`, for any banks, limits and requests.
- `GoodSlots`: ids are naturals with some upper bound, which makes the highest
  id exist (by well-foundedness of `<`), and the next id is above it. Every
  other step keeps the list, id for id (`SameIds`), drops one slot
  (`FewerSlots`) or starts over (`StarterSlots`).
- `SweepTypes` is `TypeOK` with what the stages of the loop may assume: a frame
  is worked on only while a scan runs, and a running scan has a bank, the one the
  other threads read (`Working`); commands in the queue are typed (`QueueOK`).
- `Staffed`: if every planned bank has room for a VFO (`Roomy`), the list of a running
  scan is not empty.
- `Remembered`: what the operator skipped is on the loop's own copy of the
  blacklist, however old that copy is.
- `Decided`: once the loop has decided to move, and until it has, no slot is on an
  open signal, or the longest hold is over, or the bank has none (`Free`).

`BankAssumption` and `SweepAssumption` type the banks and limits.

### Model-checked only

- Liveness, since fairness and `ENABLED` are out of the provers' reach:
  `JobLeaseReturned`, `FlowRecovers`, `RadioStreamsAgain`, `DeadIsDeregistered`,
  `SweepGoesOn`, `CycleVisited` and the liveness part of `TunerSpec`; also the
  finding's `RefusalAnswered`.
- `NothingManufactured` and `CleanFramesHeard` as invariants of `DecoderLinks`: most
  decoders reach RECURSIVE operators, and that a disturbed frame is refused
  rests on what check sequences detect. Of clean AIS streams `AisFramesHeard` is
  the proof.

Every other safety property of the passing runs, invariant or action property,
is stated by a theorem. `RetunesSettle` has a hypothesis that is true of the shipped
table and false of others, so TLC evaluates it: `TablesServe` above.

## 5. Findings

A refused scan start locks the lease mutex it still holds (`refused_start`):
api.rs 2472-2474 writes the session into the answer with a second `lock()`
while the guard of the first lives to the end of the `if let`. `PROJECT.json`
quotes the lines.

### Known disagreements

Met while modelling. The properties above are stated so that they exclude
these cases by name; the models contain them.

Receiver core:

- At boot `main` and the supervisor's first tick can both find the slot empty
  and spawn (main.rs:53, main.rs:57, state.rs:222); so can starts that overlap, or one
  that finds the queue full. A replaced `ScannerHandle` is dropped, which
  does not abort its task (`replaced` in `NoStrayScanner` and `FlowRecovers`).
- Banks that are shipped with `max_vfos` 0 (config.rs 1697-1736), and any with
  `scanner.max_vfos` 0, start without a VFO; state.rs:712 takes that for a flow that
  died, and the supervisor aborts and respawns the scanner every 2 s for as long
  as it runs there (`RunsBare` in `FlowRecovers`).
- Copies of one tune that are handled at the same time are all applied
  (api.rs:1176), though state.rs:36 says retries do not execute twice. With
  `Patient = {}` the bound of `DeviceAppliedOnce` fails for `tune`. Nor is it enough
  that copies come in turn: in a full ledger an id that is answered again evicts
  another's entry, so with no entry to spare a device command can be applied twice.
- A slot an operator added loses its lock with the next move of the window and
  is taken for a hit (scanner.rs:1636, against the comment at scanner.rs:1105):
  `OperatorSlotKept` of `ScannerSweep` is violated under `sweep.cfg`.
- Profile apply retunes the radio under anybody's lease (`UncheckedRetune`); so
  does a VFO moved out of the window, and a due job sends Stop to the scanner
  before it asks for the lease.
- A scan start or a restart that the device refuses releases the `scanner` lease
  of the scan that goes on (`ScanFail`, `FlowRelease`).
- `/scan/lock` does not stop a bank switch already decided, and the switch
  clears the lock it finds.
- A job marked `blocked` has no next run and is never due again (db.rs:895).

- Two banks of one name, as two bookmarks of one label are (api.rs:2389): the cycle
  finds the first (scanner.rs:323) and goes on behind it, so it never gets past the
  second, nor to what lies before the first (`Twins` in `CycleVisited`). A bank
  outside the cycle, which a retune has moved to, has none that follows it, so the
  sweep stays (`CycleVisited`); where such a bank fits the window, the
  sweep does not move at all (`NowhereToGo`).

Device and network:

- A connect, or a select, takes scanner and capture thread down before it opens
  the radio. If the open fails, or the device is disconnected meanwhile, the flow is not
  started (state.rs:150), the supervisor looks for a radio only while the driver is
  `mock` (state.rs:264), and nobody recovers the radio until somebody connects again
  (`Unattended` in `RadioStreamsAgain`).
- `disconnect` keeps `last_key`, so the capture thread's recovery connects again
  (device.rs:1066); a disconnect that overlaps a connect leaves `connected` false while
  the radio streams; a network source that fails leaves it true (1108).
- Playback at its end keeps the live radio from being read until it is stopped.
- IQ packets carry the settings in force when they are sent (capture.rs:302), not
  those of the samples.
- After a lost RTL-TCP stream the thread reconnects and accepts a header that is not
  one; a closed socket is read again and again without a pause.

Banks:

- `pick_range_for_frequency` takes the narrowest bank, which is not always the
  service: Bluetooth's lower half belongs to `13cm Amateur`, pagers at
  454-458 MHz to `Public Safety UHF` (`Hidden` lists them), against its comment.
- A retune inside a wide bank keeps that bank; an enabled wide bank beats a
  disabled service bank. Retunes that overlap, or that meet a switch of a
  cycle, may leave the bank elsewhere. `/receivers/:id/tune` does not lock the scan, so a
  sweep under way undoes it.
- A shipped bank that was deleted is back after a restart.

Services:

- A recording start truncates its file before it looks whether one is being
  recorded, and silently replaces that one. A recording job that finds none may find one a
  moment later. The completion of a job stops whatever is recorded; a second
  stop writes the sidecar again without start time and center.
- Settings are saved after the lock was let go (api.rs:2080): two puts, or a put
  and an install, may leave on disk what is not in force. Programs extracted on
  Unix are not executable, yet the install reports success.
- The first identifier of a control channel is used for every channel number
  (trunking.rs:131); encrypted calls are followed; all calls are logged at the
  frequency of the first.
- A client that goes away during a start (api.rs 3768, 4074, 5446) leaves a
  registered decoder without recipe and supervisor (sidecar.rs 230-238): if it exits,
  it is not restarted and stays registered until its name is started or stopped
  (`abandoned` in `Supervised` and `DeadIsDeregistered`).
- The count of a sidecar's exits is a `u8` (sidecar.rs 31, 295): at the 256th it wraps, and
  restarts begin anew (`wraps` in `RestartsBounded`), or, with overflow checks, its supervisor
  panics and the decoder stays down, its recipe in place (`CountPanics`).
- Restart counts and recorded failures of a sidecar are never cleared; a restart
  that fails to spawn is not tried again; enabling the ACARS or VDL2 pack
  starts nothing.

Decoders (each an exception in `Owed` or a condition of `NothingManufactured`):

- POCSAG: an address beyond correction is passed over and the page before it
  stays open (pocsag.rs:241): it takes the data of the page behind that address, so
  a page that nobody sent is published and a clean one spoiled, although the
  module says that it does not manufacture messages when error correction fails
  (pocsag.rs:7). A data word beyond correction leaves a hole in its page. A lost bit
  costs the next batch as well, and the words it puts out of place may pass for
  others. (`LeftOf`, `Owed`, and the first condition of `NothingManufactured`.)
- APRS: the streaming decoder has no opening flag when the first frame ends and
  hears none. Mode S: a frame at the end of a chunk is published again with the
  next; a short one hides the frame behind it.
- BLE: after a packet with a bad CRC, channels 38 and 39 are not tried; a broken
  packet hides those behind it until the window is cut.
- LoRa: the protocol is told from unprotected octets, so some payloads of one
  protocol are published as another. P25: no block's CRC is looked at.
- CW: a text without a dit is read as dits. NAVTEX: a word equal to the one five
  before is dropped as its repetition. RDS: the first group of a window is lost.
- Windows: chunks are five times `fft_size` long (scanner.rs:873), which is not bounded
  (config.rs:176). From an `fft_size` of 20001, in practice 32768, a chunk is longer
  than half a window of 200000 samples (BLE, radiosonde), from 40001 than half of one of
  400000 (LoRa, GOES): packets may be pushed out before a decoder sees them whole.
- Automatic decoding filters UAT and VDL2 channels narrower than their signals,
  and never decodes them.

## 6. What the checks do not show

What holds in a run holds on its instance. Bounds on requests, faults and frames are
constants of each module and are stated in section 3. Two abstractions decide
what the results mean: everything before bits and symbols is taken as correct
demodulation, and every critical section is atomic.

## 7. Not modelled

- Filters, AGC, squelch, detectors, FFT, SSTV: floating point from end to end.
- `voice_decoder.rs`, `hd_radio.rs`, `transcription.rs`, `webrtc.rs`: external
  programs and libraries; the life of external processes is `SidecarRegistry`'s subject.
- Listener sessions: every handler is one critical section under one write
  lock; a property would restate its guards.
- `db.rs`: single statements behind one mutex. The statements a machine depends on
  (job rows, the watch list) are actions of that machine.
- Manifest signatures (`Signed` is a constant), decoder fixtures, listening
  modes, parsing of sidecar output, the user interface, deployment.

## 8. Plan

1. What `TablesServe` asks could be made an admission test for banks an operator
   writes; the code has none, and the model's `edited` excludes them.
2. The ring operations of `DeviceLayer` and `IqFeed` share lemmas that could move to
   one module.
3. Playback's lease and downloads next to `Recordings`.
4. VDL2's framing has the shape of AIS's; its theorem needs in addition that a frame
   followed by its check sequence leaves `GoodResidue`.

The number of runs is kept small: a component's safety and liveness share a
run wherever the instance allows, and machines that share no state share one.
