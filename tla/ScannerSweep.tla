---------------------------- MODULE ScannerSweep ----------------------------
(***************************************************************************)
(* The scanner task (src-tauri/src/scanner.rs, scanner_loop) against the   *)
(* HTTP handlers that steer it (src-tauri/src/api.rs).                     *)
(*                                                                         *)
(* The task drains its command queue, takes one IQ frame, turns the        *)
(* strongest peak into a hit on a VFO, measures every VFO, and then        *)
(* decides whether to move the capture window.  Handlers run between any   *)
(* two of those stages: some only queue a command, others write the shared *)
(* runtime state or the device themselves.                                 *)
(*                                                                         *)
(* Time is counted in frames: one frame passes at the end of a turn of the *)
(* loop.  ConfirmFrames, HoldMax and a bank's hold and dwell are in that   *)
(* unit.  VFO mode, volume, mute, AGC and squelch levels carry no control  *)
(* and are left out, with their commands; so is everything downstream of a *)
(* frame (decoders, recording, events, occupancy).                         *)
(***************************************************************************)
EXTENDS ScanWindow, FiniteSets

CONSTANTS
    Plans,          \* [bank, cycle] pairs a scan may be started with
    ConfigBanks,    \* cfg.scan_ranges, a sequence of banks
    Channels,       \* frequencies that may be on the air
    Tunes,          \* frequencies an operator may ask for
    Requests,       \* the kinds of request the operators make
    MaxVfos,        \* cfg.max_vfos
    ConfirmFrames,  \* cfg.confirm_ms
    HoldMax,        \* cfg.scan_hold_max_ms
    MinDwell,       \* the 750 ms floor of settle_dwell
    StepHz, FftSize, DcReject, DevMin, DevMax, BootRate, BootCenter,
    HoldOnAudio,    \* cfg.scan_hold_on_audio
    DeviceMayFail,  \* whether a tuning call of the device may fail
    QueueCap,       \* capacity of the command channel (64 in the code)
    Budget          \* bound of the model: how many requests the operators make

PlannedBanks == {p.bank : p \in Plans} \cup UNION {{p.cycle[i] : i \in DOMAIN p.cycle} : p \in Plans}

Banks == PlannedBanks \cup {ConfigBanks[i] : i \in DOMAIN ConfigBanks}

ASSUME BankAssumption ==
    /\ \A p \in Plans : p.cycle \in Seq(PlannedBanks)
    /\ ConfigBanks \in Seq(Banks)
    /\ \A b \in Banks : {b.start, b.end, b.bw, b.maxVfos, b.hold, b.dwell, b.rate} \subseteq Nat
    /\ NoBank \notin Banks

ASSUME SweepAssumption ==
    /\ MaxVfos \in Nat /\ QueueCap \in Nat \ {0} /\ Budget \in Nat
    /\ HoldMax \in Nat \ {0} /\ ConfirmFrames \in Nat /\ MinDwell \in Nat
    /\ {StepHz, FftSize, DcReject, DevMin, DevMax, BootRate} \subseteq Nat
    /\ BootCenter \in DevMin .. DevMax /\ Channels \subseteq Nat /\ Tunes \subseteq Nat
    /\ HoldOnAudio \in BOOLEAN /\ DeviceMayFail \in BOOLEAN

VARIABLES
    runtime,    \* ScannerRuntimeState, behind its mutex
    loop,       \* the locals of scanner_loop and the stage it is in
    device,     \* center and sample rate of DeviceLayer
    queue,      \* the command channel
    lockouts,   \* frequencies in the blacklist table
    request,    \* the multi-step handler in flight, if any
    budget,     \* requests the operators may still make
    skipped     \* history: frequencies locked out by a processed Skip

vars == <<runtime, loop, device, queue, lockouts, request, budget, skipped>>

(***************************************************************************)
(* VFOs.  `placed` is history: the slot was created by an operator.        *)
(***************************************************************************)
Vfo(id, freq, locked, open, placed) ==
    [id |-> id, freq |-> freq, locked |-> locked, open |-> open, placed |-> placed]

NoRequest == [op |-> "none"]
Silence == [center |-> 0, air |-> {}, fading |-> FALSE]

Idle == [pc |-> "commands", bank |-> NoBank, cycle |-> <<>>,
         candidate |-> NoFreq, seen |-> 0,      \* candidate_hz, candidate_since
         held |-> -1, left |-> 0,               \* signal_hold_started, .._until
         dwell |-> 0, force |-> FALSE,          \* next_sweep_at, force_sweep
         blacklist |-> {}, frame |-> Silence, step |-> StayHere]

Init ==
    /\ runtime = [running |-> FALSE, bank |-> NoBank, vfos |-> <<>>,
                  locked |-> FALSE, holding |-> FALSE, full |-> FALSE]
    /\ loop = Idle
    /\ device = [center |-> BootCenter, rate |-> BootRate]
    /\ queue = <<>>
    /\ lockouts = {}
    /\ request = NoRequest
    /\ budget = Budget
    /\ skipped = {}

StarterVfos(bank, center) ==
    IF bank.maxVfos = 0 \/ MaxVfos = 0 THEN <<>>
    ELSE <<Vfo(0, center, FALSE, FALSE, FALSE)>>

HighestId(vfos) ==
    CHOOSE h \in {vfos[i].id : i \in DOMAIN vfos} :
        \A i \in DOMAIN vfos : vfos[i].id <= h

\* the slots a search stops at; the first of them is the one taken
WithId(vfos, id)         == {i \in DOMAIN vfos : vfos[i].id = id}
LockedOnes(vfos)         == {i \in DOMAIN vfos : vfos[i].locked}
FreeOnes(vfos)           == {i \in DOMAIN vfos : ~ vfos[i].locked}
Near(vfos, freq, reach)  == {i \in DOMAIN vfos : Distance(vfos[i].freq, freq) <= reach}
OnSignal(vfos)           == {i \in DOMAIN vfos : vfos[i].locked /\ vfos[i].open}

ForAllVfos(vfos, F(_)) == [i \in DOMAIN vfos |-> F(vfos[i])]

Unlocked(v)  == [v EXCEPT !.locked = FALSE]
Released(v)  == [v EXCEPT !.locked = FALSE, !.open = FALSE]

\* retain(|vfo| vfo.id != id); ids are distinct, so one VFO goes at most
WithoutId(vfos, id) ==
    IF WithId(vfos, id) = {} THEN vfos
    ELSE LET gone == First(WithId(vfos, id))
         IN  [i \in 1 .. Len(vfos) - 1 |-> IF i < gone THEN vfos[i] ELSE vfos[i + 1]]

SettleDwell(bank) == AtLeast(bank.dwell, MinDwell)
Usable == UsableSpan(device.rate, device.rate)

\* the hold and the candidate are forgotten together
Rested(l) == [l EXCEPT !.candidate = NoFreq, !.seen = 0, !.held = -1, !.left = 0]

(***************************************************************************)
(* Commands, drained one by one before a frame is looked at.               *)
(***************************************************************************)
Taking(name) ==
    /\ loop.pc = "commands"
    /\ queue # <<>>
    /\ Head(queue).cmd = name
    /\ queue' = Tail(queue)
    /\ UNCHANGED <<request, budget>>

StartCommand ==
    /\ Taking("start")
    /\ LET bank == Head(queue).bank IN
       /\ runtime' = [running |-> TRUE, bank |-> bank.name,
                      vfos |-> StarterVfos(bank, device.center),
                      locked |-> FALSE, holding |-> FALSE, full |-> FALSE]
       /\ loop' = [Rested(loop) EXCEPT !.bank = bank, !.cycle = Head(queue).cycle,
                                       !.dwell = SettleDwell(bank)]
    /\ UNCHANGED <<device, lockouts, skipped>>

StopCommand ==
    /\ Taking("stop")
    /\ runtime' = [runtime EXCEPT !.running = FALSE, !.bank = NoBank, !.vfos = <<>>,
                                  !.holding = FALSE, !.locked = FALSE]
    /\ loop' = [Rested(loop) EXCEPT !.bank = NoBank, !.cycle = <<>>]
    /\ UNCHANGED <<device, lockouts, skipped>>

\* the VFO being skipped: the first locked one, or the first one
SkipTarget(vfos) ==
    IF LockedOnes(vfos) # {} THEN vfos[First(LockedOnes(vfos))].freq ELSE vfos[1].freq

\* mutant: the copy of the blacklist is left for the next reload
SkipCommandStale ==
    /\ Taking("skip")
    /\ runtime' = [runtime EXCEPT !.locked = FALSE, !.holding = FALSE,
                                  !.vfos = ForAllVfos(@, Released)]
    /\ LET out == IF runtime.vfos = <<>> THEN {} ELSE {SkipTarget(runtime.vfos)} IN
       /\ lockouts' = lockouts \cup out
       /\ skipped' = skipped \cup out
    /\ loop' = [Rested(loop) EXCEPT !.dwell = 0, !.force = TRUE]
    /\ UNCHANGED device

SkipCommand ==
    /\ Taking("skip")
    /\ runtime' = [runtime EXCEPT !.locked = FALSE, !.holding = FALSE,
                                  !.vfos = ForAllVfos(@, Released)]
    /\ LET out == IF runtime.vfos = <<>> THEN {} ELSE {SkipTarget(runtime.vfos)} IN
       /\ lockouts' = lockouts \cup out
       /\ skipped' = skipped \cup out
       /\ loop' = [Rested(loop) EXCEPT !.dwell = 0, !.force = TRUE,
                                       !.blacklist = IF out = {} THEN @ ELSE lockouts']
    /\ UNCHANGED device

ResumeCommand ==
    /\ Taking("resume")
    /\ runtime' = [runtime EXCEPT !.locked = FALSE, !.holding = FALSE,
                                  !.vfos = ForAllVfos(@, Unlocked)]
    /\ loop' = [Rested(loop) EXCEPT !.dwell = 0, !.force = TRUE]
    /\ UNCHANGED <<device, lockouts, skipped>>

\* VFOs the new window cannot reach move to the center the operator chose
Rehomed(vfos, center) ==
    ForAllVfos(vfos, LAMBDA v :
        IF Distance(v.freq, center) > UsableHalf(device.rate)
        THEN [v EXCEPT !.freq = center, !.open = FALSE] ELSE v)

FollowCommand ==
    /\ Taking("follow")
    /\ LET c    == Head(queue)
           next == IF c.bank # NoBank /\ (loop.bank = NoBank \/ loop.bank.name # c.bank.name)
                   THEN c.bank ELSE loop.bank
       IN /\ runtime' = [runtime EXCEPT !.vfos = Rehomed(@, c.center),
                                        !.bank = IF next = loop.bank THEN @ ELSE next.name]
          /\ loop' = [loop EXCEPT !.bank = next, !.candidate = NoFreq, !.seen = 0]
    /\ UNCHANGED <<device, lockouts, skipped>>

NewSlot(vfos, freq) ==
    Append(vfos, Vfo(IF vfos = <<>> THEN 0 ELSE HighestId(vfos) + 1, freq, TRUE, FALSE, TRUE))

AddCommand ==
    /\ Taking("add")
    /\ LET freq == IF Head(queue).freq = NoFreq THEN device.center ELSE Head(queue).freq IN
       runtime' = [runtime EXCEPT !.vfos = IF Len(@) < MaxVfos THEN NewSlot(@, freq) ELSE @]
    /\ UNCHANGED <<loop, device, lockouts, skipped>>

\* mutant: the last VFO may go too
RemoveCommandAny ==
    /\ Taking("remove")
    /\ runtime' = [runtime EXCEPT !.vfos = WithoutId(@, Head(queue).id)]
    /\ UNCHANGED <<loop, device, lockouts, skipped>>

RemoveCommand ==
    /\ Taking("remove")
    /\ runtime' = [runtime EXCEPT !.vfos =
                     IF Len(@) > 1 THEN WithoutId(@, Head(queue).id) ELSE @]
    /\ UNCHANGED <<loop, device, lockouts, skipped>>

PlaceCommand ==
    /\ Taking("place")
    /\ LET at == WithId(runtime.vfos, Head(queue).id) IN
       runtime' = [runtime EXCEPT !.locked = TRUE,
                     !.vfos = IF at = {} THEN @
                              ELSE [@ EXCEPT ![First(at)].freq = Head(queue).freq,
                                             ![First(at)].locked = TRUE]]
    /\ UNCHANGED <<loop, device, lockouts, skipped>>

LockVfoCommand ==
    /\ Taking("lock_vfo")
    /\ LET at == WithId(runtime.vfos, Head(queue).id) IN
       runtime' = IF at = {} THEN runtime
                  ELSE [runtime EXCEPT !.vfos[First(at)].locked = Head(queue).on]
    /\ UNCHANGED <<loop, device, lockouts, skipped>>

\* a tuning call inside the device's range succeeds unless the device fails
TuneOk(freq)    == DevMin <= freq /\ freq <= DevMax
TuneFails(freq) == DeviceMayFail \/ ~ TuneOk(freq)

Recenter(freq, full) == ClampCenter(freq, device.rate, full, loop.bank, DevMin, DevMax)

MayTune(freq) ==
    \/ TuneOk(freq) /\ device' = [device EXCEPT !.center = freq]
    \/ TuneFails(freq) /\ UNCHANGED device

ViewCommand ==
    /\ Taking("view")
    /\ runtime' = [runtime EXCEPT !.full = Head(queue).full]
    /\ IF ~ Head(queue).full /\ loop.bank # NoBank
       THEN MayTune(Recenter(device.center, FALSE))
       ELSE UNCHANGED device
    /\ UNCHANGED <<loop, lockouts, skipped>>

PanCommand ==
    /\ Taking("pan")
    /\ MayTune(Recenter(Head(queue).center, runtime.full))
    /\ UNCHANGED <<runtime, loop, lockouts, skipped>>

Commands ==
    \/ StartCommand \/ StopCommand \/ SkipCommand \/ ResumeCommand \/ FollowCommand
    \/ AddCommand \/ RemoveCommand \/ PlaceCommand \/ LockVfoCommand
    \/ ViewCommand \/ PanCommand

(***************************************************************************)
(* One frame.  `air` holds the channels strong enough to pass the squelch, *)
(* at the window the frame was captured under; the stages below read the   *)
(* center again, so a handler may have moved it in between.  `fading` says *)
(* that the others sit in the 4 dB of hysteresis under the squelch.        *)
(***************************************************************************)
TakeFrame ==
    /\ loop.pc = "commands" /\ queue = <<>>
    /\ runtime.running /\ loop.bank # NoBank
    /\ \E air \in SUBSET {f \in Channels : Distance(f, device.center) <= device.rate \div 2} :
       \E fading \in BOOLEAN :
         loop' = [loop EXCEPT !.pc = "hit",
                    !.frame = [center |-> device.center, air |-> air, fading |-> fading]]
    /\ UNCHANGED <<runtime, device, queue, lockouts, request, budget, skipped>>

\* where the stage places a channel of the frame, given the center it reads
Seen(freq) == Monus(device.center + freq, loop.frame.center)

\* the limit of a bank is the smaller of its own and cfg.max_vfos
AllowsVfos(bank)    == bank.maxVfos > 0 /\ MaxVfos > 0
RoomFor(vfos, bank) == Len(vfos) < bank.maxVfos /\ Len(vfos) < MaxVfos

\* the slot of a hit: one already there, else the first unlocked, else a new one
Caught(v, freq) == [v EXCEPT !.freq = freq, !.open = TRUE, !.locked = TRUE]

\* mutant: the id is the length of the list
HitSlotByCount(vfos, freq) == Append(vfos, Vfo(Len(vfos), freq, TRUE, TRUE, FALSE))

HitSlot(vfos, freq) ==
    Append(vfos, Vfo((IF vfos = <<>> THEN 0 ELSE HighestId(vfos)) + 1, freq, TRUE, TRUE, FALSE))

Allocated(vfos, freq, bank) ==
    LET near  == Near(vfos, freq, AtLeast(bank.bw, AtLeast(device.rate \div FftSize, 1)))
        found == IF near # {} THEN near ELSE FreeOnes(vfos)
    IN  CASE AllowsVfos(bank) /\ found # {} -> [vfos EXCEPT ![First(found)] = Caught(@, freq)]
          [] found = {} /\ RoomFor(vfos, bank) -> HitSlot(vfos, freq)
          [] OTHER -> vfos

\* mutant: every signal starts a full hold
ExtendedForever(l, bank) ==
    [l EXCEPT !.held = IF @ = -1 THEN 0 ELSE @, !.left = bank.hold]

\* a signal extends the hold, up to HoldMax after the first one
Extended(l, bank) ==
    LET since == IF l.held = -1 THEN 0 ELSE l.held
    IN  [l EXCEPT !.held = since, !.left = AtMost(bank.hold, HoldMax - since)]

NoPeak ==
    /\ loop.frame.air = {}
    /\ loop' = [loop EXCEPT !.pc = "measure", !.candidate = NoFreq, !.seen = 0]
    /\ UNCHANGED runtime

Peak(channel) ==
    LET bank     == loop.bank
        detected == Seen(channel)
        freq     == StableChannel(bank, detected, StepHz)
    IN \E known \in {loop.blacklist, lockouts} :       \* reloaded every 500 ms
         LET ignored == \/ IsDcRejected(detected, device.center, device.rate, FftSize, DcReject)
                        \/ IsLockedOut(freq, known, bank.bw)
             same    == /\ loop.candidate # NoFreq
                        /\ Distance(loop.candidate, freq) <= ChannelRadius(bank.bw)
             next    == IF ignored THEN NoFreq ELSE IF same THEN loop.candidate ELSE freq
             seen    == IF ~ ignored /\ same THEN loop.seen ELSE 0
             hit     == ~ ignored /\ CandidateConfirmed(next, freq, bank.bw, seen, ConfirmFrames)
             base    == [loop EXCEPT !.pc = "measure", !.candidate = next, !.seen = seen,
                                     !.blacklist = known]
         IN /\ runtime' = IF hit THEN [runtime EXCEPT !.vfos = Allocated(@, freq, bank)]
                          ELSE runtime
            /\ loop' = IF hit /\ bank.hold > 0 THEN Extended(base, bank) ELSE base

Hit ==
    /\ loop.pc = "hit"
    /\ NoPeak \/ \E channel \in loop.frame.air : Peak(channel)
    /\ UNCHANGED <<device, queue, lockouts, request, budget, skipped>>

\* a VFO outside the window is measured on the window's last bin
Strong(freq) ==
    LET half == device.rate \div 2
        at   == Clamp(freq, Monus(device.center, half), device.center + half)
    IN  \E f \in loop.frame.air : Distance(at, Seen(f)) <= ChannelRadius(loop.bank.bw)

Measured(v, silent) ==
    [v EXCEPT !.open = /\ Strong(v.freq) \/ (loop.frame.fading /\ v.open)
                       /\ v.id \notin silent]

Readings(vfos, silent) == ForAllVfos(vfos, LAMBDA v : Measured(v, silent))

Measure ==
    /\ loop.pc = "measure"
    \* with scan_hold_on_audio a VFO being listened to also needs audio
    /\ \E silent \in IF HoldOnAudio
                     THEN SUBSET {runtime.vfos[i].id : i \in DOMAIN runtime.vfos} ELSE {{}} :
         LET vfos    == Readings(runtime.vfos, silent)
             present == OnSignal(vfos) # {}
             base    == [loop EXCEPT !.pc = "decide", !.frame = Silence]
             started == IF ~ present THEN base
                        ELSE IF loop.bank.hold > 0 THEN Extended(base, loop.bank)
                        ELSE [base EXCEPT !.held = IF @ = -1 THEN 0 ELSE @]
             holding == started.left > 0
         IN /\ runtime' = [runtime EXCEPT !.vfos = vfos, !.holding = holding]
            /\ loop' = IF present \/ holding THEN started
                       ELSE [started EXCEPT !.held = -1, !.left = 0]
    /\ UNCHANGED <<device, queue, lockouts, request, budget, skipped>>

(***************************************************************************)
(* Moving on.  The decision reads the lock and the hold under the mutex    *)
(* and lets go of it; the device is then tuned and the VFOs released.      *)
(***************************************************************************)
\* mutant: the hold does not keep the window
ShouldSweepAnyway ==
    /\ ~ runtime.locked
    /\ \/ loop.force
       \/ loop.dwell = 0 /\ Monus(loop.bank.end, loop.bank.start) > Usable
       \/ loop.dwell = 0 /\ Len(loop.cycle) > 1

ShouldSweep ==
    /\ ~ runtime.locked /\ ~ runtime.holding
    /\ \/ loop.force
       \/ /\ loop.dwell = 0
          /\ \/ Monus(loop.bank.end, loop.bank.start) > Usable
             \/ Len(loop.cycle) > 1

Decide ==
    /\ loop.pc = "decide"
    /\ loop' = [loop EXCEPT !.pc = "apply",
                  !.step = IF ShouldSweep
                           THEN NextScanStep(loop.bank, loop.cycle, device.center, Usable)
                           ELSE StayHere]
    /\ UNCHANGED <<runtime, device, queue, lockouts, request, budget, skipped>>

\* the end of a turn: one frame passes
NextTurn(l) ==
    [l EXCEPT !.pc = "commands", !.step = StayHere, !.force = FALSE,
       !.left = Monus(@, 1), !.dwell = Monus(@, 1),
       !.held = IF @ = -1 THEN -1 ELSE AtMost(@ + 1, HoldMax),
       !.seen = IF l.candidate = NoFreq THEN 0 ELSE AtMost(@ + 1, ConfirmFrames)]

ApplyStay ==
    /\ loop.pc = "apply" /\ loop.step.kind = "stay"
    /\ loop' = NextTurn(loop)
    /\ UNCHANGED <<runtime, device, queue, lockouts, request, budget, skipped>>

ApplyRetune ==
    /\ loop.pc = "apply" /\ loop.step.kind = "retune"
    /\ LET next == loop.step.center
           dwelling(l) == [l EXCEPT !.dwell = SettleDwell(loop.bank)]
       IN \/ /\ TuneOk(next)
             /\ device' = [device EXCEPT !.center = next]
             /\ runtime' = [runtime EXCEPT !.holding = FALSE,
                                           !.vfos = ForAllVfos(@, Released)]
             /\ loop' = NextTurn(dwelling(Rested(loop)))
          \/ /\ TuneFails(next)
             /\ loop' = NextTurn(dwelling(loop))
             /\ UNCHANGED <<device, runtime>>
    /\ UNCHANGED <<queue, lockouts, request, budget, skipped>>

\* set_sample_contract: its failure is ignored here, its success outlives a
\* failure of the tuning call
Contracts(asked) == IF DeviceMayFail THEN {asked, device.rate} ELSE {asked}

ApplySwitch ==
    /\ loop.pc = "apply" /\ loop.step.kind = "switch"
    /\ LET bank == loop.step.bank IN
       \E rate \in Contracts(AtLeast(device.rate, bank.rate)) :
         LET center == InitialScanCenter(bank, UsableSpan(rate, rate)) IN
         \/ /\ TuneOk(center)
            /\ device' = [center |-> center, rate |-> rate]
            /\ runtime' = [runtime EXCEPT !.bank = bank.name, !.holding = FALSE,
                             !.locked = FALSE, !.vfos = StarterVfos(bank, center)]
            /\ loop' = NextTurn([Rested(loop) EXCEPT !.bank = bank,
                                                     !.dwell = SettleDwell(bank)])
         \/ /\ TuneFails(center)
            /\ device' = [device EXCEPT !.rate = rate]
            /\ loop' = NextTurn(loop)
            /\ UNCHANGED runtime
    /\ UNCHANGED <<queue, lockouts, request, budget, skipped>>

Loop ==
    \/ Commands \/ TakeFrame \/ Hit \/ Measure \/ Decide
    \/ ApplyStay \/ ApplyRetune \/ ApplySwitch

(***************************************************************************)
(* Handlers.  send_command drops the command, with a warning, when the     *)
(* channel is full; the handler answers all the same.                      *)
(***************************************************************************)
\* mutant: an unbounded command channel
SentAlways(c) == queue' = Append(queue, c)

Sent(c) == queue' = IF Len(queue) < QueueCap THEN Append(queue, c) ELSE queue

Offered(kind) ==
    /\ kind \in Requests /\ request = NoRequest
    /\ budget > 0 /\ budget' = budget - 1

Asks(kind, c) ==
    /\ Offered(kind)
    /\ Sent(c)
    /\ UNCHANGED <<runtime, loop, device, lockouts, request, skipped>>

ScanLock ==
    /\ Offered("lock")
    /\ runtime' = [runtime EXCEPT !.locked = TRUE]
    /\ UNCHANGED <<loop, device, queue, lockouts, request, skipped>>

ScanUnlock == Asks("unlock", [cmd |-> "resume"])
ScanSkip   == Asks("skip", [cmd |-> "skip"])
ScanStop   == Asks("stop", [cmd |-> "stop"])

KnownIds == {runtime.vfos[i].id : i \in DOMAIN runtime.vfos}

VfoAdd(freq) ==
    /\ runtime.running /\ Len(runtime.vfos) < MaxVfos
    /\ freq # NoFreq => Distance(freq, device.center) <= UsableHalf(device.rate)
    /\ Asks("add", [cmd |-> "add", freq |-> freq])

VfoRemove(id) == Asks("remove", [cmd |-> "remove", id |-> id])
VfoLock(id, on) ==
    Asks("lock_vfo", [cmd |-> "lock_vfo", id |-> id, on |-> on])
SpectrumView(full) == Asks("view", [cmd |-> "view", full |-> full])
ScannerPan(center) == Asks("pan", [cmd |-> "pan", center |-> center])

BlacklistAdd(freq) ==
    /\ Offered("blacklist")
    /\ lockouts' = lockouts \cup {freq}
    /\ UNCHANGED <<runtime, loop, device, queue, request, skipped>>

BlacklistRemove(gone) ==
    /\ Offered("blacklist")
    /\ lockouts' = lockouts \ gone
    /\ skipped' = skipped \ gone
    /\ UNCHANGED <<runtime, loop, device, queue, request>>

\* scan_start: tune the device for the bank, then queue the command
ScanStart(plan) ==
    /\ Offered("start")
    /\ LET rate   == AtLeast(BootRate, plan.bank.rate)
           center == InitialScanCenter(plan.bank, UsableSpan(rate, rate))
       IN \/ /\ TuneOk(center)
             /\ device' = [center |-> center, rate |-> rate]
             /\ request' = [op |-> "start", plan |-> plan]
          \/ /\ TuneFails(center)
             /\ device' = [device EXCEPT !.rate = rate]
             /\ UNCHANGED request
          \/ DeviceMayFail /\ UNCHANGED <<device, request>>     \* no contract
    /\ UNCHANGED <<runtime, loop, queue, lockouts, skipped>>

ScanStartSends ==
    /\ request.op = "start"
    /\ Sent([cmd |-> "start", bank |-> request.plan.bank, cycle |-> request.plan.cycle])
    /\ request' = NoRequest
    /\ UNCHANGED <<runtime, loop, device, lockouts, skipped, budget>>

\* device_frequency and vfo_frequency: lock the sweep, tune, then queue the
\* commands; vfo_frequency (id given) tunes only to leave the window
TuneRequest(freq, id) ==
    /\ Offered("tune")
    /\ runtime' = [runtime EXCEPT !.locked = TRUE]
    /\ LET away == \/ id = -1
                   \/ Distance(freq, device.center) > UsableHalf(device.rate)
       IN request' = [op |-> IF away THEN "tune" ELSE "place", freq |-> freq, id |-> id]
    /\ UNCHANGED <<loop, device, queue, lockouts, skipped>>

TuneDevice ==
    /\ request.op = "tune"
    /\ \/ /\ TuneOk(request.freq)
          /\ device' = [device EXCEPT !.center = request.freq]
          /\ request' = [request EXCEPT !.op = "follow"]
       \/ /\ TuneFails(request.freq)
          /\ request' = NoRequest
          /\ UNCHANGED device
    /\ UNCHANGED <<runtime, loop, queue, lockouts, skipped, budget>>

FollowManualRetune ==
    /\ request.op = "follow"
    /\ Sent([cmd |-> "follow", center |-> device.center,
             bank |-> PickBank(ConfigBanks, device.center, runtime.bank)])
    /\ request' = IF request.id = -1 THEN NoRequest ELSE [request EXCEPT !.op = "place"]
    /\ UNCHANGED <<runtime, loop, device, lockouts, skipped, budget>>

PlaceVfo ==
    /\ request.op = "place"
    /\ Sent([cmd |-> "place", id |-> request.id, freq |-> request.freq])
    /\ request' = NoRequest
    /\ UNCHANGED <<runtime, loop, device, lockouts, skipped, budget>>

Operators ==
    \/ ScanLock \/ ScanUnlock \/ ScanSkip \/ ScanStop
    \/ \E freq \in Tunes \cup {NoFreq} : VfoAdd(freq)
    \/ \E id \in KnownIds : VfoRemove(id)
    \/ \E id \in KnownIds, on \in BOOLEAN : VfoLock(id, on)
    \/ \E full \in BOOLEAN : SpectrumView(full)
    \/ \E center \in Tunes : ScannerPan(center)
    \/ \E freq \in Channels : BlacklistAdd(freq)
    \/ \E gone \in SUBSET lockouts : BlacklistRemove(gone)
    \/ \E plan \in Plans : ScanStart(plan)
    \/ ScanStartSends
    \/ \E freq \in Tunes, id \in KnownIds \cup {-1} : TuneRequest(freq, id)
    \/ TuneDevice \/ FollowManualRetune \/ PlaceVfo

Next == Loop \/ Operators

Spec == Init /\ [][Next]_vars

(***************************************************************************)
(* Properties.                                                             *)
(***************************************************************************)
VfoType == [id : Nat, freq : Nat, locked : BOOLEAN, open : BOOLEAN,
            placed : BOOLEAN]

\* Every variable keeps its type; the stage of the loop is one of the five
\* between two commands, and a scan that runs has a bank.
TypeOK ==
    /\ runtime.vfos \in Seq(VfoType) /\ runtime.running \in BOOLEAN
    /\ runtime.locked \in BOOLEAN /\ runtime.holding \in BOOLEAN
    /\ loop.pc \in {"commands", "hit", "measure", "decide", "apply"}
    /\ loop.held \in -1 .. HoldMax /\ loop.left \in Nat /\ loop.dwell \in Nat
    /\ device.center \in DevMin .. DevMax
    /\ Len(queue) <= QueueCap
    /\ lockouts \subseteq Nat /\ skipped \subseteq lockouts
    /\ runtime.running => loop.bank # NoBank

\* The VFO list never grows past cfg.max_vfos and its ids stay distinct, through
\* every mix of hits, operator slots, removals, skips and changes of bank: the
\* id is the only handle the HTTP API has on a slot.
SlotsDistinct ==
    /\ Len(runtime.vfos) <= MaxVfos
    /\ \A i, j \in DOMAIN runtime.vfos : runtime.vfos[i].id = runtime.vfos[j].id => i = j

\* "The audio and identify paths assume a selected VFO exists while a bank is
\* active" (scanner.rs:1120): a running bank that may have VFOs has one, and
\* the bank the other threads read is the one the loop works on.
RunningBankHasVfo ==
    runtime.running =>
        /\ runtime.bank = loop.bank.name
        /\ MaxVfos > 0 /\ (\A b \in PlannedBanks : b.maxVfos > 0) => runtime.vfos # <<>>

\* A frequency the operator skipped is not hit again while it stays in the
\* blacklist, although the loop works on a copy it reloads twice a second: no
\* frame puts a VFO on a channel within half a channel of it.
SkippedStaysQuiet ==
    [][Hit => \A i \in DOMAIN runtime'.vfos :
         \/ i \in DOMAIN runtime.vfos /\ runtime'.vfos[i] = runtime.vfos[i]
         \/ ~ IsLockedOut(runtime'.vfos[i].freq, skipped, loop.bank.bw)]_vars

\* The sweep does not walk away from a signal: when it moves the window, either
\* no VFO sits on an open signal, or the longest hold is over, or the bank asks
\* for no hold.  Handlers may change the VFOs between the decision and the move.
SweepRespectsSignal ==
    [][ApplyRetune \/ ApplySwitch =>
         \/ OnSignal(runtime.vfos) = {}
         \/ loop.held >= HoldMax
         \/ loop.bank.hold = 0]_vars

\* "Operator-placed slots must not be recycled by the sweep's hit allocator"
\* (scanner.rs:1105): a hit moves a slot an operator added by no more than the
\* width that makes it the same channel.  The code breaks this once the window
\* has moved (README, "Known disagreements"), so no run asks for it.
OperatorSlotKept ==
    [][Hit => \A i \in DOMAIN runtime.vfos :
         runtime.vfos[i].placed =>
             Distance(runtime'.vfos[i].freq, runtime.vfos[i].freq)
                 <= AtLeast(loop.bank.bw, AtLeast(device.rate \div FftSize, 1))]_vars

(***************************************************************************)
(* Progress.  The loop is a task of its own that never waits for a         *)
(* handler, so its stages are weakly fair; handlers owe nothing, except    *)
(* that one that started runs to its end.                                  *)
(***************************************************************************)
Fairness ==
    /\ WF_vars(Commands) /\ WF_vars(TakeFrame) /\ WF_vars(Hit) /\ WF_vars(Measure)
    /\ WF_vars(Decide) /\ WF_vars(ApplyStay) /\ WF_vars(ApplyRetune) /\ WF_vars(ApplySwitch)
    /\ WF_vars(ScanStartSends \/ TuneDevice \/ FollowManualRetune \/ PlaceVfo)

LiveSpec == Spec /\ Fairness

\* the operators leave a running scan alone, unlocked
LeftAlone == runtime.running /\ ~ runtime.locked /\ queue = <<>> /\ request = NoRequest

Moves ==
    /\ runtime.running /\ runtime'.running
    /\ device'.center # device.center \/ loop'.bank # loop.bank

\* The bank fits in the window, and no other follows it: it is alone in its
\* cycle, or outside it (an operator has tuned there), or it is taken for an
\* earlier one of its name and followed by itself.
NowhereToGo ==
    /\ loop.bank # NoBank
    /\ Monus(loop.bank.end, loop.bank.start) <= Usable
    /\ NextCycleBank(loop.bank.name, loop.cycle) \in {NoBank, loop.bank}

\* A scan that is left alone keeps moving, whatever is on the air: however
\* persistent the signals, a hold ends and the window goes on.
SweepGoesOn == <>[](LeftAlone /\ ~ NowhereToGo) => []<><<Moves>>_vars

Twins(cycle) ==
    {t \in (DOMAIN cycle) \X (DOMAIN cycle) : t[1] < t[2] /\ cycle[t[1]].name = cycle[t[2]].name}

\* "Extra banks visited after the current window wraps" (scanner.rs:196): a scan
\* left alone in a bank of its cycle visits each bank of it again and again.
\* Where two banks have one name, as bookmarks of one label do, only those
\* behind the first of them up to the second are owed: the sweep that finishes
\* the second goes on behind the first (scanner.rs:323).
CycleVisited ==
    \A plan \in Plans : \A i \in DOMAIN plan.cycle :
        /\ \A twin \in Twins(plan.cycle) : twin[1] < i /\ i <= twin[2]
        /\ <>[](LeftAlone /\ loop.cycle = plan.cycle
                          /\ \E k \in DOMAIN plan.cycle : plan.cycle[k].name = loop.bank.name)
        => []<>(loop.bank = plan.cycle[i])
=============================================================================
