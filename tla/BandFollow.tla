----------------------------- MODULE BandFollow -----------------------------
(***************************************************************************)
(* The bank the scanner works in follows the radio.  Clients retune (a     *)
(* receiver tune, a device frequency, a VFO placed outside the window):    *)
(* the radio moves at once, the bank is looked up from what the client     *)
(* then reads, and a FollowRetune command waits in the scanner's queue.    *)
(* Meanwhile the scanner cycles through the enabled banks on its own, and  *)
(* the operator edits, deletes, enables and imports banks, each edit saved *)
(* to config.toml, which a restart merges with the built-in table.         *)
(*                                                                         *)
(* A request is a record of its own steps:                                 *)
(*   idle -> tuned (the radio moved) -> chosen (status, active bank and    *)
(*   configuration read) -> idle (the commands are queued).                *)
(***************************************************************************)
EXTENDS BandPlan

CONSTANTS
    Clients,
    Points,          \* frequencies a client tunes to
    Written,         \* banks the operator creates or imports
    Touched,         \* names the operator deletes or enables
    Shipped,         \* the built-in banks: those of BuiltIn the run can meet
    Saved,           \* what config.toml may hold when the process starts
    MaxRequests      \* retunes, edits and restarts

VARIABLES
    ranges,          \* config.scan_ranges
    disk,            \* scan_ranges in config.toml
    radio, rate,     \* the device's centre and sample rate
    active,          \* the scanner's copy of the bank it works in
    locked,          \* scan_locked
    vfo,             \* the monitoring VFO: its frequency and mode
    queue,           \* commands the scanner has not taken yet
    cycle,           \* the banks a scan of all enabled banks goes through
    step,            \* the bank the scanner decided to switch to
    request,         \* per client, how far its retune is
    requests,
    edited,          \* the operator changed banks since the process began
    overlapped,      \* the retunes since all was quiet disturbed each other
    left,            \* the bank that was active when the last retune began
    wish             \* per name, what the operator last made of the bank

follow == <<radio, rate, active, locked, vfo, queue, cycle, step, request,
            overlapped, left>>
config == <<ranges, disk, edited, wish>>
bandVars == <<follow, config, requests>>

Idle == [phase |-> "idle", center |-> 0, range |-> NoBand, vfoTo |-> 0]

\* The scanner started in a bank, with the monitoring VFO at the centre.
StartedIn(band, center) ==
    /\ active' = band
    /\ vfo' = [freq |-> center, mode |-> band.mode]
    /\ locked' = FALSE

BandInit ==
    /\ disk \in Saved /\ ranges = Merged(disk, Shipped)
    /\ active = DefaultRange(ranges)
    /\ rate = active.rate
    /\ radio = InitialCenter(active, rate)
    /\ vfo = [freq |-> radio, mode |-> active.mode]
    /\ locked = FALSE
    /\ queue = <<>> /\ cycle = <<>> /\ step = NoBand
    /\ request = [c \in Clients |-> Idle]
    /\ requests = 0 /\ edited = FALSE
    /\ overlapped = FALSE /\ left = active /\ wish = <<>>

AllIdle == \A c \in Clients : request[c].phase = "idle"
Counted == requests < MaxRequests /\ requests' = requests + 1

Quiet == queue = <<>> /\ step = NoBand /\ AllIdle

\* 45 % of the sample rate on either side of the centre can be channelized.
InWindow(f) == LET away == IF f > radio THEN f - radio ELSE radio - f
               IN  away <= (rate * 45) \div 100

(***************************************************************************)
(* Retunes                                                                 *)
(***************************************************************************)

Tunes(c, f, request_) ==
    /\ request[c].phase = "idle" /\ Counted
    /\ radio' = f
    /\ request' = [request EXCEPT ![c] = request_]
    /\ overlapped' = ~Quiet
    /\ left' = active
    /\ UNCHANGED <<config, rate, active, vfo, queue, cycle, step>>

\* receiver_tune_v2 leaves the scan running, device_frequency holds it.
TuneReceiver(c, f) == Tunes(c, f, [Idle EXCEPT !.phase = "tuned"]) /\ UNCHANGED locked
TuneDevice(c, f) == Tunes(c, f, [Idle EXCEPT !.phase = "tuned"]) /\ locked' = TRUE

PlaceVfoOutside(c, f) ==
    /\ ~InWindow(f)
    /\ Tunes(c, f, [Idle EXCEPT !.phase = "tuned", !.vfoTo = f])
    /\ locked' = TRUE

PlaceVfoInside(c, f) ==
    /\ InWindow(f) /\ request[c].phase = "idle" /\ Counted
    /\ locked' = TRUE
    /\ queue' = Append(queue, [kind |-> "SetVfoFrequency", freq |-> f])
    /\ overlapped' = (overlapped \/ ~Quiet)
    /\ UNCHANGED <<config, radio, rate, active, vfo, cycle, step, request, left>>

\* follow_manual_retune: the centre, the active bank and the configuration.
ChooseBank(c) ==
    /\ request[c].phase = "tuned"
    /\ request' = [request EXCEPT
                      ![c].phase = "chosen", ![c].center = radio,
                      ![c].range = PickRange(ranges, radio, active.name)]
    /\ UNCHANGED <<config, radio, rate, active, locked, vfo, queue, cycle, step,
                   overlapped, left, requests>>

SendFollow(c) ==
    /\ request[c].phase = "chosen"
    /\ queue' = Append(queue, [kind |-> "FollowRetune", center |-> request[c].center,
                               range |-> request[c].range])
                \o IF request[c].vfoTo = 0 THEN <<>>
                   ELSE <<[kind |-> "SetVfoFrequency", freq |-> request[c].vfoTo]>>
    /\ request' = [request EXCEPT ![c] = Idle]
    /\ UNCHANGED <<config, radio, rate, active, locked, vfo, cycle, step, overlapped,
                   left, requests>>

(***************************************************************************)
(* The scanner takes a command                                             *)
(***************************************************************************)

\* The scanner's own copy is replaced only by a bank of another name.
FollowedBank(bank, range) == IF range.name \in {"none", bank.name} THEN bank ELSE range

\* A wrong rule: the slots stay where they are.
StaysPut(center, band) == vfo

\* Slots the new window does not reach move to its centre and take the bank's mode.
Rehomed(center, band) ==
    IF (IF vfo.freq > center THEN vfo.freq - center ELSE center - vfo.freq)
            > (rate * 45) \div 100
    THEN [freq |-> center, mode |-> band.mode]
    ELSE vfo

FollowRetune ==
    /\ step = NoBand /\ queue # <<>> /\ Head(queue).kind = "FollowRetune"
    /\ active' = FollowedBank(active, Head(queue).range)
    /\ vfo' = Rehomed(Head(queue).center, active')
    /\ queue' = Tail(queue)
    /\ UNCHANGED <<config, radio, rate, locked, cycle, step, request,
                   overlapped, left, requests>>

SetVfoFrequency ==
    /\ step = NoBand /\ queue # <<>> /\ Head(queue).kind = "SetVfoFrequency"
    /\ vfo' = [vfo EXCEPT !.freq = Head(queue).freq]
    /\ locked' = TRUE
    /\ queue' = Tail(queue)
    /\ UNCHANGED <<config, radio, rate, active, cycle, step, request,
                   overlapped, left, requests>>

(***************************************************************************)
(* A scan of all enabled banks                                             *)
(***************************************************************************)

ScanEnabled ==
    /\ Quiet /\ cycle = <<>> /\ Enabled(ranges) # <<>>
    /\ LET band == Head(Enabled(ranges))
           needed == IF rate > band.rate THEN rate ELSE band.rate
           center == InitialCenter(band, (needed * 9) \div 10)
       IN  rate' = needed /\ radio' = center /\ StartedIn(band, center)
    /\ cycle' = Enabled(ranges)
    /\ left' = active'
    /\ UNCHANGED <<config, queue, step, request, overlapped, requests>>

NextCycleRange ==
    LET at == CHOOSE i \in DOMAIN cycle : cycle[i].name = active.name
    IN  cycle[(at % Len(cycle)) + 1]

\* The step is decided while nothing holds the scan ...
DecideSwitch ==
    /\ step = NoBand /\ queue = <<>> /\ ~locked
    /\ Len(cycle) >= 2 /\ active.name \in Names(cycle)
    /\ step' = NextCycleRange
    /\ UNCHANGED <<config, radio, rate, active, locked, vfo, queue, cycle, request,
                   overlapped, left, requests>>

\* ... and taken whatever has happened since.
SwitchRange ==
    /\ step # NoBand
    /\ rate' = IF rate > step.rate THEN rate ELSE step.rate
    /\ radio' = InitialCenter(step, (rate' * 9) \div 10)
    /\ StartedIn(step, radio')
    /\ step' = NoBand
    /\ overlapped' = (overlapped \/ queue # <<>> \/ ~AllIdle)
    /\ left' = active'
    /\ UNCHANGED <<config, queue, cycle, request, requests>>

(***************************************************************************)
(* The operator edits the banks                                            *)
(***************************************************************************)

Edited(new, wishes) ==
    /\ Counted
    /\ edited' = TRUE
    /\ ranges' = new /\ disk' = new
    /\ wish' = wishes
    /\ overlapped' = TRUE
    /\ UNCHANGED <<radio, rate, active, locked, vfo, queue, cycle, step, request,
                   left>>

\* What the operator has made of banks, by name.
Wishing(made) ==
    [name \in DOMAIN wish \cup DOMAIN made |->
        IF name \in DOMAIN made THEN made[name] ELSE wish[name]]

CreateBank(band) == Edited(Created(ranges, band), Wishing([name \in {band.name} |-> band]))
\* Of two imported banks of one name the later stays.
ImportBanks(bands) ==
    LET last(name) == CHOOSE i \in DOMAIN bands :
                         /\ bands[i].name = name
                         /\ \A j \in DOMAIN bands : bands[j].name = name => j <= i
    IN  Edited(Imported(ranges, bands), Wishing([name \in Names(bands) |-> bands[last(name)]]))
DeleteBank(name) ==
    /\ name \in Names(ranges)
    /\ Edited(Without(ranges, name), Wishing([n \in {name} |-> NoBand]))
EnableBank(name, on) ==
    /\ name \in Names(ranges)
    /\ Edited(SetEnabled(ranges, name, on),
              Wishing([n \in {name} |-> [BandNamed(ranges, name) EXCEPT !.enabled = on]]))

\* The process is started again: the file is read and merged, the radio and
\* the scanner start over in the default bank.
Restart ==
    /\ Counted
    /\ ranges' = Merged(disk, Shipped)
    /\ LET band == DefaultRange(ranges')
           center == InitialCenter(band, band.rate)
       IN  rate' = band.rate /\ radio' = center /\ StartedIn(band, center)
    /\ queue' = <<>> /\ cycle' = <<>> /\ step' = NoBand
    /\ request' = [c \in Clients |-> Idle]
    /\ overlapped' = FALSE /\ left' = active'
    /\ UNCHANGED <<disk, edited, wish>>

BandNext ==
    \/ \E c \in Clients, f \in Points :
          TuneReceiver(c, f) \/ TuneDevice(c, f) \/ PlaceVfoOutside(c, f)
              \/ PlaceVfoInside(c, f)
    \/ \E c \in Clients : ChooseBank(c) \/ SendFollow(c)
    \/ FollowRetune \/ SetVfoFrequency
    \/ ScanEnabled \/ DecideSwitch \/ SwitchRange
    \/ \E b \in Written : CreateBank(b)
    \/ \E a, b \in Written : ImportBanks(<<a, b>>)
    \/ \E name \in Touched : DeleteBank(name) \/ \E on \in BOOLEAN : EnableBank(name, on)
    \/ Restart

(***************************************************************************)
(* Properties                                                              *)
(***************************************************************************)

Settled == Quiet /\ ~overlapped

\* Banks are looked up by name: the one in force is the configuration's
\* bank of the active name, or the scanner's older copy of it.
BankHoldsRadio ==
    (\E i \in DOMAIN ranges : Holds(ranges[i], radio))
        => \/ Holds(active, radio)
           \/ \E i \in DOMAIN ranges : ranges[i].name = active.name /\ Holds(ranges[i], radio)

\* Where a narrower allocation of the built-in table hides a service's bank:
\* the pagers' first half, Bluetooth below 2450 MHz, the edge at 450 MHz.
Hidden ==
    [pocsag |-> 4540000..4580000, ble |-> 24000000..24500000, lora |-> {4500000}]

\* Enabled banks are preferred to all others.
Promised(banks, f) ==
    LET holding == {i \in DOMAIN banks : Holds(banks[i], f)}
        enabled == {i \in holding : banks[i].enabled}
    IN  IF enabled # {} THEN enabled ELSE holding

\* In this bank the decoders of every service at f are fed.
Serves(banks, bank, f) ==
    \A i \in Promised(banks, f) : \A d \in Feeds(banks[i], f) :
        \/ d \in Feeds(bank, f)
        \/ d \in DOMAIN Hidden /\ f \in Hidden[d]

\* A retune that leaves the bank it was in reaches the decoder of every
\* service whose bank holds the new frequency.
ServiceSelected == ~edited /\ ~Holds(left, radio) => Serves(ranges, active, radio)

\* What that asks of a table of banks alone: from whatever bank a retune leaves,
\* the one it comes to serves the point it goes to.
TableServes(banks, points) ==
    \A i \in DOMAIN banks, f \in points :
        ~Holds(banks[i], f) =>
            Serves(banks, FollowedBank(banks[i], PickRange(banks, f, banks[i].name)), f)
TablesServe == \A saved \in Saved : TableServes(Merged(saved, Shipped), Points)

\* When all is quiet after retunes that did not overlap, the scanner works in
\* a bank that holds the radio, the decoders of the service there are fed,
\* and the VFO is inside the window (api.rs, follow_manual_retune).
RetuneSettles == Settled => BankHoldsRadio /\ ServiceSelected /\ InWindow(vfo.freq)

\* Whatever the operator made of a bank is what the receiver has, also after
\* a restart merged the saved list with the built-in one.  Deleting a bank
\* the program ships is the exception: the merge brings it back.
OperatorBanksSurvive ==
    \A name \in DOMAIN wish :
        IF wish[name] # NoBand
        THEN name \in Names(ranges) /\ BandNamed(ranges, name) = wish[name]
        ELSE name \in Names(Shipped) \/ name \notin Names(ranges)
=============================================================================
