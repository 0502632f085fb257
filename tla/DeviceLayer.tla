---------------------------- MODULE DeviceLayer ----------------------------
(***************************************************************************)
(* The device layer (device.rs, DeviceLayer), the capture threads that     *)
(* read from it (capture.rs, CaptureWorker), the requests that connect,    *)
(* tune and play back (api.rs), and the supervisor that looks for a radio  *)
(* and restarts the flow (state.rs).                                       *)
(*                                                                         *)
(* The layer has no lock of its own: the open radio, the network source,   *)
(* the key of the last device and the status are guarded one by one, and   *)
(* every method is a walk over some of them.  An action is one such        *)
(* critical section; at[a] is where actor a is in its walk.  A capture     *)
(* thread is one of the actors: after a row of failed reads it recovers    *)
(* the device itself.                                                      *)
(*                                                                         *)
(* A capture thread belongs to a scanner.  A connect takes the scanner     *)
(* down first and has it started again when the device is connected        *)
(* afterwards; an abort does not wait for the thread, which finishes what  *)
(* it is about: one in the middle of a read or a recovery is still there.  *)
(* Who else holds the tuner, and how the steps of ensure_receiver_flow     *)
(* overlap, is the subject of ReceiverFlow: here the flow is one step.     *)
(*                                                                         *)
(* RF settings are abstracted to contract, which counts the settings that  *)
(* requests have tuned to: a sample is the number of the settings it was   *)
(* taken under.  What a connect or the start of the flow sets is left out, *)
(* for nothing is flushed after it.                                        *)
(***************************************************************************)
EXTENDS IqRing, FiniteSets

CONSTANTS
    Clients,    \* requests that may be in progress together
    Threads,    \* bound: capture threads that may be there together
    NoThread,   \* in place of a thread: no scanner
    Rings,      \* the consumers: audio takes in order, the others latest only
    Latest,     \* those of Rings that are latest_only
    Chunk,      \* samples per read
    MaxErrors,  \* 8: failed reads in a row before a recovery
    MaxEvents   \* bound: requests made and things broken by the environment

ASSUME DeviceAssumption ==
    /\ Latest \subseteq Rings
    /\ Chunk \in 1 .. Capacity - 1
    /\ MaxErrors \in Nat \ {0}
    /\ NoThread \notin Threads

Supervisor == "supervisor"
Actors == Clients \cup Threads \cup {Supervisor}
Keys == {"mock", "radio", "network"}

VARIABLES
    status,     \* DeviceStatus: connected, lifecycle, driver
    lastKey,    \* last_key: what recover goes back to
    hardware,   \* the Soapy device: none, streaming, or open without a stream
    network,    \* whether a network source is being ingested
    contract,   \* the RF settings in force, counted
    playback,   \* none, playing, or at its end
    scanner,    \* the slot: the thread of the scanner in it, if there is one
    queues,     \* what each ring of that scanner holds
    at,         \* the stage of each actor
    tuned,      \* for a request that has retuned: the settings it brought about
    paused,     \* the requests that have taken a scanner down
    chunk,      \* what each thread has read and not yet pushed
    errors,     \* its failed reads in a row, up to MaxErrors
    works,      \* environment: which of the radio and the network answer
    events,     \* bound: how many there were
    flushed     \* history: the newest settings some request flushed after

layer == <<status, lastKey, hardware, network>>
slot == <<scanner, queues, paused>>
threads == <<chunk, errors>>
vars == <<layer, contract, playback, slot, at, tuned, threads, works, events, flushed>>

TypeOK ==
    /\ status \in [connected : BOOLEAN, driver : Keys,
                   lifecycle : {"probing", "configuring", "streaming", "degraded",
                                "recovering", "disconnected"}]
    /\ lastKey \in Keys
    /\ hardware \in {"none", "streaming", "closed"}
    /\ network \in BOOLEAN
    /\ contract \in Nat /\ flushed \in 0 .. contract
    /\ playback \in {"none", "playing", "eof"}
    /\ \A r \in Rings : Len(queues[r]) <= Capacity
    /\ scanner \in Threads \cup {NoThread} /\ paused \subseteq Clients
    /\ errors \in [Threads -> 0 .. MaxErrors]

-----------------------------------------------------------------------------
(* auto_connect at boot tries the saved key, then what discovery lists,    *)
(* then the mock source; a listed radio that does not open ends it.  The   *)
(* scanner follows only a device that is connected.                        *)
AutoConnect ==
    \/ /\ lastKey = "radio" /\ hardware = "streaming"
       /\ status = [connected |-> TRUE, lifecycle |-> "streaming", driver |-> "radio"]
    \/ /\ lastKey = "mock" /\ hardware = "none"
       /\ status = [connected |-> TRUE, lifecycle |-> "streaming", driver |-> "mock"]
    \/ /\ lastKey = "radio" /\ hardware = "none"
       /\ status = [connected |-> FALSE, lifecycle |-> "degraded", driver |-> "mock"]

Init ==
    /\ AutoConnect
    /\ network = FALSE
    /\ contract = 0 /\ flushed = 0
    /\ playback = "none"
    /\ scanner = IF status.connected THEN CHOOSE t \in Threads : TRUE ELSE NoThread
    /\ queues = [r \in Rings |-> <<>>]
    /\ at = [a \in Actors |-> "idle"]
    /\ tuned = [c \in Clients |-> 0]
    /\ paused = {}
    /\ chunk = [t \in Threads |-> <<>>] /\ errors = [t \in Threads |-> 0]
    /\ works = [radio |-> TRUE, network |-> TRUE]
    /\ events = 0

Goto(a, stage) == at' = [at EXCEPT ![a] = stage]

(* Another request comes; of the clients that have none it is any one's,   *)
(* for they are alike.                                                     *)
Comes(c) ==
    /\ at[c] = "idle" /\ c = CHOOSE idle \in Clients : at[idle] = "idle"
    /\ events < MaxEvents
    /\ events' = events + 1

(* A call into the driver that may be refused although the radio works:    *)
(* the frequency that reads back wrong, a handle still held.               *)
Refused == events < MaxEvents /\ events' = events + 1

-----------------------------------------------------------------------------
(* Where actor a goes on after a connect: a request has the receiver       *)
(* started, after a failure only if it took a scanner down; the supervisor *)
(* starts it too, or looks at what there is; a capture thread reads again. *)
Succeeds(a) ==
    /\ Goto(a, CASE a \in Clients -> "flow" [] a = Supervisor -> "reapply" [] OTHER -> "idle")
    /\ paused' = paused \ {a}

Fails(a) ==
    /\ Goto(a, CASE a \in paused -> "flow" [] a = Supervisor -> "recheck" [] OTHER -> "idle")
    /\ paused' = paused \ {a}

(* pause_scanner_for_hardware_reconfigure *)
PauseScanner(c) ==
    /\ scanner' = NoThread
    /\ queues' = [r \in Rings |-> <<>>]
    /\ paused' = IF scanner # NoThread THEN paused \cup {c} ELSE paused

(* connect(key), by a request, by the supervisor or by a capture thread's  *)
(* recovery.                                                               *)
ConnectBegins(a, key) ==
    /\ network' = FALSE
    /\ status' = [status EXCEPT !.lifecycle = IF key = "mock" THEN "probing" ELSE "configuring"]
    /\ lastKey' = key
    /\ Goto(a, CASE key = "mock" -> "mock" [] key = "radio" -> "open" [] OTHER -> "refuse")

Connect(c) ==
    \E key \in {"mock", "radio"} :
        /\ Comes(c)
        /\ PauseScanner(c)
        /\ ConnectBegins(c, key)
        /\ UNCHANGED <<hardware, contract, playback, tuned, threads, works, flushed>>

ConnectMock(a) ==
    /\ at[a] = "mock"
    /\ status' = [connected |-> TRUE, lifecycle |-> "streaming", driver |-> "mock"]
    /\ Succeeds(a)
    /\ UNCHANGED <<lastKey, hardware, network, contract, playback, scanner, queues,
                   tuned, threads, works, events, flushed>>

(* Hardware::open cleans up after itself, whichever of its calls fails.    *)
(* A key "network:.." names no radio, so it never opens.                   *)
OpenFails(a) ==
    /\ \/ at[a] = "open" /\ (IF works.radio THEN Refused ELSE UNCHANGED events)
       \/ at[a] = "refuse" /\ UNCHANGED events
    /\ status' = [status EXCEPT !.connected = FALSE, !.lifecycle = "degraded"]
    /\ Fails(a)
    /\ UNCHANGED <<lastKey, hardware, network, contract, playback, scanner, queues,
                   tuned, threads, works, flushed>>

(* apply_safe_defaults fails after the device has been opened: the handle  *)
(* is dropped, the status stays as it was.                                 *)
DefaultsFail(a) ==
    /\ at[a] = "open" /\ works.radio
    /\ Refused
    /\ Fails(a)
    /\ UNCHANGED <<layer, contract, playback, scanner, queues, tuned, threads, works,
                   flushed>>

(* The old handle, if there is one, closes when the new one replaces it.   *)
Open(a) ==
    /\ at[a] = "open" /\ works.radio
    /\ hardware' = "streaming"
    /\ Goto(a, "opened")
    /\ UNCHANGED <<status, lastKey, network, contract, playback, slot, tuned, threads,
                   works, events, flushed>>

Opened(a) ==
    /\ at[a] = "opened"
    /\ status' = [connected |-> TRUE, lifecycle |-> "streaming", driver |-> "radio"]
    /\ Succeeds(a)
    /\ UNCHANGED <<lastKey, hardware, network, contract, playback, scanner, queues,
                   tuned, threads, works, events, flushed>>

(* disconnect: the status follows in a section of its own. *)
Disconnect(c) ==
    /\ Comes(c)
    /\ network' = FALSE
    /\ hardware' = "none"
    /\ Goto(c, "disconnect")
    /\ UNCHANGED <<status, lastKey, contract, playback, slot, tuned, threads, works,
                   flushed>>

Disconnected(c) ==
    /\ at[c] = "disconnect"
    /\ status' = [status EXCEPT !.connected = FALSE, !.lifecycle = "disconnected"]
    /\ Goto(c, "idle")
    /\ UNCHANGED <<lastKey, hardware, network, contract, playback, slot, tuned, threads,
                   works, events, flushed>>

(* set_frequency and set_sample_contract under the radio's lock.  The      *)
(* stream is closed for the change and set up again after it; a failure in *)
(* between leaves the radio open without a stream, one before it leaves    *)
(* the stream.  Without a radio only the status changes.  (A request that  *)
(* is refused counts once.)                                                *)
Sets ==
    IF hardware = "none" THEN UNCHANGED hardware
    ELSE works.radio /\ hardware' = "streaming"

SetFails ==
    /\ hardware # "none" /\ hardware' \in {hardware, "closed"}
    /\ IF works.radio THEN Refused ELSE UNCHANGED events

Retune(c) ==
    /\ Comes(c)
    /\ Sets
    /\ contract' = contract + 1
    /\ tuned' = [tuned EXCEPT ![c] = contract']
    /\ Goto(c, "tuned")
    /\ UNCHANGED <<status, lastKey, network, playback, slot, threads, works, flushed>>

RetuneFails(c) ==
    /\ Comes(c)
    /\ hardware # "none" /\ hardware' \in {hardware, "closed"}
    /\ UNCHANGED <<status, lastKey, network, contract, playback, slot, at, tuned,
                   threads, works, flushed>>

(* set_sample_contract has changed the rate when the bandwidth is refused: *)
(* the caller gets an error and flushes nothing.                           *)
BandwidthFails(c) ==
    /\ at[c] = "tuned" /\ hardware # "none"
    /\ Refused
    /\ Goto(c, "idle")
    /\ tuned' = [tuned EXCEPT ![c] = 0]
    /\ UNCHANGED <<layer, contract, playback, slot, threads, works, flushed>>

(* Faulty variant: what is queued for audio is left to be heard. *)
FlushLatest(c) ==
    /\ at[c] = "tuned"
    /\ queues' = [r \in Rings |-> IF r \in Latest THEN <<>> ELSE queues[r]]
    /\ UNCHANGED <<scanner, paused>>
    /\ flushed' = IF tuned[c] > flushed THEN tuned[c] ELSE flushed
    /\ tuned' = [tuned EXCEPT ![c] = 0]
    /\ Goto(c, "idle")
    /\ UNCHANGED <<layer, contract, playback, threads, works, events>>

(* flush_receiver_buffers, once the device call has returned: the rings of *)
(* the scanner that is in the slot by then.                                *)
Flush(c) ==
    /\ at[c] = "tuned"
    /\ queues' = [r \in Rings |-> Clear([NewRing EXCEPT !.queue = queues[r]]).queue]
    /\ UNCHANGED <<scanner, paused>>
    /\ flushed' = IF tuned[c] > flushed THEN tuned[c] ELSE flushed
    /\ tuned' = [tuned EXCEPT ![c] = 0]
    /\ Goto(c, "idle")
    /\ UNCHANGED <<layer, contract, playback, threads, works, events>>

(* connect_network_source gives the radio up before it knows whether the   *)
(* source answers.                                                         *)
NetworkConnect(c) ==
    /\ Comes(c)
    /\ PauseScanner(c)
    /\ network' = FALSE
    /\ hardware' = "none"
    /\ lastKey' = "network"
    /\ Goto(c, "ingest")
    /\ UNCHANGED <<status, contract, playback, tuned, threads, works, flushed>>

(* A device that is not known, a source of a kind without an adapter or    *)
(* with a port that is none: the scanner has been taken down for nothing.  *)
SelectNothing(c) ==
    /\ Comes(c) /\ scanner # NoThread
    /\ scanner' = NoThread
    /\ queues' = [r \in Rings |-> <<>>]
    /\ Goto(c, "flow")
    /\ UNCHANGED <<layer, contract, playback, paused, tuned, threads, works, flushed>>

NetworkRefuses(c) ==
    /\ at[c] = "ingest" /\ ~works.network
    /\ Fails(c)
    /\ UNCHANGED <<layer, contract, playback, scanner, queues, tuned, threads, works,
                   events, flushed>>

NetworkStarts(c) ==
    /\ at[c] = "ingest" /\ works.network
    /\ network' = TRUE
    /\ Goto(c, "ingesting")
    /\ UNCHANGED <<status, lastKey, hardware, contract, playback, slot, tuned, threads,
                   works, events, flushed>>

NetworkConnected(c) ==
    /\ at[c] = "ingesting"
    /\ status' = [connected |-> TRUE, lifecycle |-> "streaming", driver |-> "network"]
    /\ Succeeds(c)
    /\ UNCHANGED <<lastKey, hardware, network, contract, playback, scanner, queues,
                   tuned, threads, works, events, flushed>>

-----------------------------------------------------------------------------
(* ensure_receiver_flow, by a request or by the supervisor.  Without a     *)
(* connected device, while a recording holds the tuner, or when the rate   *)
(* or the center cannot be set, nothing is started.                        *)
FlowFails(a) ==
    /\ at[a] = "flow"
    /\ IF status.connected /\ playback = "none" THEN SetFails ELSE UNCHANGED <<hardware, events>>
    /\ Goto(a, "idle")
    /\ UNCHANGED <<status, lastKey, network, contract, playback, slot, tuned, threads,
                   works, flushed>>

(* A request lets a scanner that is there go on; the supervisor aborts it. *)
(* A thread that has nothing to finish ends with its scanner, so its name  *)
(* is free for the new one.                                                *)
FlowStarts(a) ==
    /\ at[a] = "flow" /\ status.connected /\ playback = "none"
    /\ Sets
    /\ Goto(a, "idle")
    /\ IF a \in Clients /\ scanner # NoThread THEN UNCHANGED <<slot, threads>>
       ELSE LET new == {t \in Threads : at[t] = "idle"}
            IN /\ new # {}
               /\ scanner' = CHOOSE t \in new : TRUE
               /\ queues' = [r \in Rings |-> <<>>]
               /\ chunk' = [chunk EXCEPT ![scanner'] = <<>>]
               /\ errors' = [errors EXCEPT ![scanner'] = 0]
               /\ UNCHANGED paused
    /\ UNCHANGED <<status, lastKey, network, contract, playback, tuned, works, events,
                   flushed>>

-----------------------------------------------------------------------------
(* The supervisor: while the source is the mock one it looks for a radio,  *)
(* and what it finds it connects; what it saw may be over by then.  A      *)
(* radio that does not answer may or may not be listed.                    *)
Probe ==
    /\ at[Supervisor] = "idle" /\ status.driver = "mock"
    /\ Goto(Supervisor, "probe")
    /\ UNCHANGED <<layer, contract, playback, slot, tuned, threads, works, events,
                   flushed>>

ProbeFinds ==
    /\ at[Supervisor] = "probe"
    /\ ConnectBegins(Supervisor, "radio")
    /\ UNCHANGED <<hardware, contract, playback, slot, tuned, threads, works, events,
                   flushed>>

ProbeFindsNone ==
    /\ at[Supervisor] = "probe" /\ ~works.radio
    /\ Goto(Supervisor, "idle")
    /\ UNCHANGED <<layer, contract, playback, slot, tuned, threads, works, events,
                   flushed>>

(* After a hotplug it clears the rings and sets the rate; that this may    *)
(* fail does not stop it.                                                  *)
Reapply ==
    /\ at[Supervisor] = "reapply"
    /\ queues' = [r \in Rings |-> <<>>]
    /\ \/ Sets /\ UNCHANGED events
       \/ SetFails
    /\ Goto(Supervisor, "flow")
    /\ UNCHANGED <<status, lastKey, network, contract, playback, scanner, paused, tuned,
                   threads, works, flushed>>

(* No scanner, or one that has had no sample for five seconds: its thread  *)
(* has failed often enough, and what the threads had begun is over by      *)
(* then.  A scanner that is to be restarted for a reason of its own is     *)
(* ReceiverFlow's.                                                         *)
Starved ==
    scanner # NoThread =>
        errors[scanner] = MaxErrors /\ \A t \in Threads : at[t] = "idle"

Restart ==
    /\ \/ at[Supervisor] = "idle" /\ status.driver # "mock" /\ Starved
       \/ at[Supervisor] = "recheck"
    /\ Goto(Supervisor, IF Starved THEN "flow" ELSE "idle")
    /\ UNCHANGED <<layer, contract, playback, slot, tuned, threads, works, events,
                   flushed>>

-----------------------------------------------------------------------------
(* The reader replaces the device as the source, whatever is connected.    *)
(* Seeking back revives one that had ended.                                *)
PlaybackStart(c) ==
    /\ Comes(c)
    /\ playback' = "playing"
    /\ UNCHANGED <<layer, contract, slot, at, tuned, threads, works, flushed>>

PlaybackStop(c) ==
    /\ Comes(c)
    /\ playback' = "none"
    /\ UNCHANGED <<layer, contract, slot, at, tuned, threads, works, flushed>>

PlaybackSeek(c) ==
    /\ Comes(c) /\ playback # "none"
    /\ playback' \in {"playing", "eof"}
    /\ UNCHANGED <<layer, contract, slot, at, tuned, threads, works, flushed>>

-----------------------------------------------------------------------------
(* A capture thread.  read_iq prefers a network source to a radio and a    *)
(* radio to the mock source; the status it leaves behind is written after  *)
(* the source's lock is let go.  Between two reads the thread looks at the *)
(* flag that stops it, which the abort of its scanner brings about.        *)
ReadSucceeds ==
    IF network THEN works.network
    ELSE IF hardware # "none" THEN hardware = "streaming" /\ works.radio
    ELSE status.connected /\ status.driver = "mock"

NewChunk == [i \in 1 .. Chunk |-> contract]

CaptureReads(t) ==
    /\ t = scanner /\ at[t] = "idle" /\ playback = "none"
    /\ chunk' = [chunk EXCEPT ![t] = IF ReadSucceeds THEN NewChunk ELSE <<>>]
    /\ Goto(t, "read")
    /\ UNCHANGED <<layer, contract, playback, slot, tuned, errors, works, events,
                   flushed>>

(* observe_read of a chunk *)
CaptureObserves(t) ==
    /\ at[t] = "read" /\ chunk[t] # <<>>
    /\ status' = [status EXCEPT !.lifecycle = "streaming"]
    /\ errors' = [errors EXCEPT ![t] = 0]
    /\ Goto(t, "push")
    /\ UNCHANGED <<lastKey, hardware, network, contract, playback, slot, tuned, chunk,
                   works, events, flushed>>

(* A recording is read in place of the device.  At its end there is        *)
(* nothing to read, which neither is an error nor ends a row of them; a    *)
(* file that cannot be read is an error that recovers nothing.             *)
CapturePlays(t) ==
    /\ t = scanner /\ at[t] = "idle" /\ playback = "playing"
    /\ \/ /\ chunk' = [chunk EXCEPT ![t] = NewChunk]
          /\ errors' = [errors EXCEPT ![t] = 0]
          /\ Goto(t, "push")
          /\ UNCHANGED playback
       \/ /\ playback' = "eof"
          /\ UNCHANGED <<at, chunk, errors>>
       \/ /\ errors' = [errors EXCEPT ![t] = Lesser(@ + 1, MaxErrors)]
          /\ UNCHANGED <<at, chunk, playback>>
    /\ UNCHANGED <<layer, contract, slot, tuned, works, events, flushed>>

(* The rings get the chunk, none of the other locks held.  Those of a      *)
(* scanner that is no longer in the slot are nobody's to flush.            *)
CapturePushes(t) ==
    /\ at[t] = "push"
    /\ queues' = IF t # scanner THEN queues
                 ELSE [r \in Rings |-> Push([NewRing EXCEPT !.queue = queues[r]], chunk[t],
                                           r \in Latest).queue]
    /\ chunk' = [chunk EXCEPT ![t] = <<>>]
    /\ Goto(t, "idle")
    /\ UNCHANGED <<layer, contract, playback, scanner, paused, tuned, errors, works,
                   events, flushed>>

(* observe_read of a failure.  From MaxErrors of them in a row on the      *)
(* device is recovered; that the next recovery waits until a second has    *)
(* passed since this one only slows them down, and is left out.            *)
CaptureFails(t) ==
    /\ at[t] = "read" /\ chunk[t] = <<>>
    /\ status' = [status EXCEPT !.lifecycle = "degraded"]
    /\ errors' = [errors EXCEPT ![t] = Lesser(@ + 1, MaxErrors)]
    /\ Goto(t, IF errors'[t] = MaxErrors THEN "recover" ELSE "idle")
    /\ UNCHANGED <<lastKey, hardware, network, contract, playback, slot, tuned, chunk,
                   works, events, flushed>>

(* Faulty variant: only a device that was connected is recovered. *)
RecoverConnected(t) ==
    /\ at[t] = "recover"
    /\ IF lastKey = "mock" \/ ~status.connected
         THEN /\ Goto(t, "idle")
              /\ UNCHANGED layer
         ELSE /\ hardware' = "none"
              /\ ConnectBegins(t, lastKey)
    /\ UNCHANGED <<contract, playback, slot, tuned, threads, works, events, flushed>>

(* recover reads the key at once; the mock source has nothing to recover.  *)
Recover(t) ==
    /\ at[t] = "recover"
    /\ IF lastKey = "mock"
         THEN /\ Goto(t, "idle")
              /\ UNCHANGED layer
         ELSE /\ hardware' = "none"
              /\ ConnectBegins(t, lastKey)
    /\ UNCHANGED <<contract, playback, slot, tuned, threads, works, events, flushed>>

(* The consumers: take_exact in order, take_latest_exact the newest frame. *)
Consume(r) ==
    /\ Len(queues[r]) >= Chunk
    /\ LET ring == [NewRing EXCEPT !.queue = queues[r]]
       IN queues' = [queues EXCEPT ![r] = IF r \in Latest
                                            THEN TakeLatestExact(ring, Chunk).queue
                                            ELSE TakeExact(ring, Chunk).queue]
    /\ UNCHANGED <<layer, contract, playback, scanner, paused, at, tuned, threads, works,
                   events, flushed>>

(* The environment: a source fails, or answers again. *)
Breaks ==
    \E s \in DOMAIN works :
        /\ works[s] /\ Refused
        /\ works' = [works EXCEPT ![s] = FALSE]
        /\ UNCHANGED <<layer, contract, playback, slot, at, tuned, threads, flushed>>

Answers ==
    \E s \in DOMAIN works :
        /\ ~works[s]
        /\ works' = [works EXCEPT ![s] = TRUE]
        /\ UNCHANGED <<layer, contract, playback, slot, at, tuned, threads, events,
                       flushed>>

-----------------------------------------------------------------------------
Request(c) ==
    \/ Connect(c) \/ Disconnect(c) \/ NetworkConnect(c) \/ SelectNothing(c)
    \/ Retune(c) \/ RetuneFails(c)
    \/ PlaybackStart(c) \/ PlaybackStop(c) \/ PlaybackSeek(c)

Proceed(a) == ConnectMock(a) \/ OpenFails(a) \/ DefaultsFail(a) \/ Open(a) \/ Opened(a)

Flow(a) == FlowFails(a) \/ FlowStarts(a)

Handler(c) ==
    \/ Proceed(c) \/ Disconnected(c)
    \/ NetworkRefuses(c) \/ NetworkStarts(c) \/ NetworkConnected(c)
    \/ BandwidthFails(c) \/ Flush(c) \/ Flow(c)

Supervise ==
    \/ Probe \/ ProbeFinds \/ ProbeFindsNone \/ Proceed(Supervisor) \/ Reapply
    \/ Restart \/ Flow(Supervisor)

CaptureLoop(t) ==
    \/ CaptureReads(t) \/ CaptureObserves(t) \/ CapturePlays(t) \/ CapturePushes(t)
    \/ CaptureFails(t) \/ Recover(t) \/ Proceed(t)

Next ==
    \/ \E c \in Clients : Request(c) \/ Handler(c)
    \/ \E t \in Threads : CaptureLoop(t)
    \/ Supervise
    \/ \E r \in Rings : Consume(r)
    \/ Breaks \/ Answers

(* A capture thread waits for nobody for long, a request that has begun    *)
(* goes on, the supervisor ticks.                                          *)
Fairness ==
    /\ \A t \in Threads : WF_vars(CaptureLoop(t))
    /\ \A c \in Clients : WF_vars(Handler(c))
    /\ WF_vars(Supervise)

Spec == Init /\ [][Next]_vars /\ Fairness

-----------------------------------------------------------------------------
(* A retune flushes the rings, yet the capture thread may hold a chunk it  *)
(* read before and push it afterwards: one chunk of the old band, never    *)
(* more, reaches each consumer (the comment on IqRing::clear), whatever    *)
(* scanners come and go meanwhile.                                         *)
StaleAtMostOneChunk ==
    \A r \in Rings :
        Cardinality({i \in 1 .. Len(queues[r]) : queues[r][i] < flushed}) <= Chunk

(* Nobody is left to bring the radio back: a connect took the scanner and  *)
(* with it the capture thread down, the device is not connected, so the    *)
(* flow is not started, and the supervisor looks for a radio only while    *)
(* the mock source is in use.                                              *)
Unattended == scanner = NoThread /\ ~status.connected /\ status.driver # "mock"

(* While the radio is what was last connected, it answers and neither a    *)
(* recording nor a network source is played instead, a capture thread gets *)
(* it to stream again, whatever happened before: a lost stream, a          *)
(* disconnect, a failed open - unless that left the receiver unattended.   *)
RadioStreamsAgain ==
    <>[](lastKey = "radio" /\ works.radio /\ playback = "none" /\ ~network /\ ~Unattended)
      => <>[](hardware = "streaming" /\ status.lifecycle = "streaming")
=============================================================================
