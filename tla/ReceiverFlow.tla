---------------------------- MODULE ReceiverFlow ----------------------------
(***************************************************************************)
(* Who runs the shared receiver.  Four kinds of actor start, stop, retune  *)
(* and replace the one scanner task of the process, each holding the locks *)
(* of AppState only for a step at a time:                                  *)
(*   - API requests (scan start/stop, device connect/disconnect, tuning,   *)
(*     profile apply, lease claim/release);                                *)
(*   - main, which starts the default monitor at boot;                     *)
(*   - the hardware supervisor, which probes, connects and restarts;       *)
(*   - the job executor with one completion timer per running scan job.    *)
(* The lease, the scanner slot, the tasks' command queues and the device   *)
(* are the state they share.  One action is one critical section, or one   *)
(* device call, of one actor.                                              *)
(***************************************************************************)
EXTENDS ReceiverSession, Sequences, FiniteSets

CONSTANTS
    Clients,    \* API requests in flight at the same time
    Names,      \* lease names the claim and release endpoints are given
    Jobs,       \* scheduled scan jobs
    Tasks,      \* scanner tasks alive at the same time
    NoTask,     \* an empty scanner slot
    Nobody,     \* no actor
    CmdCap,     \* capacity of a scanner's command channel (64)
    Requests,   \* the API requests clients issue
    Forces,     \* values of "force" in their claims
    Budget,     \* how many requests they issue altogether
    Faults,     \* what the device may do wrong: "refuse", "stall", "lost"
    Sources,    \* what the process starts with: "mock", "hw"
    Starts,     \* Start commands given: of a bank with VFOs, of one without
    Booting     \* whether main has still to start the default monitor

Actors == Clients \cup {"boot", "supervisor", "scheduler"}

ASSUME FlowAssumption ==
    /\ Owners = {"scanner"} \cup Jobs \cup Names
    /\ "scanner" \notin Jobs \cup Names
    /\ "manual" \notin Jobs
    /\ Jobs \cap Names = {}
    /\ Clients \cap {"boot", "supervisor", "scheduler"} = {}
    /\ NoTask \notin Tasks
    /\ Nobody \notin Actors \cup Jobs
    /\ CmdCap \in Nat \ {0}
    /\ Forces \subseteq BOOLEAN
    /\ Budget \in Nat
    /\ Faults \subseteq {"refuse", "stall", "lost"}
    /\ Sources \subseteq {"mock", "hw"}
    /\ Starts \subseteq {"Start", "StartBare"}
    /\ Booting \in BOOLEAN

VARIABLES
    guard,      \* who still holds the lease's mutex between two steps
    slot,       \* AppState.scanner: the task commands are sent to
    task,       \* the scanner tasks
    connected,  \* device.status().connected
    driver,     \* "mock" or "hw"
    iq,         \* whether the device delivers samples
    job,        \* [Jobs -> last_status of the row, "due" before it ran]
    timer,      \* [Jobs -> the completion task spawned for the job]
    cur,        \* the job run_due_jobs is working on
    pc,         \* [Actors -> where the actor is in its handler]
    held,       \* [Actors -> the scanner handle it has cloned]
    hotplugged, \* the supervisor restarts the flow because of a new device
    lastAct,    \* history: the last retune or Stop, by whom and under whose lease
    replaced,   \* history: scanners whose place in the slot another one took
    budget      \* requests left

receiverVars == <<guard, slot, task, connected, driver, iq, replaced>>
jobVars == <<job, timer, cur>>
actorVars == <<pc, held, hotplugged, budget>>
vars == <<sessionVars, receiverVars, jobVars, actorVars, lastAct>>

-----------------------------------------------------------------------------
(* Types *)

Commands == {"Start", "StartBare", "Stop"}
Unborn == [st |-> "unborn", phase |-> "drain", running |-> FALSE, vfos |-> FALSE,
           cmds |-> <<>>]

TaskRecord ==
    [st : {"unborn", "live", "aborted"}, phase : {"drain", "pull"},
     running : BOOLEAN, vfos : BOOLEAN, cmds : Seq(Commands)]

ClientLabels ==
    {"idle", "wedged", "ss_tune", "ss_fail", "ss_slot", "ss_send", "ss_spawn",
     "ss_first", "st_send", "st_release", "dc_pause", "dc_release", "dc_connect",
     "dc_reconnect", "tune"}
FlowLabels == {"flow", "flow_claim", "flow_tune", "flow_release", "flow_slot",
               "flow_send", "flow_spawn"}
Labels == ClientLabels \cup FlowLabels
            \cup {"hot_stop", "recheck", "jb_release", "jb_claim", "jb_tune",
                  "jb_start", "jb_abandon"}

Acts == [act : {"none", "retune", "stop"}, by : {"scanner", "manual"} \cup Jobs,
         under : Owners \cup {NoOwner}]

TypeOK ==
    /\ SessionTypeOK
    /\ guard \in Actors \cup {Nobody}
    /\ slot \in Tasks \cup {NoTask}
    /\ task \in [Tasks -> TaskRecord]
    /\ \A t \in Tasks : Len(task[t].cmds) <= CmdCap
    /\ connected \in BOOLEAN
    /\ driver \in {"mock", "hw"}
    /\ iq \in BOOLEAN
    /\ job \in [Jobs -> {"due", "running", "completed", "failed", "blocked"}]
    /\ timer \in [Jobs -> {"none", "sleeping", "stopping"}]
    /\ cur \in Jobs \cup {Nobody}
    /\ pc \in [Actors -> Labels]
    /\ held \in [Actors -> Tasks \cup {NoTask}]
    /\ hotplugged \in BOOLEAN
    /\ lastAct \in Acts
    /\ replaced \subseteq Tasks
    /\ budget \in 0 .. Budget

Init ==
    /\ SessionInit
    /\ guard = Nobody
    /\ slot = NoTask
    /\ task = [t \in Tasks |-> Unborn]
    /\ driver \in Sources
    /\ connected \in IF "lost" \in Faults THEN BOOLEAN ELSE {TRUE}
    /\ iq = connected
    /\ job \in [Jobs -> {"due", "completed"}]
    /\ timer = [j \in Jobs |-> "none"]
    /\ cur = Nobody
    /\ pc = [a \in Actors |-> IF a = "boot" /\ Booting THEN "flow" ELSE "idle"]
    /\ held = [a \in Actors |-> NoTask]
    /\ hotplugged = FALSE
    /\ lastAct = [act |-> "none", by |-> "manual", under |-> NoOwner]
    /\ replaced = {}
    /\ budget = Budget

-----------------------------------------------------------------------------
(* Steps shared by the actors *)

Goto(a, from, to) == pc[a] = from /\ pc' = [pc EXCEPT ![a] = to]

Unlocked == guard = Nobody

Record(act, by) == lastAct' = [act |-> act, by |-> by, under |-> owner]

(* Faulty variant: the channel has no bound. *)
AcceptsWhenFull(t) == task[t].st = "live"

(* try_send fails when the channel is full and when the task was aborted. *)
Accepts(t) == task[t].st = "live" /\ Len(task[t].cmds) < CmdCap

(* send_command drops the command when the channel does not accept it. *)
Sent(t, cmd) ==
    IF t # NoTask /\ Accepts(t)
      THEN [task EXCEPT ![t].cmds = Append(@, cmd)]
      ELSE task

(* A Stop that reached a scanner; used after task' is given. *)
RecordStop(by) == IF task' = task THEN UNCHANGED lastAct ELSE Record("stop", by)

(* ScannerHandle::abort: the task takes no further command. *)
Aborted(t) == [task EXCEPT ![t].st = "aborted"]

(* ScannerHandle::spawn followed by the write of the slot, which drops the
   handle that was there without aborting its task. *)
Spawn(t, cmds) ==
    /\ task[t] = Unborn
    /\ task' = [task EXCEPT ![t].st = "live", ![t].cmds = cmds]
    /\ slot' = t
    /\ replaced' = replaced \cup ({slot} \ {NoTask})

(* set_sample_contract and set_frequency; either may be refused. *)
Tune(a, by, from, done, failed) ==
    /\ \/ Goto(a, from, done) /\ Record("retune", by)
       \/ "refuse" \in Faults /\ Goto(a, from, failed) /\ UNCHANGED lastAct
    /\ UNCHANGED <<sessionVars, receiverVars, jobVars, held, hotplugged, budget>>

ReleaseLease(a, o, from, to) ==
    /\ Unlocked
    /\ Goto(a, from, to)
    /\ Release(o)
    /\ UNCHANGED <<receiverVars, held, hotplugged, budget, lastAct>>

-----------------------------------------------------------------------------
(* AppState::ensure_receiver_flow, run by main, by the supervisor (with    *)
(* recovering = true) and by a request that has reconnected the device.    *)

Recovering(a) == a = "supervisor"

(* The hotplug branch of the supervisor goes on to its recovery check. *)
Return(a) == IF Recovering(a) /\ hotplugged THEN "recheck" ELSE "idle"

FlowCheck(a) ==
    /\ Goto(a, "flow", IF connected THEN "flow_claim" ELSE Return(a))
    /\ UNCHANGED <<sessionVars, receiverVars, jobVars, held, hotplugged, budget, lastAct>>

FlowClaim(a) ==
    /\ Unlocked
    /\ \/ Claim("scanner", FALSE) /\ Goto(a, "flow_claim", "flow_tune")
       \/ /\ ~Grants("scanner", FALSE)
          /\ Goto(a, "flow_claim", Return(a))
          /\ UNCHANGED sessionVars
    /\ UNCHANGED <<receiverVars, jobVars, held, hotplugged, budget, lastAct>>

(* No configured range fails like a device that refuses the range. *)
FlowTune(a) == Tune(a, "scanner", "flow_tune", "flow_slot", "flow_release")

FlowRelease(a) ==
    ReleaseLease(a, "scanner", "flow_release", Return(a)) /\ UNCHANGED jobVars

(* Faulty variant: the replaced scanner is dropped, not aborted. *)
FlowSlotWithoutAbort(a) ==
    /\ \/ /\ Recovering(a)
          /\ Goto(a, "flow_slot", "flow_spawn")
          /\ slot' = NoTask
          /\ UNCHANGED <<held, task>>
       \/ /\ ~Recovering(a)
          /\ Goto(a, "flow_slot", IF slot = NoTask THEN "flow_spawn" ELSE "flow_send")
          /\ held' = [held EXCEPT ![a] = slot]
          /\ UNCHANGED <<slot, task>>
    /\ UNCHANGED <<sessionVars, guard, replaced, connected, driver, iq, jobVars,
                   hotplugged, budget, lastAct>>

FlowSlot(a) ==
    /\ \/ /\ Recovering(a)
          /\ Goto(a, "flow_slot", "flow_spawn")
          /\ slot' = NoTask
          /\ task' = IF slot = NoTask THEN task ELSE Aborted(slot)
          /\ UNCHANGED held
       \/ /\ ~Recovering(a)
          /\ Goto(a, "flow_slot", IF slot = NoTask THEN "flow_spawn" ELSE "flow_send")
          /\ held' = [held EXCEPT ![a] = slot]
          /\ UNCHANGED <<slot, task>>
    /\ UNCHANGED <<sessionVars, guard, replaced, connected, driver, iq, jobVars,
                   hotplugged, budget, lastAct>>

FlowSend(a) ==
    /\ Goto(a, "flow_send", IF Accepts(held[a]) THEN Return(a) ELSE "flow_spawn")
    /\ \E start \in Starts : task' = Sent(held[a], start)
    /\ held' = [held EXCEPT ![a] = NoTask]
    /\ UNCHANGED <<sessionVars, guard, replaced, slot, connected, driver, iq,
                   jobVars, hotplugged, budget, lastAct>>

FlowSpawn(a) ==
    /\ Goto(a, "flow_spawn", Return(a))
    /\ \E t \in Tasks, start \in Starts : Spawn(t, <<start>>)
    /\ UNCHANGED <<sessionVars, guard, connected, driver, iq, jobVars, held,
                   hotplugged, budget, lastAct>>

Flow(a) ==
    \/ FlowCheck(a) \/ FlowClaim(a) \/ FlowTune(a) \/ FlowRelease(a)
    \/ FlowSlot(a) \/ FlowSend(a) \/ FlowSpawn(a)

-----------------------------------------------------------------------------
(* API requests.  A client runs one handler at a time. *)

Begin(c, request, to) ==
    /\ request \in Requests
    /\ budget > 0
    /\ budget' = budget - 1
    /\ Goto(c, "idle", to)

(* POST /channels/scan/start.  The refusal answers with the session while   *)
(* the guard the claim was made through is still alive, and waits for it.   *)
ScanClaim(c) ==
    /\ Unlocked
    /\ \/ /\ Begin(c, "scan_start", "ss_tune")
          /\ Claim("scanner", FALSE)
          /\ UNCHANGED guard
       \/ /\ Begin(c, "scan_start", "wedged")
          /\ ~Grants("scanner", FALSE)
          /\ guard' = c
          /\ UNCHANGED sessionVars
    /\ UNCHANGED <<slot, task, connected, driver, iq, replaced, jobVars, held,
                   hotplugged, lastAct>>

(* An unknown range is refused like a range the device refuses. *)
ScanTune(c) == Tune(c, "scanner", "ss_tune", "ss_slot", "ss_fail")

ScanFail(c) == ReleaseLease(c, "scanner", "ss_fail", "idle") /\ UNCHANGED jobVars

ScanSlot(c) ==
    /\ Goto(c, "ss_slot", IF slot = NoTask THEN "ss_spawn" ELSE "ss_send")
    /\ held' = [held EXCEPT ![c] = slot]
    /\ UNCHANGED <<sessionVars, receiverVars, jobVars, hotplugged, budget, lastAct>>

(* After the await of the sidecars: the handle was cloned before it. *)
ScanSend(c) ==
    /\ Goto(c, "ss_send", "idle")
    /\ \E start \in Starts : task' = Sent(held[c], start)
    /\ held' = [held EXCEPT ![c] = NoTask]
    /\ UNCHANGED <<sessionVars, guard, replaced, slot, connected, driver, iq,
                   jobVars, hotplugged, budget, lastAct>>

(* The client goes away while the sidecars are awaited: the rest of the     *)
(* handler, and its clone of the handle, are dropped.                       *)
Cancel(c) ==
    /\ Goto(c, "ss_send", "idle")
    /\ held' = [held EXCEPT ![c] = NoTask]
    /\ UNCHANGED <<sessionVars, receiverVars, jobVars, hotplugged, budget, lastAct>>

ScanSpawn(c) ==
    /\ Goto(c, "ss_spawn", "ss_first")
    /\ \E t \in Tasks : Spawn(t, <<>>)
    /\ UNCHANGED <<sessionVars, guard, connected, driver, iq, jobVars, held,
                   hotplugged, budget, lastAct>>

ScanFirst(c) ==
    /\ Goto(c, "ss_first", "idle")
    /\ \E start \in Starts : task' = Sent(slot, start)
    /\ UNCHANGED <<sessionVars, guard, replaced, slot, connected, driver, iq,
                   jobVars, held, hotplugged, budget, lastAct>>

(* POST /channels/scan/stop asks nobody: Stop first, then give up the lease. *)
ScanStop(c) ==
    /\ Begin(c, "scan_stop", "st_send")
    /\ held' = [held EXCEPT ![c] = slot]
    /\ UNCHANGED <<sessionVars, receiverVars, jobVars, hotplugged, lastAct>>

StopSend(c) ==
    /\ Goto(c, "st_send", "st_release")
    /\ task' = Sent(held[c], "Stop")
    /\ held' = [held EXCEPT ![c] = NoTask]
    /\ RecordStop("scanner")
    /\ UNCHANGED <<sessionVars, guard, replaced, slot, connected, driver, iq,
                   jobVars, hotplugged, budget>>

StopRelease(c) == ReleaseLease(c, "scanner", "st_release", "idle") /\ UNCHANGED jobVars

(* POST /device/connect and /api/v2/devices/:id/select: the lease is looked *)
(* at, the scanner is taken down, the device is opened, and the monitor     *)
(* comes back - after a failure only if there was a scanner to take down.   *)
ManualAllowed == owner \in {NoOwner, "scanner"}

ConnectCheck(c) ==
    /\ Unlocked
    /\ Begin(c, "connect", IF ManualAllowed THEN "dc_pause" ELSE "idle")
    /\ UNCHANGED <<sessionVars, receiverVars, jobVars, held, hotplugged, lastAct>>

(* Faulty variant: the aborted scanner stays in the slot. *)
ConnectPauseInPlace(c) ==
    /\ Goto(c, "dc_pause", IF slot = NoTask THEN "dc_connect" ELSE "dc_release")
    /\ task' = IF slot = NoTask THEN task ELSE Aborted(slot)
    /\ UNCHANGED <<sessionVars, guard, replaced, slot, connected, driver, iq,
                   jobVars, held, hotplugged, budget, lastAct>>

ConnectPause(c) ==
    /\ Goto(c, "dc_pause", IF slot = NoTask THEN "dc_connect" ELSE "dc_release")
    /\ slot' = NoTask
    /\ task' = IF slot = NoTask THEN task ELSE Aborted(slot)
    /\ UNCHANGED <<sessionVars, guard, replaced, connected, driver, iq, jobVars,
                   held, hotplugged, budget, lastAct>>

ConnectRelease(c) ==
    ReleaseLease(c, "scanner", "dc_release", "dc_reconnect") /\ UNCHANGED jobVars

(* DeviceLayer::connect: the mock always connects; a physical device that   *)
(* cannot be opened leaves the receiver disconnected, one whose defaults    *)
(* are refused leaves the connection as it was.                             *)
DeviceConnects(kind) == connected' = TRUE /\ driver' = kind
DeviceRefuses ==
    /\ "refuse" \in Faults
    /\ connected' \in {FALSE, connected}
    /\ UNCHANGED driver

Connect(c) ==
    /\ \E from \in {"dc_connect", "dc_reconnect"} :
         \/ Goto(c, from, "flow") /\ \E kind \in {"mock", "hw"} : DeviceConnects(kind)
         \/ /\ Goto(c, from, IF from = "dc_reconnect" THEN "flow" ELSE "idle")
            /\ DeviceRefuses
    /\ UNCHANGED <<sessionVars, guard, replaced, slot, task, iq, jobVars, held,
                   hotplugged, budget, lastAct>>

(* POST /device/disconnect asks nobody. *)
Disconnect(c) ==
    /\ Begin(c, "disconnect", "idle")
    /\ connected' = FALSE
    /\ UNCHANGED <<sessionVars, guard, replaced, slot, task, driver, iq, jobVars,
                   held, hotplugged, lastAct>>

(* POST /device/frequency and /api/v2/receivers/:id/tune look at the lease, *)
(* then retune.                                                             *)
TuneCheck(c) ==
    /\ Unlocked
    /\ Begin(c, "tune", IF ManualAllowed THEN "tune" ELSE "idle")
    /\ UNCHANGED <<sessionVars, receiverVars, jobVars, held, hotplugged, lastAct>>

TuneApply(c) == Tune(c, "manual", "tune", "idle", "idle")

(* Applying a profile and moving a VFO out of the window retune without     *)
(* looking at the lease.                                                    *)
UncheckedRetune(c) ==
    /\ Begin(c, "profile", "idle")
    /\ Record("retune", "manual")
    /\ UNCHANGED <<sessionVars, receiverVars, jobVars, held, hotplugged>>

(* POST /receiver/session/claim and /release act under the name they are    *)
(* given.                                                                   *)
LeaseClaim(c) ==
    /\ Unlocked
    /\ Begin(c, "claim", "idle")
    /\ \E n \in Names, force \in Forces :
         \/ Claim(n, force)
         \/ ~Grants(n, force) /\ UNCHANGED sessionVars
    /\ UNCHANGED <<receiverVars, jobVars, held, hotplugged, lastAct>>

LeaseRelease(c) ==
    /\ Unlocked
    /\ Begin(c, "release", "idle")
    /\ \E n \in Names : Release(n)
    /\ UNCHANGED <<receiverVars, jobVars, held, hotplugged, lastAct>>

Request(c) ==
    \/ ScanClaim(c) \/ ScanStop(c) \/ ConnectCheck(c) \/ Disconnect(c)
    \/ TuneCheck(c) \/ UncheckedRetune(c) \/ LeaseClaim(c) \/ LeaseRelease(c)

Handler(c) ==
    \/ ScanTune(c) \/ ScanFail(c) \/ ScanSlot(c) \/ ScanSend(c) \/ ScanSpawn(c)
    \/ ScanFirst(c) \/ StopSend(c) \/ StopRelease(c) \/ ConnectPause(c)
    \/ ConnectRelease(c) \/ Connect(c) \/ TuneApply(c)

-----------------------------------------------------------------------------
(* The hardware supervisor, every 2 s *)

Running == slot # NoTask /\ task[slot].running /\ task[slot].vfos

(* The scanner was started on a bank that has no room for a VFO.            *)
RunsBare == slot # NoTask /\ task[slot].running /\ ~task[slot].vfos

(* Faulty variant: a stopped or silent scanner is taken for a healthy one. *)
NeedsRecoveryIfMissing == slot = NoTask

(* receiver_needs_recovery: no scanner, a stopped one, one without a VFO,   *)
(* or no spectrum for 5 s.  A scanner that has been silent for less is left *)
(* alone.                                                                   *)
NeedsRecovery == ~(Running /\ iq)

(* On the mock source a probe that finds no hardware skips the check below. *)
ProbeConnects ==
    /\ driver = "mock"
    /\ Goto("supervisor", "idle", "hot_stop")
    /\ DeviceConnects("hw")
    /\ UNCHANGED <<sessionVars, guard, replaced, slot, task, iq, jobVars, held,
                   hotplugged, budget, lastAct>>

ProbeFails ==
    /\ driver = "mock"
    /\ Goto("supervisor", "idle", "recheck")
    /\ DeviceRefuses
    /\ UNCHANGED <<sessionVars, guard, replaced, slot, task, iq, jobVars, held,
                   hotplugged, budget, lastAct>>

HotplugStop ==
    /\ Goto("supervisor", "hot_stop", "flow")
    /\ task' = Sent(slot, "Stop")
    /\ hotplugged' = TRUE
    /\ UNCHANGED <<sessionVars, guard, replaced, slot, connected, driver, iq,
                   jobVars, held, budget, lastAct>>

Recover ==
    /\ \/ driver # "mock" /\ Goto("supervisor", "idle", "flow")
       \/ Goto("supervisor", "recheck", "flow")
    /\ NeedsRecovery
    /\ hotplugged' = FALSE
    /\ UNCHANGED <<sessionVars, receiverVars, jobVars, held, budget, lastAct>>

NoRecovery ==
    /\ Goto("supervisor", "recheck", "idle")
    /\ Running
    /\ hotplugged' = FALSE
    /\ UNCHANGED <<sessionVars, receiverVars, jobVars, held, budget, lastAct>>

Supervisor ==
    ProbeConnects \/ ProbeFails \/ HotplugStop \/ Recover \/ NoRecovery

-----------------------------------------------------------------------------
(* The job executor, every second, and the completion tasks it spawns *)

SetJob(j, status) == job' = [job EXCEPT ![j] = status]

(* Unreadable payload, missing or unknown range. *)
JobReject(j) ==
    /\ Goto("scheduler", "idle", "idle")
    /\ job[j] = "due"
    /\ SetJob(j, "failed")
    /\ UNCHANGED <<sessionVars, receiverVars, timer, cur, held, hotplugged, budget,
                   lastAct>>

(* The scanner is stopped before the lease is asked for. *)
JobStop(j) ==
    /\ Goto("scheduler", "idle", "jb_release")
    /\ job[j] = "due"
    /\ cur' = j
    /\ task' = Sent(slot, "Stop")
    /\ RecordStop(j)
    /\ UNCHANGED <<sessionVars, guard, replaced, slot, connected, driver, iq, job,
                   timer, held, hotplugged, budget>>

(* Faulty variant: the device is configured without a claim. *)
JobYieldUnclaimed == ReleaseLease("scheduler", "scanner", "jb_release", "jb_tune")
                       /\ UNCHANGED jobVars

JobYield == ReleaseLease("scheduler", "scanner", "jb_release", "jb_claim")
              /\ UNCHANGED jobVars

JobClaim ==
    /\ Unlocked
    /\ \/ /\ Goto("scheduler", "jb_claim", "jb_tune")
          /\ Claim(cur, FALSE)
          /\ UNCHANGED jobVars
       \/ /\ Goto("scheduler", "jb_claim", "idle")
          /\ ~Grants(cur, FALSE)
          /\ SetJob(cur, "blocked")
          /\ cur' = Nobody
          /\ UNCHANGED <<sessionVars, timer>>
    /\ UNCHANGED <<receiverVars, held, hotplugged, budget, lastAct>>

JobTune == Tune("scheduler", cur, "jb_tune", "jb_start", "jb_abandon")

JobStart ==
    /\ \/ /\ slot # NoTask
          /\ Goto("scheduler", "jb_start", "idle")
          /\ \E start \in Starts : task' = Sent(slot, start)
          /\ SetJob(cur, "running")
          /\ timer' = [timer EXCEPT ![cur] = "sleeping"]
          /\ cur' = Nobody
       \/ /\ slot = NoTask
          /\ Goto("scheduler", "jb_start", "jb_abandon")
          /\ UNCHANGED <<task, jobVars>>
    /\ UNCHANGED <<sessionVars, guard, replaced, slot, connected, driver, iq, held,
                   hotplugged, budget, lastAct>>

(* Faulty variant: a failing job keeps the receiver. *)
JobAbandonKeepsLease ==
    /\ Goto("scheduler", "jb_abandon", "idle")
    /\ SetJob(cur, "failed")
    /\ cur' = Nobody
    /\ UNCHANGED <<sessionVars, receiverVars, timer, held, hotplugged, budget, lastAct>>

JobAbandon ==
    /\ ReleaseLease("scheduler", cur, "jb_abandon", "idle")
    /\ SetJob(cur, "failed")
    /\ cur' = Nobody
    /\ UNCHANGED timer

Scheduler == JobYield \/ JobClaim \/ JobTune \/ JobStart \/ JobAbandon

(* The job's time is up: Stop whatever scans now, then give the lease back. *)
JobExpire(j) ==
    /\ timer[j] = "sleeping"
    /\ timer' = [timer EXCEPT ![j] = "stopping"]
    /\ task' = Sent(slot, "Stop")
    /\ RecordStop(j)
    /\ UNCHANGED <<sessionVars, guard, replaced, slot, connected, driver, iq, job,
                   cur, actorVars>>

JobComplete(j) ==
    /\ Unlocked
    /\ timer[j] = "stopping"
    /\ timer' = [timer EXCEPT ![j] = "none"]
    /\ Release(j)
    /\ SetJob(j, "completed")
    /\ UNCHANGED <<receiverVars, cur, actorVars, lastAct>>

-----------------------------------------------------------------------------
(* The scanner task *)

TaskOnly == UNCHANGED <<sessionVars, guard, replaced, slot, connected, driver, iq,
                        jobVars, actorVars, lastAct>>

Drain(t) ==
    /\ task[t].st = "live" /\ task[t].phase = "drain"
    /\ task[t].cmds # <<>>
    /\ task' = [task EXCEPT ![t].cmds = Tail(@),
                            ![t].running = (Head(task[t].cmds) # "Stop"),
                            ![t].vfos = (Head(task[t].cmds) = "Start")]
    /\ TaskOnly

(* A running scanner then waits for samples, and reads no command while it  *)
(* waits.                                                                   *)
Pull(t) ==
    /\ task[t].st = "live" /\ task[t].phase = "drain"
    /\ task[t].cmds = <<>> /\ task[t].running
    /\ task' = [task EXCEPT ![t].phase = "pull"]
    /\ TaskOnly

Frame(t) ==
    /\ task[t].st = "live" /\ task[t].phase = "pull"
    /\ iq
    /\ task' = [task EXCEPT ![t].phase = "drain"]
    /\ TaskOnly

(* An aborted task is gone once its threads have joined and nobody keeps a  *)
(* clone of its handle.                                                     *)
Reap(t) ==
    /\ task[t].st = "aborted"
    /\ slot # t
    /\ \A a \in Actors : held[a] # t
    /\ task' = [task EXCEPT ![t] = Unborn]
    /\ TaskOnly

(* The device *)

Stall ==
    /\ "stall" \in Faults
    /\ iq
    /\ iq' = FALSE
    /\ UNCHANGED <<sessionVars, guard, replaced, slot, task, connected, driver,
                   jobVars, actorVars, lastAct>>

Deliver ==
    /\ connected /\ ~iq
    /\ iq' = TRUE
    /\ UNCHANGED <<sessionVars, guard, replaced, slot, task, connected, driver,
                   jobVars, actorVars, lastAct>>

(* The capture worker of a scanner, an aborted one's until it has joined,   *)
(* reopens the device after repeated read errors.                           *)
CaptureRecover ==
    /\ "lost" \in Faults
    /\ ~iq /\ driver = "hw"
    /\ \E t \in Tasks : task[t].st # "unborn"
    /\ connected' \in BOOLEAN
    /\ UNCHANGED <<sessionVars, guard, replaced, slot, task, driver, iq, jobVars,
                   actorVars, lastAct>>

-----------------------------------------------------------------------------
Next ==
    \/ \E c \in Clients : Request(c) \/ Handler(c) \/ Cancel(c)
    \/ \E a \in Clients \cup {"boot", "supervisor"} : Flow(a)
    \/ Supervisor
    \/ Scheduler
    \/ \E j \in Jobs : JobReject(j) \/ JobStop(j) \/ JobExpire(j) \/ JobComplete(j)
    \/ \E t \in Tasks : Drain(t) \/ Pull(t) \/ Frame(t) \/ Reap(t)
    \/ Stall \/ Deliver \/ CaptureRecover

Spec == Init /\ [][Next]_vars

(* Every handler that has begun goes on or is cut off by its client, every  *)
(* timer fires, and the ticks recur.  The 2 s the supervisor sleeps between *)
(* two ticks are far more than a scanner task needs to drain a command, so  *)
(* a task that is replaced again and again still drains some in such a      *)
(* pause.  Nothing is assumed of requests and of the device.                *)
Fairness ==
    /\ \A c \in Clients : WF_vars(Handler(c) \/ Cancel(c))
    /\ \A a \in Clients \cup {"boot", "supervisor"} : WF_vars(Flow(a))
    /\ WF_vars(HotplugStop) /\ WF_vars(Recover) /\ WF_vars(NoRecovery)
    /\ WF_vars(Scheduler)
    /\ \A j \in Jobs :
         /\ SF_vars(JobReject(j) \/ JobStop(j))
         /\ WF_vars(JobExpire(j)) /\ WF_vars(JobComplete(j))
    /\ \A t \in Tasks :
         /\ SF_vars(Drain(t) /\ pc["supervisor"] = "idle")
         /\ WF_vars(Pull(t)) /\ WF_vars(Frame(t)) /\ WF_vars(Reap(t))

FairSpec == Spec /\ Fairness

(* A device that does not refuse the supervisor's range for ever. *)
DeviceAccepts ==
    SF_vars(FlowTune("supervisor") /\ pc'["supervisor"] = "flow_slot")
LiveSpec == FairSpec /\ DeviceAccepts

-----------------------------------------------------------------------------
(* Properties *)

(* The scan job the executor has claimed the receiver for, or the one whose
   scan is running until its completion task has given the receiver back. *)
Executing(j) ==
    \/ cur = j /\ pc["scheduler"] \in {"jb_tune", "jb_start", "jb_abandon"}
    \/ timer[j] # "none"

(* As long as nobody takes the receiver by force, a scan job that is being  *)
(* executed holds the lease from its claim in run_due_jobs to the release   *)
(* of its completion task, whatever requests, the supervisor and other jobs *)
(* do meanwhile.                                                            *)
JobHoldsLease == takeovers = 0 => \A j \in Jobs : Executing(j) => owner = j

(* Two scan jobs are executed at the same time only after a forced takeover. *)
OneJobAtATime ==
    \A j, k \in Jobs : Executing(j) /\ Executing(k) /\ j # k => takeovers > 0

(* A job retunes the receiver only under its own lease (no forced takeover): *)
(* run_due_jobs claims before it configures the device.                      *)
JobRetunesOwnReceiver ==
    (takeovers = 0 /\ lastAct.act = "retune" /\ lastAct.by \in Jobs)
        => lastAct.under = lastAct.by

(* Commands are never sent to a dead scanner through the slot: whoever      *)
(* aborts a scanner takes it out of the slot first.                         *)
SlotIsLive == slot # NoTask => task[slot].st = "live"

(* Whoever takes a scanner out of the slot aborts it: a scanner that has    *)
(* not been aborted is the one commands go to, or one in whose place a      *)
(* start that overlapped its own, or found its queue full, put another.     *)
(* Nothing is said of threads here: the capture thread of an aborted        *)
(* scanner reads on until it has joined.                                    *)
NoStrayScanner ==
    \A t \in Tasks : task[t].st = "live" => t = slot \/ t \in replaced

(* A refused scan start is answered and leaves the lease usable. *)
RefusalAnswered == guard = Nobody

(* A job gives the receiver back, on its failing paths as on completion. *)
JobLeaseReturned == \A j \in Jobs : owner = j ~> owner # j

(* While the device delivers samples, nobody but the scanner wants the      *)
(* receiver for good and no scan of a bank without VFOs goes on, the        *)
(* supervisor gets a scanner running and keeps it running; and of the       *)
(* scanners it aborted none, hence no capture thread of theirs, is left to  *)
(* read the device beside it.                                               *)
FlowRecovers ==
    <>[](/\ driver = "hw" /\ connected /\ iq
         /\ owner \in {NoOwner, "scanner"}
         /\ ~RunsBare)
        => <>[](Running /\ \A t \in Tasks \ {slot} : t \in replaced \/ task[t] = Unborn)

(* The executor implements exclusive ownership of the tuner by scan jobs. *)
JobPhase ==
    [j \in Jobs |-> IF Executing(j) THEN "holding"
                    ELSE IF job[j] = "due" THEN "waiting" ELSE "done"]

Tuner == INSTANCE TunerOwnership WITH phase <- JobPhase
TunerSafe == Tuner!Safe
TunerSpec == Tuner!Spec
=============================================================================
