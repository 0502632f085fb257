------------------------- MODULE ReceiverFlow_proofs -------------------------
(***************************************************************************)
(* Proofs about ReceiverFlow, for any number of clients, jobs, tasks and   *)
(* requests: type correctness, that the lease keeps scan jobs apart, and   *)
(* that no scanner is lost from hand.                                      *)
(***************************************************************************)
EXTENDS ReceiverFlow, FiniteSetTheorems, TLAPS

TaskOK(f) == f \in [Tasks -> TaskRecord] /\ \A t \in Tasks : Len(f[t].cmds) <= CmdCap

-----------------------------------------------------------------------------
(* What the helpers on the tasks return *)

(* A command sent to a scanner, or dropped, leaves the queues within their  *)
(* capacity.                                                                *)
LEMMA SentOK ==
    ASSUME TaskOK(task), NEW t \in Tasks \cup {NoTask}, NEW cmd \in Commands
    PROVE  TaskOK(Sent(t, cmd))
<1>1. CASE t # NoTask /\ Accepts(t)
  <2>1. t \in Tasks /\ task[t] \in TaskRecord /\ Len(task[t].cmds) < CmdCap
    BY <1>1 DEF TaskOK, Accepts
  <2>2. DEFINE q == Append(task[t].cmds, cmd)
  <2>3. q \in Seq(Commands) /\ Len(q) = Len(task[t].cmds) + 1
    BY <2>1 DEF TaskRecord
  <2>4. Len(q) <= CmdCap
    <3>1. CmdCap \in Nat
      BY FlowAssumption
    <3>2. Len(task[t].cmds) \in Nat
      BY <2>1 DEF TaskRecord
    <3>3. QED
      BY <2>1, <2>3, <3>1, <3>2
  <2>5. Sent(t, cmd) = [task EXCEPT ![t].cmds = q]
    BY <1>1 DEF Sent
  <2> HIDE DEF q
  <2>6. DEFINE r == [task[t] EXCEPT !.cmds = q]
  <2>7. r \in TaskRecord /\ r.cmds = q
    BY <2>1, <2>3 DEF TaskRecord
  <2>8. Sent(t, cmd) = [task EXCEPT ![t] = r]
    BY <2>5
  <2> HIDE DEF r
  <2>9. QED
    BY <2>1, <2>4, <2>7, <2>8 DEF TaskOK
<1>2. CASE ~(t # NoTask /\ Accepts(t))
  BY <1>2 DEF Sent
<1>3. QED
  BY <1>1, <1>2

LEMMA AbortedOK ==
    ASSUME TaskOK(task), NEW t \in Tasks
    PROVE  TaskOK(Aborted(t))
BY DEF TaskOK, Aborted, TaskRecord

(* A new scanner starts with at most the one command it is spawned with. *)
LEMMA SpawnOK ==
    ASSUME TaskOK(task), NEW t \in Tasks,
           NEW cmds \in {<<>>} \cup {<<start>> : start \in Commands}, Spawn(t, cmds)
    PROVE  TaskOK(task') /\ slot' \in Tasks
<1>1. cmds \in Seq(Commands) /\ Len(cmds) \in {0, 1}
  <2>1. CASE cmds = <<>>
    BY <2>1
  <2>2. CASE \E start \in Commands : cmds = <<start>>
    BY <2>2
  <2>3. QED
    BY <2>1, <2>2
<1>2. Len(cmds) <= CmdCap
  <2>1. CmdCap \in Nat \ {0}
    BY FlowAssumption
  <2>2. QED
    BY <1>1, <2>1
<1>3. /\ task' = [task EXCEPT ![t] = [Unborn EXCEPT !.st = "live", !.cmds = cmds]]
      /\ slot' = t
  BY DEF Spawn, TaskOK
<1>4. /\ [Unborn EXCEPT !.st = "live", !.cmds = cmds] \in TaskRecord
      /\ [Unborn EXCEPT !.st = "live", !.cmds = cmds].cmds = cmds
  BY <1>1 DEF Unborn, TaskRecord
<1>5. QED
  BY <1>2, <1>3, <1>4 DEF TaskOK

(* The steps of the task itself. *)
LEMMA TaskStepOK ==
    ASSUME TaskOK(task), NEW t \in Tasks,
           Drain(t) \/ Pull(t) \/ Frame(t) \/ Reap(t)
    PROVE  TaskOK(task')
<1> task[t] \in TaskRecord /\ Len(task[t].cmds) <= CmdCap /\ CmdCap \in Nat
  BY FlowAssumption DEF TaskOK
<1>1. CASE Drain(t)
  <2> DEFINE r == [task[t] EXCEPT !.cmds = Tail(task[t].cmds),
                                  !.running = (Head(task[t].cmds) # "Stop"),
                                  !.vfos = (Head(task[t].cmds) = "Start")]
  <2>1. /\ Tail(task[t].cmds) \in Seq(Commands)
        /\ Len(Tail(task[t].cmds)) <= CmdCap
    BY <1>1 DEF Drain, TaskRecord
  <2>2. r \in TaskRecord /\ r.cmds = Tail(task[t].cmds)
    BY <2>1 DEF TaskRecord
  <2>3. task' = [task EXCEPT ![t] = r]
    BY <1>1 DEF Drain
  <2> HIDE DEF r
  <2>4. QED
    BY <2>1, <2>2, <2>3 DEF TaskOK
<1>2. CASE Pull(t) \/ Frame(t)
  <2>1. PICK p \in {"drain", "pull"} : task' = [task EXCEPT ![t].phase = p]
    BY <1>2 DEF Pull, Frame
  <2>2. QED
    BY <2>1 DEF TaskOK, TaskRecord
<1>3. CASE Reap(t)
  <2>1. Unborn \in TaskRecord /\ Len(Unborn.cmds) <= CmdCap
    BY DEF Unborn, TaskRecord
  <2>2. task' = [task EXCEPT ![t] = Unborn]
    BY <1>3 DEF Reap
  <2>3. QED
    BY <2>1, <2>2 DEF TaskOK
<1>4. QED
  BY <1>1, <1>2, <1>3

-----------------------------------------------------------------------------
(* Typing of the parts an action changes *)

LEMMA SessionStepOK ==
    ASSUME SessionTypeOK, NEW o \in Owners, NEW force \in BOOLEAN,
           Claim(o, force) \/ Release(o) \/ UNCHANGED sessionVars
    PROVE  SessionTypeOK'
<1>1. \A n \in 0 .. MaxCount : Saturating(n) \in 0 .. MaxCount
  BY SessionAssumption DEF Saturating
<1>2. QED
  BY <1>1 DEF SessionTypeOK, Claim, Release, sessionVars

LEMMA GotoOK ==
    ASSUME pc \in [Actors -> Labels], NEW a \in Actors, NEW from,
           NEW to \in Labels, Goto(a, from, to)
    PROVE  pc' \in [Actors -> Labels]
BY DEF Goto

LEMMA RecordOK ==
    ASSUME SessionTypeOK, NEW act \in {"retune", "stop"},
           NEW by \in {"scanner", "manual"} \cup Jobs, Record(act, by)
    PROVE  lastAct' \in Acts
BY DEF SessionTypeOK, Record, Acts

LEMMA ReturnOK == \A a : Return(a) \in Labels
BY DEF Return, Labels, ClientLabels

LEMMA StartsOK == Starts \subseteq Commands
BY FlowAssumption DEF Commands

LEMMA OwnersOK == "scanner" \in Owners /\ Jobs \subseteq Owners /\ Names \subseteq Owners
BY FlowAssumption

THEOREM TypeInitial == Init => TypeOK
<1> SUFFICES ASSUME Init PROVE TypeOK
  OBVIOUS
<1>1. SessionTypeOK
  BY SessionAssumption DEF Init, SessionInit, SessionTypeOK
<1>2. TaskOK(task)
  BY FlowAssumption DEF Init, TaskOK, TaskRecord, Unborn
<1>3. pc \in [Actors -> Labels]
  BY DEF Init, Labels, ClientLabels, FlowLabels
<1>4. driver \in {"mock", "hw"} /\ connected \in BOOLEAN /\ iq \in BOOLEAN
  BY FlowAssumption DEF Init
<1>5. budget \in 0 .. Budget
  BY FlowAssumption DEF Init
<1>6. lastAct \in Acts
  BY DEF Init, Acts
<1>7. job \in [Jobs -> {"due", "running", "completed", "failed", "blocked"}]
  BY DEF Init
<1>8. QED
  BY <1>1, <1>2, <1>3, <1>4, <1>5, <1>6, <1>7 DEF Init, TypeOK, TaskOK

-----------------------------------------------------------------------------
(* Every step keeps the types.  The parts of TypeOK follow the groups of    *)
(* variables that actions leave alone.                                      *)

ReceiverOK ==
    /\ guard \in Actors \cup {Nobody}
    /\ slot \in Tasks \cup {NoTask}
    /\ TaskOK(task)
    /\ connected \in BOOLEAN
    /\ driver \in {"mock", "hw"}
    /\ iq \in BOOLEAN
    /\ replaced \subseteq Tasks

JobOK ==
    /\ job \in [Jobs -> {"due", "running", "completed", "failed", "blocked"}]
    /\ timer \in [Jobs -> {"none", "sleeping", "stopping"}]
    /\ cur \in Jobs \cup {Nobody}

ActorOK ==
    /\ pc \in [Actors -> Labels]
    /\ held \in [Actors -> Tasks \cup {NoTask}]
    /\ hotplugged \in BOOLEAN
    /\ budget \in 0 .. Budget

LEMMA TypeParts ==
    TypeOK <=> SessionTypeOK /\ ReceiverOK /\ JobOK /\ ActorOK /\ lastAct \in Acts
BY DEF TypeOK, ReceiverOK, JobOK, ActorOK, TaskOK

LEMMA TypeNext ==
    SessionTypeOK' /\ ReceiverOK' /\ JobOK' /\ ActorOK' /\ lastAct' \in Acts => TypeOK'
BY DEF TypeOK, ReceiverOK, JobOK, ActorOK, TaskOK, Acts

LEMMA SameReceiver == ReceiverOK /\ UNCHANGED receiverVars => ReceiverOK'
BY DEF ReceiverOK, receiverVars, TaskOK

LEMMA SameJobs == JobOK /\ UNCHANGED jobVars => JobOK'
BY DEF JobOK, jobVars

LEMMA SameSession == SessionTypeOK /\ UNCHANGED sessionVars => SessionTypeOK'
BY DEF SessionTypeOK, sessionVars

LEMMA SameActors == ActorOK /\ UNCHANGED actorVars => ActorOK'
BY DEF ActorOK, actorVars

(* The steps shared by the actors. *)
LEMMA MoveOK ==
    ASSUME ActorOK, NEW a \in Actors, NEW from, NEW to \in Labels,
           Goto(a, from, to), UNCHANGED <<held, hotplugged, budget>>
    PROVE  ActorOK'
BY DEF Goto, ActorOK

LEMMA TuneOK ==
    ASSUME TypeOK, NEW a \in Actors, NEW by \in {"scanner", "manual"} \cup Jobs,
           NEW from, NEW done \in Labels, NEW failed \in Labels,
           Tune(a, by, from, done, failed)
    PROVE  TypeOK'
<1>1. ActorOK'
  BY TypeParts, MoveOK DEF Tune
<1>2. lastAct' \in Acts
  BY TypeParts, RecordOK DEF Tune
<1>3. QED
  BY <1>1, <1>2, TypeParts, TypeNext, SameReceiver, SameJobs, SameSession DEF Tune

LEMMA ReleaseLeaseOK ==
    ASSUME TypeOK, NEW a \in Actors, NEW o \in Owners, NEW from, NEW to \in Labels,
           ReleaseLease(a, o, from, to), JobOK'
    PROVE  TypeOK'
<1>1. ActorOK'
  BY TypeParts, MoveOK DEF ReleaseLease
<1>2. SessionTypeOK'
  <2>1. TRUE \in BOOLEAN
    OBVIOUS
  <2>2. SessionTypeOK /\ Release(o)
    BY TypeParts DEF ReleaseLease
  <2>3. QED
    BY <2>1, <2>2, SessionStepOK
<1>3. QED
  BY <1>1, <1>2, TypeParts, TypeNext, SameReceiver DEF ReleaseLease


-----------------------------------------------------------------------------
(* The steps of everyone but the job executor.  They may disturb a job only *)
(* through the lease, and under names that no job has.                      *)

Outside ==
    /\ UNCHANGED jobVars
    /\ pc'["scheduler"] = pc["scheduler"]
    /\ \/ UNCHANGED sessionVars
       \/ \E o \in {"scanner"} \cup Names, force \in BOOLEAN : Claim(o, force) \/ Release(o)
    /\ lastAct' = lastAct \/ lastAct'.by \in {"scanner", "manual"}

Others == Clients \cup {"boot", "supervisor"}

LEMMA OthersOK == Others \subseteq Actors \ {"scheduler"}
BY FlowAssumption DEF Others, Actors

LEMMA OtherGoto ==
    ASSUME ActorOK, NEW a \in Others, NEW from, NEW to, Goto(a, from, to)
    PROVE  pc'["scheduler"] = pc["scheduler"]
BY OthersOK DEF ActorOK, Goto, Actors

LEMMA LabelsOK ==
    /\ ClientLabels \subseteq Labels /\ FlowLabels \subseteq Labels
    /\ {"idle", "hot_stop", "recheck", "jb_release", "jb_claim", "jb_tune",
        "jb_start", "jb_abandon"} \subseteq Labels
BY DEF Labels, ClientLabels

LEMMA OtherTune ==
    ASSUME TypeOK, NEW a \in Others, NEW by \in {"scanner", "manual"},
           NEW from, NEW done \in Labels, NEW failed \in Labels,
           Tune(a, by, from, done, failed)
    PROVE  TypeOK' /\ Outside
<1>1. TypeOK'
  BY TuneOK, OthersOK
<1>2. pc'["scheduler"] = pc["scheduler"]
  BY OtherGoto, TypeParts DEF Tune
<1>3. lastAct' = lastAct \/ lastAct'.by = by
  BY DEF Tune, Record
<1>4. QED
  BY <1>1, <1>2, <1>3 DEF Tune, Outside

LEMMA OtherRelease ==
    ASSUME TypeOK, NEW a \in Others, NEW from, NEW to \in Labels,
           ReleaseLease(a, "scanner", from, to), UNCHANGED jobVars
    PROVE  TypeOK' /\ Outside
<1>1. TypeOK'
  BY ReleaseLeaseOK, OthersOK, OwnersOK, TypeParts, SameJobs
<1>2. pc'["scheduler"] = pc["scheduler"]
  BY OtherGoto, TypeParts DEF ReleaseLease
<1>3. \E o \in {"scanner"} \cup Names, force \in BOOLEAN : Claim(o, force) \/ Release(o)
  BY DEF ReleaseLease
<1>4. QED
  BY <1>1, <1>2, <1>3 DEF ReleaseLease, Outside

(* A step that leaves lease, jobs and history alone. *)
LEMMA OtherMove ==
    ASSUME TypeOK, NEW a \in Others, NEW from, NEW to \in Labels, Goto(a, from, to),
           held' \in [Actors -> Tasks \cup {NoTask}], hotplugged' \in BOOLEAN,
           budget' \in 0 .. Budget, ReceiverOK',
           UNCHANGED <<sessionVars, jobVars, lastAct>>
    PROVE  TypeOK' /\ Outside
<1>1. pc' \in [Actors -> Labels]
  BY GotoOK, OthersOK, TypeParts DEF ActorOK
<1>2. ActorOK'
  BY <1>1 DEF ActorOK
<1>3. pc'["scheduler"] = pc["scheduler"]
  BY OtherGoto, TypeParts
<1>4. QED
  BY <1>2, <1>3, TypeParts, TypeNext, SameSession, SameJobs DEF Outside

LEMMA FlowStep ==
    ASSUME TypeOK, NEW a \in Others, Flow(a)
    PROVE  TypeOK' /\ Outside
<1> USE OthersOK, LabelsOK, ReturnOK
<1>1. CASE FlowCheck(a)
  <2>1. ReceiverOK'
    BY <1>1, TypeParts, SameReceiver DEF FlowCheck
  <2>2. QED
    BY <1>1, <2>1, OtherMove, TypeParts DEF FlowCheck, FlowLabels, ActorOK
<1>2. CASE FlowClaim(a)
  <2>1. PICK to \in Labels : Goto(a, "flow_claim", to)
    BY <1>2 DEF FlowClaim, FlowLabels
  <2>2. Claim("scanner", FALSE) \/ UNCHANGED sessionVars
    BY <1>2 DEF FlowClaim
  <2>3. SessionTypeOK'
    BY <2>2, SessionStepOK, SameSession, OwnersOK, TypeParts
  <2>4. ActorOK' /\ pc'["scheduler"] = pc["scheduler"]
    BY <1>2, <2>1, MoveOK, OtherGoto, TypeParts DEF FlowClaim
  <2>5. QED
    BY <1>2, <2>2, <2>3, <2>4, TypeParts, TypeNext, SameReceiver, SameJobs
    DEF FlowClaim, Outside
<1>3. CASE FlowTune(a)
  BY <1>3, OtherTune DEF FlowTune, FlowLabels
<1>4. CASE FlowRelease(a)
  BY <1>4, OtherRelease DEF FlowRelease
<1>5. CASE FlowSlot(a)
  <2>1. ReceiverOK'
    BY <1>5, TypeParts, AbortedOK DEF FlowSlot, ReceiverOK
  <2>2. held' \in [Actors -> Tasks \cup {NoTask}]
    BY <1>5, TypeParts DEF FlowSlot, ReceiverOK, ActorOK
  <2>3. PICK to \in Labels : Goto(a, "flow_slot", to)
    BY <1>5 DEF FlowSlot, FlowLabels
  <2>4. QED
    BY <1>5, <2>1, <2>2, <2>3, OtherMove, TypeParts DEF FlowSlot, ActorOK
<1>6. CASE FlowSend(a)
  <2>1. held[a] \in Tasks \cup {NoTask}
    BY TypeParts DEF ActorOK
  <2>2. ReceiverOK'
    BY <1>6, <2>1, TypeParts, SentOK, StartsOK DEF FlowSend, ReceiverOK, Commands
  <2>3. held' \in [Actors -> Tasks \cup {NoTask}]
    BY <1>6, TypeParts DEF FlowSend, ActorOK
  <2>4. PICK to \in Labels : Goto(a, "flow_send", to)
    BY <1>6 DEF FlowSend, FlowLabels
  <2>5. QED
    BY <1>6, <2>2, <2>3, <2>4, OtherMove, TypeParts DEF FlowSend, ActorOK
<1>7. CASE FlowSpawn(a)
  <2>1. ReceiverOK'
    <3>1. PICK t \in Tasks, start \in Starts : Spawn(t, <<start>>)
      BY <1>7 DEF FlowSpawn
    <3>2. <<start>> \in {<<>>} \cup {<<s>> : s \in Commands}
      BY StartsOK
    <3>3. TaskOK(task') /\ slot' \in Tasks
      BY <3>1, <3>2, TypeParts, SpawnOK DEF ReceiverOK
    <3>4. replaced' \subseteq Tasks
      BY <3>1, TypeParts DEF Spawn, ReceiverOK
    <3>5. QED
      BY <1>7, <3>3, <3>4, TypeParts DEF FlowSpawn, ReceiverOK
  <2>2. QED
    BY <1>7, <2>1, OtherMove, TypeParts DEF FlowSpawn, ActorOK
<1>8. QED
  BY <1>1, <1>2, <1>3, <1>4, <1>5, <1>6, <1>7 DEF Flow


LEMMA ClientsOK == Clients \subseteq Others
BY DEF Others

LEMMA BeginOK ==
    ASSUME TypeOK, NEW c \in Clients, NEW request, NEW to \in Labels,
           Begin(c, request, to)
    PROVE  /\ budget' \in 0 .. Budget
           /\ Goto(c, "idle", to)
           /\ pc' \in [Actors -> Labels]
           /\ pc'["scheduler"] = pc["scheduler"]
<1>1. budget \in 0 .. Budget /\ Budget \in Nat
  BY FlowAssumption, TypeParts DEF ActorOK
<1>2. budget' \in 0 .. Budget
  BY <1>1 DEF Begin
<1>3. Goto(c, "idle", to)
  BY DEF Begin
<1>4. QED
  BY <1>2, <1>3, GotoOK, OtherGoto, ClientsOK, OthersOK, TypeParts DEF ActorOK

(* A request that looks at the state and goes on, or is refused. *)
LEMMA BeginMove ==
    ASSUME TypeOK, NEW c \in Clients, NEW request, NEW to \in Labels,
           Begin(c, request, to), held' \in [Actors -> Tasks \cup {NoTask}],
           UNCHANGED hotplugged, ReceiverOK',
           UNCHANGED <<sessionVars, jobVars, lastAct>>
    PROVE  TypeOK' /\ Outside
<1>1. Goto(c, "idle", to) /\ budget' \in 0 .. Budget
  BY BeginOK
<1>2. hotplugged' \in BOOLEAN
  BY TypeParts DEF ActorOK
<1>3. QED
  BY <1>1, <1>2, OtherMove, ClientsOK

(* A request that claims or releases under a name no job has. *)
LEMMA BeginLease ==
    ASSUME TypeOK, NEW c \in Clients, NEW request, NEW to \in Labels,
           Begin(c, request, to), NEW o \in {"scanner"} \cup Names,
           NEW force \in BOOLEAN,
           Claim(o, force) \/ Release(o) \/ UNCHANGED sessionVars, ReceiverOK',
           UNCHANGED <<jobVars, held, hotplugged, lastAct>>
    PROVE  TypeOK' /\ Outside
<1>1. SessionTypeOK'
  BY SessionStepOK, OwnersOK, TypeParts
<1>2. ActorOK' /\ pc'["scheduler"] = pc["scheduler"]
  BY BeginOK, TypeParts DEF ActorOK
<1>3. QED
  BY <1>1, <1>2, TypeParts, TypeNext, SameJobs DEF Outside

LEMMA RequestStep ==
    ASSUME TypeOK, NEW c \in Clients, Request(c)
    PROVE  TypeOK' /\ Outside
<1>1. CASE ScanClaim(c)
  <2>1. ReceiverOK'
    BY <1>1, TypeParts, ClientsOK, OthersOK DEF ScanClaim, ReceiverOK, TaskOK
  <2>2. PICK to \in Labels : Begin(c, "scan_start", to)
    BY <1>1 DEF ScanClaim, Labels, ClientLabels
  <2>3. Claim("scanner", FALSE) \/ UNCHANGED sessionVars
    BY <1>1 DEF ScanClaim
  <2>4. "scanner" \in {"scanner"} \cup Names /\ FALSE \in BOOLEAN
    OBVIOUS
  <2>5. QED
    BY <1>1, <2>1, <2>2, <2>3, <2>4, BeginLease DEF ScanClaim
<1>2. CASE ScanStop(c)
  <2>1. ReceiverOK'
    BY <1>2, TypeParts, SameReceiver DEF ScanStop
  <2>2. held' \in [Actors -> Tasks \cup {NoTask}]
    BY <1>2, TypeParts DEF ScanStop, ActorOK, ReceiverOK
  <2>3. "st_send" \in Labels
    BY DEF Labels, ClientLabels
  <2>4. QED
    BY <1>2, <2>1, <2>2, <2>3, BeginMove DEF ScanStop
<1>3. CASE ConnectCheck(c)
  <2>1. ReceiverOK'
    BY <1>3, TypeParts, SameReceiver DEF ConnectCheck
  <2>2. PICK to \in Labels : Begin(c, "connect", to)
    BY <1>3 DEF ConnectCheck, Labels, ClientLabels
  <2>3. QED
    BY <1>3, <2>1, <2>2, BeginMove, TypeParts DEF ConnectCheck, ActorOK
<1>4. CASE Disconnect(c)
  <2>1. ReceiverOK'
    BY <1>4, TypeParts DEF Disconnect, ReceiverOK, TaskOK
  <2>2. QED
    BY <1>4, <2>1, BeginMove, LabelsOK, TypeParts DEF Disconnect, ActorOK
<1>5. CASE TuneCheck(c)
  <2>1. ReceiverOK'
    BY <1>5, TypeParts, SameReceiver DEF TuneCheck
  <2>2. PICK to \in Labels : Begin(c, "tune", to)
    BY <1>5 DEF TuneCheck, Labels, ClientLabels
  <2>3. QED
    BY <1>5, <2>1, <2>2, BeginMove, TypeParts DEF TuneCheck, ActorOK
<1>6. CASE UncheckedRetune(c)
  <2>1. lastAct' \in Acts /\ lastAct'.by = "manual"
    BY <1>6, RecordOK, TypeParts DEF UncheckedRetune, Record
  <2>2. ActorOK' /\ pc'["scheduler"] = pc["scheduler"]
    BY <1>6, BeginOK, LabelsOK, TypeParts DEF UncheckedRetune, ActorOK
  <2>3. QED
    BY <1>6, <2>1, <2>2, TypeParts, TypeNext, SameReceiver, SameJobs, SameSession
    DEF UncheckedRetune, Outside
<1>7. CASE LeaseClaim(c)
  <2>1. PICK n \in Names, force \in BOOLEAN : Claim(n, force) \/ UNCHANGED sessionVars
    BY <1>7, FlowAssumption DEF LeaseClaim
  <2>2. ReceiverOK'
    BY <1>7, TypeParts, SameReceiver DEF LeaseClaim
  <2>3. QED
    BY <1>7, <2>1, <2>2, BeginLease, LabelsOK DEF LeaseClaim
<1>8. CASE LeaseRelease(c)
  <2>1. PICK n \in Names : Release(n)
    BY <1>8 DEF LeaseRelease
  <2>2. ReceiverOK'
    BY <1>8, TypeParts, SameReceiver DEF LeaseRelease
  <2>3. FALSE \in BOOLEAN
    OBVIOUS
  <2>4. QED
    BY <1>8, <2>1, <2>2, <2>3, BeginLease, LabelsOK DEF LeaseRelease
<1>9. QED
  BY <1>1, <1>2, <1>3, <1>4, <1>5, <1>6, <1>7, <1>8 DEF Request

LEMMA HandlerStep ==
    ASSUME TypeOK, NEW c \in Clients, Handler(c)
    PROVE  TypeOK' /\ Outside
<1> USE ClientsOK, LabelsOK
<1> held[c] \in Tasks \cup {NoTask} /\ slot \in Tasks \cup {NoTask}
  BY OthersOK, TypeParts DEF ActorOK, ReceiverOK
<1>1. CASE ScanTune(c)
  BY <1>1, OtherTune DEF ScanTune, ClientLabels
<1>2. CASE ScanFail(c)
  BY <1>2, OtherRelease DEF ScanFail
<1>3. CASE ScanSlot(c)
  <2>1. ReceiverOK'
    BY <1>3, TypeParts, SameReceiver DEF ScanSlot
  <2>2. held' \in [Actors -> Tasks \cup {NoTask}]
    BY <1>3, TypeParts DEF ScanSlot, ActorOK
  <2>3. PICK to \in Labels : Goto(c, "ss_slot", to)
    BY <1>3 DEF ScanSlot, ClientLabels
  <2>4. QED
    BY <1>3, <2>1, <2>2, <2>3, OtherMove, TypeParts DEF ScanSlot, ActorOK
<1>4. CASE ScanSend(c)
  <2>1. ReceiverOK'
    BY <1>4, TypeParts, SentOK, StartsOK DEF ScanSend, ReceiverOK, Commands
  <2>2. held' \in [Actors -> Tasks \cup {NoTask}]
    BY <1>4, TypeParts DEF ScanSend, ActorOK
  <2>3. QED
    BY <1>4, <2>1, <2>2, OtherMove, TypeParts DEF ScanSend, ActorOK
<1>5. CASE ScanSpawn(c)
  <2>1. ReceiverOK'
    BY <1>5, TypeParts, SpawnOK, StartsOK DEF ScanSpawn, Spawn, ReceiverOK
  <2>2. QED
    BY <1>5, <2>1, OtherMove, TypeParts DEF ScanSpawn, ActorOK, ClientLabels
<1>6. CASE ScanFirst(c)
  <2>1. ReceiverOK'
    BY <1>6, TypeParts, SentOK, StartsOK DEF ScanFirst, ReceiverOK, Commands
  <2>2. QED
    BY <1>6, <2>1, OtherMove, TypeParts DEF ScanFirst, ActorOK
<1>7. CASE StopSend(c)
  <2>1. ReceiverOK'
    BY <1>7, TypeParts, SentOK DEF StopSend, ReceiverOK, Commands
  <2>2. held' \in [Actors -> Tasks \cup {NoTask}]
    BY <1>7, TypeParts DEF StopSend, ActorOK
  <2>3. lastAct' \in Acts /\ (lastAct' = lastAct \/ lastAct'.by = "scanner")
    BY <1>7, RecordOK, TypeParts DEF StopSend, RecordStop, Record
  <2>4. pc' \in [Actors -> Labels] /\ pc'["scheduler"] = pc["scheduler"]
    BY <1>7, GotoOK, OtherGoto, OthersOK, TypeParts DEF StopSend, ClientLabels, ActorOK
  <2>5. ActorOK'
    BY <1>7, <2>2, <2>4, TypeParts DEF StopSend, ActorOK
  <2>6. QED
    BY <1>7, <2>1, <2>3, <2>4, <2>5, TypeParts, TypeNext, SameSession, SameJobs
    DEF StopSend, Outside
<1>8. CASE StopRelease(c)
  BY <1>8, OtherRelease DEF StopRelease
<1>9. CASE ConnectPause(c)
  <2>1. ReceiverOK'
    BY <1>9, TypeParts, AbortedOK DEF ConnectPause, ReceiverOK
  <2>2. PICK to \in Labels : Goto(c, "dc_pause", to)
    BY <1>9 DEF ConnectPause, ClientLabels
  <2>3. QED
    BY <1>9, <2>1, <2>2, OtherMove, TypeParts DEF ConnectPause, ActorOK
<1>10. CASE ConnectRelease(c)
  BY <1>10, OtherRelease DEF ConnectRelease, ClientLabels
<1>11. CASE Connect(c)
  <2>1. PICK from \in {"dc_connect", "dc_reconnect"}, to \in Labels : Goto(c, from, to)
    BY <1>11 DEF Connect, FlowLabels
  <2>2. connected' \in BOOLEAN /\ driver' \in {"mock", "hw"}
    BY <1>11, TypeParts DEF Connect, DeviceConnects, DeviceRefuses, ReceiverOK
  <2>3. ReceiverOK'
    BY <1>11, <2>2, TypeParts DEF Connect, ReceiverOK, TaskOK
  <2>4. QED
    BY <1>11, <2>1, <2>3, OtherMove, TypeParts DEF Connect, ActorOK
<1>12. CASE TuneApply(c)
  BY <1>12, OtherTune DEF TuneApply
<1>13. QED
  BY <1>1, <1>2, <1>3, <1>4, <1>5, <1>6, <1>7, <1>8, <1>9, <1>10, <1>11, <1>12
  DEF Handler


LEMMA CancelStep ==
    ASSUME TypeOK, NEW c \in Clients, Cancel(c)
    PROVE  TypeOK' /\ Outside
<1>1. ReceiverOK'
  BY TypeParts, SameReceiver DEF Cancel
<1>2. held' \in [Actors -> Tasks \cup {NoTask}]
  BY TypeParts DEF Cancel, ActorOK
<1>3. QED
  BY <1>1, <1>2, OtherMove, ClientsOK, LabelsOK, TypeParts DEF Cancel, ActorOK

LEMMA SupervisorStep ==
    ASSUME TypeOK, Supervisor
    PROVE  TypeOK' /\ Outside
<1> USE LabelsOK
<1> "supervisor" \in Others
  BY DEF Others
<1>1. CASE ProbeConnects
  <2>1. ReceiverOK'
    BY <1>1, TypeParts DEF ProbeConnects, DeviceConnects, ReceiverOK, TaskOK
  <2>2. QED
    BY <1>1, <2>1, OtherMove, TypeParts DEF ProbeConnects, ActorOK
<1>2. CASE ProbeFails
  <2>1. ReceiverOK'
    BY <1>2, TypeParts DEF ProbeFails, DeviceRefuses, ReceiverOK, TaskOK
  <2>2. QED
    BY <1>2, <2>1, OtherMove, TypeParts DEF ProbeFails, ActorOK
<1>3. CASE HotplugStop
  <2>1. ReceiverOK'
    BY <1>3, TypeParts, SentOK DEF HotplugStop, ReceiverOK, Commands
  <2>2. QED
    BY <1>3, <2>1, OtherMove, TypeParts DEF HotplugStop, ActorOK, FlowLabels
<1>4. CASE Recover
  <2>1. ReceiverOK'
    BY <1>4, TypeParts, SameReceiver DEF Recover
  <2>2. PICK from : Goto("supervisor", from, "flow")
    BY <1>4 DEF Recover
  <2>3. QED
    BY <1>4, <2>1, <2>2, OtherMove, TypeParts DEF Recover, ActorOK, FlowLabels
<1>5. CASE NoRecovery
  <2>1. ReceiverOK'
    BY <1>5, TypeParts, SameReceiver DEF NoRecovery
  <2>2. QED
    BY <1>5, <2>1, OtherMove, TypeParts DEF NoRecovery, ActorOK
<1>6. QED
  BY <1>1, <1>2, <1>3, <1>4, <1>5 DEF Supervisor

LEMMA TaskAndDeviceStep ==
    ASSUME TypeOK,
           \/ \E t \in Tasks : Drain(t) \/ Pull(t) \/ Frame(t) \/ Reap(t)
           \/ Stall \/ Deliver \/ CaptureRecover
    PROVE  TypeOK' /\ Outside
<1>1. /\ ReceiverOK'
      /\ UNCHANGED <<sessionVars, jobVars, actorVars, lastAct>>
  <2>1. CASE \E t \in Tasks : Drain(t) \/ Pull(t) \/ Frame(t) \/ Reap(t)
    <3>1. PICK t \in Tasks : Drain(t) \/ Pull(t) \/ Frame(t) \/ Reap(t)
      BY <2>1
    <3>2. TaskOK(task')
      BY <3>1, TaskStepOK, TypeParts DEF ReceiverOK
    <3>3. TaskOnly
      BY <3>1 DEF Drain, Pull, Frame, Reap
    <3>4. QED
      BY <3>2, <3>3, TypeParts DEF TaskOnly, ReceiverOK
  <2>2. CASE Stall \/ Deliver \/ CaptureRecover
    BY <2>2, TypeParts DEF Stall, Deliver, CaptureRecover, ReceiverOK, TaskOK
  <2>3. QED
    BY <2>1, <2>2
<1>2. pc' = pc
  BY <1>1 DEF actorVars
<1>3. QED
  BY <1>1, <1>2, TypeParts, TypeNext, SameSession, SameJobs, SameActors DEF Outside

-----------------------------------------------------------------------------
(* The inductive invariant.  Types alone are not inductive: the executor    *)
(* names cur in its claim.  And that a job which is executed holds the      *)
(* lease is kept by a claim for another job only because the job at hand is *)
(* not yet running, and by a completion only because it releases under the  *)
(* name of a job that runs.                                                 *)

JobLabels == {"jb_release", "jb_claim", "jb_tune", "jb_start", "jb_abandon"}

ExecutorOK ==
    /\ pc["scheduler"] \in JobLabels \cup {"idle"}
    /\ pc["scheduler"] \in JobLabels <=> cur \in Jobs
    /\ cur \in Jobs => job[cur] = "due" /\ timer[cur] = "none"
    /\ \A j \in Jobs : timer[j] # "none" => job[j] = "running"

IInv ==
    /\ TypeOK
    /\ ExecutorOK
    /\ JobHoldsLease
    /\ JobRetunesOwnReceiver

LEMMA NoJobOK ==
    /\ Nobody \notin Jobs
    /\ "scheduler" \in Actors /\ "scheduler" \notin Others
    /\ NoOwner \notin Jobs
    /\ ({"scanner"} \cup Names) \cap Jobs = {}
BY FlowAssumption, SessionAssumption, OthersOK DEF Actors


(* A step of someone else keeps the invariant: the names it claims and      *)
(* releases under are no job's, and a claim that takes the receiver away    *)
(* from a job is forced and counted.                                        *)
LEMMA OutsideKeeps ==
    ASSUME IInv, TypeOK', Outside
    PROVE  IInv'
<1>1. ExecutorOK'
  BY DEF IInv, ExecutorOK, Outside, jobVars
<1>2. \A j : Executing(j)' <=> Executing(j)
  BY DEF Executing, Outside, jobVars
<1>3. takeovers' = 0 => takeovers = 0
  BY SessionAssumption
  DEF IInv, TypeOK, SessionTypeOK, Outside, Claim, Release, Saturating, sessionVars
<1>4. JobHoldsLease'
  <2> SUFFICES ASSUME takeovers' = 0, NEW j \in Jobs, Executing(j)'
               PROVE  owner' = j
    BY DEF JobHoldsLease
  <2>1. owner = j /\ takeovers = 0
    BY <1>2, <1>3 DEF IInv, JobHoldsLease
  <2>2. CASE UNCHANGED sessionVars
    BY <2>1, <2>2 DEF sessionVars
  <2>3. ASSUME NEW o \in {"scanner"} \cup Names, NEW force \in BOOLEAN,
               Claim(o, force) \/ Release(o)
        PROVE  owner' = j
    <3>1. o # j /\ j # NoOwner
      BY NoJobOK
    <3>2. ~Claim(o, force)
      BY <2>1, <3>1, SessionAssumption DEF Claim, Saturating
    <3>3. QED
      BY <2>1, <2>3, <3>1, <3>2 DEF Release, sessionVars
  <2>4. QED
    BY <2>2, <2>3 DEF Outside
<1>5. JobRetunesOwnReceiver'
  <2>1. "scanner" \notin Jobs /\ "manual" \notin Jobs
    BY FlowAssumption
  <2>2. QED
    BY <1>3, <2>1 DEF IInv, JobRetunesOwnReceiver, Outside
<1>6. QED
  BY <1>1, <1>4, <1>5 DEF IInv

(* Lease and retunes after a step that starts no job's execution and leaves *)
(* the lease alone.                                                         *)
LEMMA SameLease ==
    ASSUME IInv, UNCHANGED sessionVars, UNCHANGED lastAct \/ lastAct'.act = "stop",
           \A j \in Jobs : Executing(j)' => Executing(j)
    PROVE  JobHoldsLease' /\ JobRetunesOwnReceiver'
BY DEF IInv, JobHoldsLease, JobRetunesOwnReceiver, sessionVars

(* The steps of the executor and of its completion tasks. *)
LEMMA RejectKeeps ==
    ASSUME IInv, NEW j \in Jobs, JobReject(j)
    PROVE  IInv'
<1>1. ActorOK' /\ pc' = pc
  BY TypeParts, NoJobOK DEF IInv, JobReject, Goto, ActorOK
<1>2. JobOK'
  BY TypeParts DEF IInv, JobReject, JobOK, SetJob
<1>3. TypeOK'
  BY <1>1, <1>2, TypeParts, TypeNext, SameReceiver, SameSession DEF IInv, JobReject
<1>4. ExecutorOK'
  BY <1>1, TypeParts DEF IInv, JobReject, JobOK, SetJob, ExecutorOK, Goto, JobLabels
<1>5. \A k \in Jobs : Executing(k)' => Executing(k)
  BY <1>1 DEF JobReject, Executing
<1>6. QED
  BY <1>3, <1>4, <1>5, SameLease DEF IInv, JobReject

LEMMA StopKeeps ==
    ASSUME IInv, NEW j \in Jobs, JobStop(j)
    PROVE  IInv'
<1>1. /\ ActorOK' /\ pc["scheduler"] = "idle" /\ pc'["scheduler"] = "jb_release"
  BY TypeParts, NoJobOK, LabelsOK DEF IInv, JobStop, Goto, ActorOK
<1>2. ReceiverOK'
  BY TypeParts, SentOK DEF IInv, JobStop, ReceiverOK, Commands
<1>3. lastAct' \in Acts /\ (UNCHANGED lastAct \/ lastAct'.act = "stop")
  BY TypeParts, RecordOK DEF IInv, JobStop, RecordStop, Record
<1>4. JobOK'
  BY TypeParts DEF IInv, JobStop, JobOK
<1>5. TypeOK'
  BY <1>1, <1>2, <1>3, <1>4, TypeParts, TypeNext, SameSession DEF IInv, JobStop
<1>6. ExecutorOK'
  <2>1. job[j] = "due" /\ cur' = j /\ UNCHANGED <<job, timer>>
    BY DEF JobStop
  <2>2. timer[j] = "none"
    BY <2>1 DEF IInv, ExecutorOK
  <2>3. QED
    BY <1>1, <2>1, <2>2 DEF IInv, ExecutorOK, JobLabels
<1>7. \A k \in Jobs : Executing(k)' => Executing(k)
  BY <1>1 DEF JobStop, Executing
<1>8. QED
  BY <1>3, <1>5, <1>6, <1>7, SameLease DEF IInv, JobStop

LEMMA YieldKeeps ==
    ASSUME IInv, JobYield
    PROVE  IInv'
<1>1. /\ pc["scheduler"] = "jb_release" /\ pc'["scheduler"] = "jb_claim"
      /\ Release("scanner") /\ UNCHANGED <<jobVars, lastAct>>
  BY TypeParts, NoJobOK DEF IInv, JobYield, ReleaseLease, Goto, ActorOK
<1>2. TypeOK'
  BY ReleaseLeaseOK, LabelsOK, NoJobOK, OwnersOK, TypeParts, SameJobs DEF IInv, JobYield
<1>3. ExecutorOK'
  BY <1>1 DEF IInv, ExecutorOK, JobLabels, jobVars
<1>4. \A k \in Jobs : Executing(k)' => Executing(k)
  BY <1>1 DEF Executing, jobVars
<1>5. JobHoldsLease' /\ JobRetunesOwnReceiver'
  BY <1>1, <1>4, NoJobOK
  DEF IInv, JobHoldsLease, JobRetunesOwnReceiver, Release, sessionVars
<1>6. QED
  BY <1>2, <1>3, <1>5 DEF IInv


(* The claim is granted only while no other job is executed. *)
LEMMA ClaimKeeps ==
    ASSUME IInv, JobClaim
    PROVE  IInv'
<1>1. pc["scheduler"] = "jb_claim" /\ cur \in Jobs /\ timer[cur] = "none"
  BY DEF IInv, ExecutorOK, JobClaim, Goto, JobLabels
<1>2. CASE Goto("scheduler", "jb_claim", "jb_tune") /\ Claim(cur, FALSE) /\ UNCHANGED jobVars
  <2>1. pc'["scheduler"] = "jb_tune" /\ ActorOK'
    BY <1>2, MoveOK, TypeParts, NoJobOK, LabelsOK DEF IInv, JobClaim, Goto, ActorOK
  <2>2. SessionTypeOK'
    BY <1>1, <1>2, SessionStepOK, OwnersOK, TypeParts DEF IInv
  <2>3. TypeOK'
    BY <1>2, <2>1, <2>2, TypeParts, TypeNext, SameReceiver, SameJobs DEF IInv, JobClaim
  <2>4. ExecutorOK'
    BY <1>1, <1>2, <2>1 DEF IInv, ExecutorOK, JobLabels, jobVars
  <2>5. owner' = cur /\ takeovers' = takeovers /\ owner \in {NoOwner, cur}
    BY <1>2 DEF Claim, Grants
  <2>6. ASSUME takeovers' = 0, NEW k \in Jobs, Executing(k)'
        PROVE  owner' = k
    <3>1. CASE k = cur
      BY <2>5, <3>1
    <3>2. CASE k # cur
      <4>1. Executing(k)
        BY <1>2, <2>6, <3>2 DEF Executing, jobVars
      <4>2. owner = k
        BY <2>5, <2>6, <4>1 DEF IInv, JobHoldsLease
      <4>3. QED
        BY <2>5, <3>2, <4>2, NoJobOK
    <3>3. QED
      BY <3>1, <3>2
  <2>7. JobHoldsLease'
    BY <2>6 DEF JobHoldsLease
  <2>8. JobRetunesOwnReceiver'
    BY <2>5 DEF IInv, JobClaim, JobRetunesOwnReceiver
  <2>9. QED
    BY <2>3, <2>4, <2>7, <2>8 DEF IInv
<1>3. CASE /\ Goto("scheduler", "jb_claim", "idle") /\ SetJob(cur, "blocked")
           /\ cur' = Nobody /\ UNCHANGED <<sessionVars, timer>>
  <2>1. pc'["scheduler"] = "idle" /\ ActorOK'
    BY <1>3, MoveOK, TypeParts, NoJobOK, LabelsOK DEF IInv, JobClaim, Goto, ActorOK
  <2>2. JobOK'
    BY <1>3, TypeParts DEF IInv, JobOK, SetJob
  <2>3. TypeOK'
    BY <1>3, <2>1, <2>2, TypeParts, TypeNext, SameReceiver, SameSession
    DEF IInv, JobClaim
  <2>4. ExecutorOK'
    BY <1>1, <1>3, <2>1, NoJobOK, TypeParts
    DEF IInv, ExecutorOK, JobLabels, JobOK, SetJob
  <2>5. \A k \in Jobs : Executing(k)' => Executing(k)
    BY <1>3, <2>1 DEF Executing
  <2>6. QED
    BY <1>3, <2>3, <2>4, <2>5, SameLease DEF IInv, JobClaim
<1>4. QED
  BY <1>2, <1>3 DEF JobClaim

LEMMA RetuneKeeps ==
    ASSUME IInv, JobTune
    PROVE  IInv'
<1>1. /\ pc["scheduler"] = "jb_tune" /\ cur \in Jobs
      /\ pc'["scheduler"] \in {"jb_start", "jb_abandon"}
      /\ UNCHANGED <<sessionVars, jobVars>>
  BY TypeParts, NoJobOK DEF IInv, ExecutorOK, JobTune, Tune, Goto, JobLabels, ActorOK
<1>2. TypeOK'
  BY <1>1, TuneOK, LabelsOK, NoJobOK DEF IInv, JobTune
<1>3. ExecutorOK'
  BY <1>1 DEF IInv, ExecutorOK, JobLabels, jobVars
<1>4. JobHoldsLease'
  BY <1>1 DEF IInv, JobHoldsLease, Executing, jobVars, sessionVars
<1>5. takeovers = 0 => owner = cur
  BY <1>1 DEF IInv, JobHoldsLease, Executing
<1>6. JobRetunesOwnReceiver'
  BY <1>1, <1>5
  DEF IInv, JobRetunesOwnReceiver, JobTune, Tune, Record, sessionVars
<1>7. QED
  BY <1>2, <1>3, <1>4, <1>6 DEF IInv

LEMMA StartKeeps ==
    ASSUME IInv, JobStart
    PROVE  IInv'
<1>1. /\ pc["scheduler"] = "jb_start" /\ cur \in Jobs
      /\ UNCHANGED <<sessionVars, lastAct>>
  BY DEF IInv, ExecutorOK, JobStart, Goto, JobLabels
<1>2. CASE slot # NoTask
  <2>1. /\ Goto("scheduler", "jb_start", "idle")
        /\ \E start \in Starts : task' = Sent(slot, start)
        /\ SetJob(cur, "running") /\ timer' = [timer EXCEPT ![cur] = "sleeping"]
        /\ cur' = Nobody
    BY <1>2 DEF JobStart
  <2>2. pc'["scheduler"] = "idle" /\ ActorOK'
    BY <2>1, MoveOK, TypeParts, NoJobOK, LabelsOK DEF IInv, JobStart, Goto, ActorOK
  <2>3. ReceiverOK'
    BY <2>1, TypeParts, SentOK, StartsOK DEF IInv, JobStart, ReceiverOK
  <2>4. JobOK'
    BY <1>1, <2>1, TypeParts DEF IInv, JobOK, SetJob
  <2>5. TypeOK'
    BY <1>1, <2>2, <2>3, <2>4, TypeParts, TypeNext, SameSession DEF IInv
  <2>6. ExecutorOK'
    BY <1>1, <2>1, <2>2, NoJobOK, TypeParts
    DEF IInv, ExecutorOK, JobLabels, JobOK, SetJob
  <2>7. \A k \in Jobs : Executing(k)' => Executing(k)
    BY <1>1, <2>1, <2>2, TypeParts DEF IInv, JobOK, Executing
  <2>8. QED
    BY <1>1, <2>5, <2>6, <2>7, SameLease DEF IInv
<1>3. CASE slot = NoTask
  <2>1. /\ Goto("scheduler", "jb_start", "jb_abandon") /\ UNCHANGED <<task, jobVars>>
    BY <1>3 DEF JobStart
  <2>2. pc'["scheduler"] = "jb_abandon" /\ ActorOK'
    BY <2>1, MoveOK, TypeParts, NoJobOK, LabelsOK DEF IInv, JobStart, Goto, ActorOK
  <2>3. ReceiverOK'
    BY <2>1, TypeParts DEF IInv, JobStart, ReceiverOK, TaskOK
  <2>4. TypeOK'
    BY <1>1, <2>1, <2>2, <2>3, TypeParts, TypeNext, SameSession, SameJobs DEF IInv
  <2>5. ExecutorOK'
    BY <1>1, <2>1, <2>2 DEF IInv, ExecutorOK, JobLabels, jobVars
  <2>6. \A k \in Jobs : Executing(k)' => Executing(k)
    BY <1>1, <2>1 DEF Executing, jobVars
  <2>7. QED
    BY <1>1, <2>4, <2>5, <2>6, SameLease DEF IInv
<1>4. QED
  BY <1>2, <1>3

(* A release under a job's name leaves the other jobs nothing to lose. *)
LEMMA ReleaseKeeps ==
    ASSUME IInv, NEW o \in Jobs, Executing(o), Release(o), UNCHANGED lastAct,
           \A k \in Jobs : Executing(k)' => Executing(k) /\ k # o
    PROVE  JobHoldsLease' /\ JobRetunesOwnReceiver'
<1>1. takeovers' = takeovers
  BY DEF Release, sessionVars
<1>2. ASSUME takeovers' = 0, NEW k \in Jobs, Executing(k)'
      PROVE  FALSE
  BY <1>1, <1>2 DEF IInv, JobHoldsLease
<1>3. QED
  BY <1>1, <1>2 DEF IInv, JobHoldsLease, JobRetunesOwnReceiver

LEMMA AbandonKeeps ==
    ASSUME IInv, JobAbandon
    PROVE  IInv'
<1>1. /\ pc["scheduler"] = "jb_abandon" /\ cur \in Jobs /\ timer[cur] = "none"
      /\ ReleaseLease("scheduler", cur, "jb_abandon", "idle")
      /\ SetJob(cur, "failed") /\ cur' = Nobody /\ UNCHANGED timer
  BY DEF IInv, ExecutorOK, JobAbandon, ReleaseLease, Goto, JobLabels
<1>2. pc'["scheduler"] = "idle"
  BY <1>1, TypeParts, NoJobOK DEF IInv, ReleaseLease, Goto, ActorOK
<1>3. JobOK'
  BY <1>1, TypeParts DEF IInv, JobOK, SetJob
<1>4. TypeOK'
  BY <1>1, <1>3, ReleaseLeaseOK, LabelsOK, NoJobOK, OwnersOK DEF IInv
<1>5. ExecutorOK'
  BY <1>1, <1>2, NoJobOK, TypeParts DEF IInv, ExecutorOK, JobLabels, JobOK, SetJob
<1>6. \A k \in Jobs : Executing(k)' => Executing(k) /\ k # cur
  BY <1>1, <1>2 DEF Executing
<1>7. Executing(cur)
  BY <1>1 DEF Executing
<1>8. Release(cur) /\ UNCHANGED lastAct
  BY <1>1 DEF ReleaseLease
<1>9. QED
  BY <1>1, <1>4, <1>5, <1>6, <1>7, <1>8, ReleaseKeeps DEF IInv

LEMMA ExpireKeeps ==
    ASSUME IInv, NEW j \in Jobs, JobExpire(j)
    PROVE  IInv'
<1>1. ReceiverOK'
  BY TypeParts, SentOK DEF IInv, JobExpire, ReceiverOK, Commands
<1>2. lastAct' \in Acts /\ (UNCHANGED lastAct \/ lastAct'.act = "stop")
  BY TypeParts, RecordOK DEF IInv, JobExpire, RecordStop, Record
<1>3. JobOK'
  BY TypeParts DEF IInv, JobExpire, JobOK
<1>4. TypeOK'
  BY <1>1, <1>2, <1>3, TypeParts, TypeNext, SameSession, SameActors DEF IInv, JobExpire
<1>5. ExecutorOK' /\ \A k \in Jobs : Executing(k)' => Executing(k)
  BY TypeParts DEF IInv, ExecutorOK, JobExpire, JobOK, Executing, JobLabels, actorVars
<1>6. QED
  BY <1>2, <1>4, <1>5, SameLease DEF IInv, JobExpire

LEMMA CompleteKeeps ==
    ASSUME IInv, NEW j \in Jobs, JobComplete(j)
    PROVE  IInv'
<1>1. SessionTypeOK'
  <2>1. FALSE \in BOOLEAN /\ j \in Owners /\ SessionTypeOK /\ Release(j)
    BY OwnersOK, TypeParts DEF IInv, JobComplete
  <2>2. QED
    BY <2>1, SessionStepOK
<1>2. JobOK'
  BY TypeParts DEF IInv, JobComplete, JobOK, SetJob
<1>3. TypeOK'
  BY <1>1, <1>2, TypeParts, TypeNext, SameReceiver, SameActors DEF IInv, JobComplete
<1>4. ExecutorOK'
  BY TypeParts
  DEF IInv, ExecutorOK, JobComplete, JobOK, SetJob, JobLabels, actorVars
<1>5. Executing(j)
  BY DEF JobComplete, Executing
<1>6. cur # j
  BY DEF IInv, ExecutorOK, JobComplete
<1>7. \A k \in Jobs : Executing(k)' => Executing(k) /\ k # j
  BY <1>6, TypeParts DEF IInv, JobComplete, JobOK, Executing, actorVars
<1>8. QED
  BY <1>3, <1>4, <1>5, <1>7, ReleaseKeeps DEF IInv, JobComplete


LEMMA IInvInitial == Init => IInv
<1> SUFFICES ASSUME Init PROVE IInv
  OBVIOUS
<1>1. TypeOK
  BY TypeInitial
<1>2. /\ pc["scheduler"] = "idle" /\ cur = Nobody
      /\ timer = [j \in Jobs |-> "none"] /\ lastAct.act = "none"
  BY NoJobOK DEF Init
<1>3. ExecutorOK
  BY <1>2, NoJobOK DEF ExecutorOK, JobLabels
<1>4. JobHoldsLease /\ JobRetunesOwnReceiver
  BY <1>2 DEF JobHoldsLease, JobRetunesOwnReceiver, Executing
<1>5. QED
  BY <1>1, <1>3, <1>4 DEF IInv

LEMMA IInvStep == IInv /\ [Next]_vars => IInv'
<1> SUFFICES ASSUME IInv, [Next]_vars PROVE IInv'
  OBVIOUS
<1> TypeOK
  BY DEF IInv
<1>1. CASE \E c \in Clients : Request(c) \/ Handler(c) \/ Cancel(c)
  BY <1>1, RequestStep, HandlerStep, CancelStep, OutsideKeeps
<1>2. CASE \E a \in Others : Flow(a)
  BY <1>2, FlowStep, OutsideKeeps
<1>3. CASE Supervisor
  BY <1>3, SupervisorStep, OutsideKeeps
<1>4. CASE Scheduler
  BY <1>4, YieldKeeps, ClaimKeeps, RetuneKeeps, StartKeeps, AbandonKeeps DEF Scheduler
<1>5. CASE \E j \in Jobs : JobReject(j) \/ JobStop(j) \/ JobExpire(j) \/ JobComplete(j)
  BY <1>5, RejectKeeps, StopKeeps, ExpireKeeps, CompleteKeeps
<1>6. CASE \/ \E t \in Tasks : Drain(t) \/ Pull(t) \/ Frame(t) \/ Reap(t)
           \/ Stall \/ Deliver \/ CaptureRecover
  BY <1>6, TaskAndDeviceStep, OutsideKeeps
<1>7. CASE UNCHANGED vars
  <2>1. UNCHANGED <<sessionVars, receiverVars, jobVars, actorVars, lastAct>>
    BY <1>7 DEF vars
  <2>2. pc' = pc
    BY <2>1 DEF actorVars
  <2>3. Outside
    BY <2>1, <2>2 DEF Outside
  <2>4. TypeOK'
    BY <2>1, TypeParts, TypeNext, SameReceiver, SameSession, SameJobs, SameActors
  <2>5. QED
    BY <2>3, <2>4, OutsideKeeps
<1>8. QED
  BY <1>1, <1>2, <1>3, <1>4, <1>5, <1>6, <1>7 DEF Next, Others

LEMMA IInvAlways == Spec => []IInv
BY IInvInitial, IInvStep, PTL DEF Spec

-----------------------------------------------------------------------------
(* The receiver flow keeps its types: in particular no command queue ever   *)
(* holds more than the channel's capacity, and the lease is only ever held  *)
(* under a name that can be claimed.                                        *)
THEOREM TypeCorrect == Spec => []TypeOK
<1>1. IInv => TypeOK
  BY DEF IInv
<1>2. QED
  BY <1>1, IInvAlways, PTL

(* As long as nobody takes the receiver by force, a scan job that is being  *)
(* executed holds the lease from its claim in run_due_jobs to the release   *)
(* of its completion task, for any number of concurrent requests.           *)
THEOREM JobsHoldTheLease == Spec => []JobHoldsLease
<1>1. IInv => JobHoldsLease
  BY DEF IInv
<1>2. QED
  BY <1>1, IInvAlways, PTL

(* Two scan jobs are executed at the same time only after a forced takeover. *)
THEOREM JobsExclude == Spec => []OneJobAtATime
<1>1. IInv => OneJobAtATime
  <2> SUFFICES ASSUME IInv, NEW j \in Jobs, NEW k \in Jobs,
                      Executing(j), Executing(k), j # k
               PROVE  takeovers > 0
    BY DEF OneJobAtATime
  <2>1. takeovers # 0
    BY DEF IInv, JobHoldsLease
  <2>2. takeovers \in Nat
    BY SessionAssumption DEF IInv, TypeOK, SessionTypeOK
  <2>3. QED
    BY <2>1, <2>2
<1>2. QED
  BY <1>1, IInvAlways, PTL

(* A job configures the device only under its own lease, unless the lease   *)
(* was taken by force.                                                      *)
THEOREM JobsRetuneUnderTheirLease == Spec => []JobRetunesOwnReceiver
<1>1. IInv => JobRetunesOwnReceiver
  BY DEF IInv
<1>2. QED
  BY <1>1, IInvAlways, PTL


-----------------------------------------------------------------------------
(* The slot never names an aborted scanner: a step empties it, fills it     *)
(* with the task it spawns, or leaves the task in it as live as it was.     *)

SlotKept ==
    /\ \/ slot' = NoTask
       \/ slot' \in Tasks /\ task'[slot'].st = "live"
       \/ slot' = slot /\ (slot \in Tasks => task'[slot].st = task[slot].st)
    /\ \A t \in Tasks : task'[t].st = "live" => task[t].st = "live" \/ t = slot'
    /\ slot \in Tasks => slot' = slot \/ slot \in replaced' \/ task'[slot].st # "live"
    /\ replaced \subseteq replaced'

LEMMA SentKeepsLive ==
    ASSUME TypeOK, NEW t \in Tasks \cup {NoTask}, NEW cmd, task' = Sent(t, cmd),
           UNCHANGED <<slot, replaced>>
    PROVE  SlotKept
BY DEF TypeOK, Sent, TaskRecord, SlotKept

LEMMA SpawnKeepsLive ==
    ASSUME TypeOK, NEW t \in Tasks, NEW cmds, Spawn(t, cmds)
    PROVE  SlotKept
BY FlowAssumption DEF TypeOK, TaskRecord, Spawn, SlotKept

LEMMA AbortKeepsLive ==
    ASSUME TypeOK, slot' = NoTask, UNCHANGED replaced,
           task' = IF slot = NoTask THEN task ELSE Aborted(slot)
    PROVE  SlotKept
BY FlowAssumption DEF TypeOK, TaskRecord, Aborted, SlotKept

LEMMA QuietKeepsLive ==
    ASSUME UNCHANGED slot, UNCHANGED replaced,
           slot \in Tasks => task'[slot].st = task[slot].st,
           \A u \in Tasks : task'[u].st = "live" => task[u].st = "live"
    PROVE  SlotKept
<1>1. slot' = slot /\ (slot \in Tasks => task'[slot].st = task[slot].st)
  OBVIOUS
<1>2. \A u \in Tasks : task'[u].st = "live" => task[u].st = "live" \/ u = slot'
  OBVIOUS
<1>3. slot' = slot \/ slot \in replaced' \/ task'[slot].st # "live"
  OBVIOUS
<1>4. replaced \subseteq replaced'
  OBVIOUS
<1>5. QED
  BY <1>1, <1>2, <1>3, <1>4 DEF SlotKept

LEMMA SlotStep ==
    ASSUME TypeOK, Next
    PROVE  SlotKept
<1> slot \in Tasks \cup {NoTask} /\ \A a \in Actors : held[a] \in Tasks \cup {NoTask}
  BY DEF TypeOK
<1>1. ASSUME NEW c \in Clients, Request(c) PROVE SlotKept
  BY <1>1
  DEF Request, ScanClaim, ScanStop, ConnectCheck, Disconnect, TuneCheck,
      UncheckedRetune, LeaseClaim, LeaseRelease, receiverVars, SlotKept
<1>2. ASSUME NEW c \in Clients, Handler(c) PROVE SlotKept
  <2> c \in Actors
    BY DEF Actors
  <2>1. CASE ScanSend(c) \/ StopSend(c) \/ ScanFirst(c)
    BY <2>1, SentKeepsLive DEF ScanSend, StopSend, ScanFirst
  <2>2. CASE ScanSpawn(c)
    BY <2>2, SpawnKeepsLive DEF ScanSpawn
  <2>3. CASE ConnectPause(c)
    BY <2>3, AbortKeepsLive DEF ConnectPause
  <2>4. CASE ScanTune(c) \/ ScanFail(c) \/ ScanSlot(c) \/ StopRelease(c)
             \/ ConnectRelease(c) \/ TuneApply(c)
    BY <2>4
    DEF ScanTune, ScanFail, ScanSlot, StopRelease, ConnectRelease, TuneApply, Tune,
        ReleaseLease, receiverVars, SlotKept
  <2>5. CASE Connect(c)
    BY <2>5 DEF Connect, SlotKept
  <2>6. QED
    BY <1>2, <2>1, <2>2, <2>3, <2>4, <2>5 DEF Handler
<1>10. ASSUME NEW c \in Clients, Cancel(c) PROVE SlotKept
  BY <1>10 DEF Cancel, receiverVars, SlotKept
<1>3. ASSUME NEW a \in Others, Flow(a) PROVE SlotKept
  <2> a \in Actors
    BY OthersOK
  <2>1. CASE FlowSend(a)
    BY <2>1, SentKeepsLive DEF FlowSend
  <2>2. CASE FlowSpawn(a)
    BY <2>2, SpawnKeepsLive DEF FlowSpawn
  <2>3. CASE FlowSlot(a)
    BY <2>3, AbortKeepsLive DEF FlowSlot, SlotKept
  <2>4. CASE FlowCheck(a) \/ FlowClaim(a) \/ FlowTune(a) \/ FlowRelease(a)
    BY <2>4
    DEF FlowCheck, FlowClaim, FlowTune, FlowRelease, Tune, ReleaseLease,
        receiverVars, SlotKept
  <2>5. QED
    BY <1>3, <2>1, <2>2, <2>3, <2>4 DEF Flow
<1>4. CASE Supervisor
  <2>1. CASE HotplugStop
    BY <2>1, SentKeepsLive DEF HotplugStop
  <2>2. CASE ProbeConnects \/ ProbeFails \/ Recover \/ NoRecovery
    BY <2>2 DEF ProbeConnects, ProbeFails, Recover, NoRecovery, receiverVars, SlotKept
  <2>3. QED
    BY <1>4, <2>1, <2>2 DEF Supervisor
<1>5. CASE Scheduler
  <2>1. CASE JobStart
    <3>1. /\ (\E start \in Starts : task' = Sent(slot, start)) \/ UNCHANGED task
          /\ UNCHANGED <<slot, replaced>>
      BY <2>1 DEF JobStart
    <3>2. QED
      BY <3>1, SentKeepsLive DEF SlotKept
  <2>2. CASE JobYield \/ JobClaim \/ JobTune \/ JobAbandon
    BY <2>2
    DEF JobYield, JobClaim, JobTune, JobAbandon, Tune, ReleaseLease, receiverVars,
        SlotKept
  <2>3. QED
    BY <1>5, <2>1, <2>2 DEF Scheduler
<1>6. ASSUME NEW j \in Jobs, JobReject(j) \/ JobStop(j) \/ JobExpire(j) \/ JobComplete(j)
      PROVE  SlotKept
  <2>1. CASE JobStop(j) \/ JobExpire(j)
    BY <2>1, SentKeepsLive DEF JobStop, JobExpire
  <2>2. CASE JobReject(j) \/ JobComplete(j)
    BY <2>2 DEF JobReject, JobComplete, receiverVars, SlotKept
  <2>3. QED
    BY <1>6, <2>1, <2>2
<1>7. ASSUME NEW t \in Tasks, Drain(t) \/ Pull(t) \/ Frame(t) \/ Reap(t)
      PROVE  SlotKept
  <2>1. CASE Drain(t) \/ Pull(t) \/ Frame(t)
    <3>1. UNCHANGED <<slot, replaced>>
      BY <2>1 DEF Drain, Pull, Frame, TaskOnly
    <3>2. \A u \in Tasks : task'[u].st = task[u].st
      <4> task \in [Tasks -> TaskRecord]
        BY DEF TypeOK
      <4>1. CASE Drain(t)
        BY <4>1 DEF Drain, TaskRecord
      <4>2. CASE Pull(t) \/ Frame(t)
        BY <4>2 DEF Pull, Frame, TaskRecord
      <4>3. QED
        BY <2>1, <4>1, <4>2
    <3>3. QED
      BY <3>1, <3>2, QuietKeepsLive
  <2>2. CASE Reap(t)
    <3>1. slot # t /\ UNCHANGED <<slot, replaced>>
      BY <2>2 DEF Reap, TaskOnly
    <3>2. \A u \in Tasks : task'[u] = task[u] \/ (u = t /\ task'[u] = Unborn)
      BY <2>2 DEF TypeOK, Reap
    <3>3. \A u \in Tasks : task'[u].st = "live" => task[u].st = "live"
      BY <3>2 DEF Unborn
    <3>4. slot \in Tasks => task'[slot].st = task[slot].st
      BY <3>1, <3>2
    <3>5. QED
      BY <3>1, <3>3, <3>4, QuietKeepsLive
  <2>3. QED
    BY <1>7, <2>1, <2>2
<1>8. CASE Stall \/ Deliver \/ CaptureRecover
  BY <1>8 DEF Stall, Deliver, CaptureRecover, SlotKept
<1>9. QED
  BY <1>1, <1>2, <1>3, <1>4, <1>5, <1>6, <1>7, <1>8, <1>10 DEF Next, Others

(* Commands are never sent to a dead scanner through the slot: whoever      *)
(* aborts a scanner takes it out of the slot in the same critical section.  *)
THEOREM SlotStaysLive == Spec => []SlotIsLive
<1>1. Init => SlotIsLive
  BY DEF Init, SlotIsLive
<1>2. TypeOK /\ SlotIsLive /\ [Next]_vars => SlotIsLive'
  <2>1. ASSUME TypeOK, SlotIsLive, Next PROVE SlotIsLive'
    BY <2>1, SlotStep DEF SlotKept, SlotIsLive, TypeOK
  <2>2. ASSUME SlotIsLive, UNCHANGED vars PROVE SlotIsLive'
    BY <2>2 DEF SlotIsLive, vars, receiverVars
  <2>3. QED
    BY <2>1, <2>2
<1>3. QED
  BY <1>1, <1>2, TypeCorrect, PTL DEF Spec

(* Every scanner is in hand: whatever requests, boot, the supervisor and    *)
(* jobs do, one that nobody has aborted is the one in the slot, unless a    *)
(* start that overlapped its own, or found its queue full, put another      *)
(* there.                                                                   *)
THEOREM ScannersAreInHand == Spec => []NoStrayScanner
<1>1. Init => NoStrayScanner
  BY DEF Init, NoStrayScanner, Unborn
<1>2. TypeOK /\ NoStrayScanner /\ [Next]_vars => NoStrayScanner'
  <2>1. ASSUME TypeOK, NoStrayScanner, Next PROVE NoStrayScanner'
    BY <2>1, SlotStep DEF SlotKept, NoStrayScanner
  <2>2. ASSUME NoStrayScanner, UNCHANGED vars PROVE NoStrayScanner'
    BY <2>2 DEF NoStrayScanner, vars, receiverVars
  <2>3. QED
    BY <2>1, <2>2
<1>3. QED
  BY <1>1, <1>2, TypeCorrect, PTL DEF Spec

-----------------------------------------------------------------------------
(* The executor implements TunerOwnership while nobody takes the lease by   *)
(* force: every step of the system is a grant, a refusal, the end of an     *)
(* ownership, or no step of TunerOwnership at all.                          *)

LEMMA PhaseOf ==
    ASSUME NEW j \in Jobs
    PROVE  /\ JobPhase[j] = IF Executing(j) THEN "holding"
                            ELSE IF job[j] = "due" THEN "waiting" ELSE "done"
           /\ JobPhase'[j] = IF Executing(j)' THEN "holding"
                             ELSE IF job'[j] = "due" THEN "waiting" ELSE "done"
BY DEF JobPhase

LEMMA PhaseStays ==
    ASSUME \A j \in Jobs : (Executing(j)' <=> Executing(j)) /\ (job'[j] = job[j] \/ Executing(j))
    PROVE  JobPhase' = JobPhase
<1>1. \A j \in Jobs : JobPhase'[j] = JobPhase[j]
  BY PhaseOf
<1>2. QED
  BY <1>1 DEF JobPhase

LEMMA PhaseChanges ==
    ASSUME NEW j \in Jobs,
           \A k \in Jobs \ {j} : (Executing(k)' <=> Executing(k)) /\ job'[k] = job[k]
    PROVE  JobPhase' = [JobPhase EXCEPT ![j] = JobPhase'[j]]
<1>1. \A k \in Jobs \ {j} : JobPhase'[k] = JobPhase[k]
  BY PhaseOf
<1>2. QED
  BY <1>1 DEF JobPhase

LEMMA OutsideStutters ==
    ASSUME Outside
    PROVE  JobPhase' = JobPhase
<1>1. \A j \in Jobs : (Executing(j)' <=> Executing(j)) /\ job' = job
  BY DEF Outside, Executing, jobVars
<1>2. QED
  BY <1>1, PhaseStays

LEMMA Rejects ==
    ASSUME IInv, NEW j \in Jobs, JobReject(j)
    PROVE  Tuner!Refuse(j)
<1>1. /\ job[j] = "due" /\ job' = [job EXCEPT ![j] = "failed"]
      /\ job \in [Jobs -> {"due", "running", "completed", "failed", "blocked"}]
      /\ pc["scheduler"] = "idle" /\ pc' = pc /\ UNCHANGED <<timer, cur>>
  BY TypeParts, NoJobOK DEF IInv, JobReject, SetJob, Goto, JobOK, ActorOK
<1>2. ~Executing(j) /\ \A k \in Jobs : Executing(k)' <=> Executing(k)
  BY <1>1 DEF IInv, ExecutorOK, Executing
<1>3. JobPhase[j] = "waiting" /\ JobPhase'[j] = "done"
  BY <1>1, <1>2, PhaseOf
<1>4. QED
  BY <1>1, <1>2, <1>3, PhaseChanges DEF Tuner!Refuse

LEMMA Claims ==
    ASSUME IInv, takeovers = 0, JobClaim
    PROVE  Tuner!Grant(cur) \/ Tuner!Refuse(cur)
<1>1. /\ cur \in Jobs /\ timer[cur] = "none" /\ job[cur] = "due"
      /\ pc["scheduler"] = "jb_claim"
  BY DEF IInv, ExecutorOK, JobClaim, Goto, JobLabels
<1>2. ~Executing(cur)
  BY <1>1 DEF Executing
<1>3. JobPhase[cur] = "waiting"
  BY <1>1, <1>2, PhaseOf
<1>4. CASE Goto("scheduler", "jb_claim", "jb_tune") /\ Claim(cur, FALSE) /\ UNCHANGED jobVars
  <2>1. pc'["scheduler"] = "jb_tune" /\ UNCHANGED <<job, timer, cur>>
    BY <1>4, TypeParts, NoJobOK DEF IInv, Goto, ActorOK, jobVars
  <2>2. Executing(cur)' /\ \A k \in Jobs \ {cur} : Executing(k)' <=> Executing(k)
    BY <2>1 DEF Executing
  <2>3. JobPhase'[cur] = "holding"
    BY <1>1, <2>2, <2>1, PhaseOf
  <2>4. \A k \in Jobs : ~Executing(k)
    BY <1>1, <1>2, <1>4, NoJobOK DEF IInv, JobHoldsLease, Claim, Grants
  <2>5. \A k \in Jobs : JobPhase[k] # "holding"
    BY <2>4, PhaseOf
  <2>6. QED
    BY <1>1, <1>3, <2>1, <2>2, <2>3, <2>5, PhaseChanges DEF Tuner!Grant
<1>5. CASE /\ Goto("scheduler", "jb_claim", "idle") /\ SetJob(cur, "blocked")
           /\ cur' = Nobody /\ UNCHANGED <<sessionVars, timer>>
  <2>1. /\ pc'["scheduler"] = "idle" /\ job' = [job EXCEPT ![cur] = "blocked"]
        /\ job \in [Jobs -> {"due", "running", "completed", "failed", "blocked"}]
    BY <1>5, TypeParts, NoJobOK DEF IInv, Goto, ActorOK, SetJob, JobOK
  <2>2. \A k \in Jobs : Executing(k)' <=> Executing(k)
    BY <1>1, <1>5, <2>1, NoJobOK DEF Executing
  <2>3. JobPhase'[cur] = "done"
    BY <1>1, <1>2, <2>1, <2>2, PhaseOf
  <2>4. QED
    BY <1>1, <1>3, <2>1, <2>2, <2>3, PhaseChanges DEF Tuner!Refuse
<1>6. QED
  BY <1>4, <1>5 DEF JobClaim

LEMMA Abandons ==
    ASSUME IInv, JobAbandon
    PROVE  \E j \in Jobs : Tuner!Finish(j)
<1>1. PICK j \in Jobs : j = cur
  BY DEF IInv, ExecutorOK, JobAbandon, ReleaseLease, Goto, JobLabels
<1>2. /\ timer[j] = "none" /\ pc["scheduler"] = "jb_abandon"
      /\ pc'["scheduler"] = "idle" /\ cur' = Nobody /\ UNCHANGED timer
      /\ job' = [job EXCEPT ![j] = "failed"]
      /\ job \in [Jobs -> {"due", "running", "completed", "failed", "blocked"}]
  BY <1>1, TypeParts, NoJobOK
  DEF IInv, ExecutorOK, JobAbandon, ReleaseLease, Goto, JobLabels, ActorOK, JobOK, SetJob
<1>3. Executing(j) /\ ~Executing(j)' /\ \A k \in Jobs \ {j} : Executing(k)' <=> Executing(k)
  BY <1>1, <1>2, NoJobOK DEF Executing
<1>4. JobPhase[j] = "holding" /\ JobPhase'[j] = "done"
  BY <1>2, <1>3, PhaseOf
<1>5. QED
  BY <1>2, <1>3, <1>4, PhaseChanges DEF Tuner!Finish

LEMMA Completes ==
    ASSUME IInv, NEW j \in Jobs, JobComplete(j)
    PROVE  Tuner!Finish(j)
<1>1. /\ timer[j] = "stopping" /\ timer' = [timer EXCEPT ![j] = "none"]
      /\ timer \in [Jobs -> {"none", "sleeping", "stopping"}]
      /\ job' = [job EXCEPT ![j] = "completed"]
      /\ job \in [Jobs -> {"due", "running", "completed", "failed", "blocked"}]
      /\ UNCHANGED <<cur, pc>> /\ cur # j
  BY TypeParts DEF IInv, ExecutorOK, JobComplete, JobOK, SetJob, actorVars
<1>2. Executing(j) /\ ~Executing(j)' /\ \A k \in Jobs \ {j} : Executing(k)' <=> Executing(k)
  BY <1>1 DEF Executing
<1>3. JobPhase[j] = "holding" /\ JobPhase'[j] = "done"
  BY <1>1, <1>2, PhaseOf
<1>4. QED
  BY <1>1, <1>2, <1>3, PhaseChanges DEF Tuner!Finish

(* The other steps of the executor: what a job holds, it keeps. *)
LEMMA ExecutorStutters ==
    ASSUME IInv,
           \/ JobYield \/ JobTune \/ JobStart
           \/ \E j \in Jobs : JobStop(j) \/ JobExpire(j)
    PROVE  JobPhase' = JobPhase
<1>1. CASE JobYield \/ JobTune
  <2>1. /\ UNCHANGED jobVars
        /\ \/ pc["scheduler"] = "jb_release" /\ pc'["scheduler"] = "jb_claim"
           \/ pc["scheduler"] = "jb_tune" /\ pc'["scheduler"] \in {"jb_start", "jb_abandon"}
    BY <1>1, TypeParts, NoJobOK
    DEF IInv, JobYield, JobTune, Tune, ReleaseLease, Goto, ActorOK
  <2>2. \A j \in Jobs : (Executing(j)' <=> Executing(j)) /\ job' = job
    BY <2>1 DEF Executing, jobVars
  <2>3. QED
    BY <2>2, PhaseStays
<1>2. CASE JobStart
  <2>1. PICK i \in Jobs : i = cur /\ timer[i] = "none"
    BY <1>2 DEF IInv, ExecutorOK, JobStart, Goto, JobLabels
  <2>2. /\ pc["scheduler"] = "jb_start"
        /\ timer \in [Jobs -> {"none", "sleeping", "stopping"}]
        /\ job \in [Jobs -> {"due", "running", "completed", "failed", "blocked"}]
    BY <1>2, TypeParts DEF IInv, JobStart, Goto, JobOK
  <2>3. CASE slot # NoTask
    <3>1. /\ job' = [job EXCEPT ![i] = "running"] /\ cur' = Nobody
          /\ timer' = [timer EXCEPT ![i] = "sleeping"]
      BY <1>2, <2>1, <2>3 DEF JobStart, SetJob
    <3>2. \A j \in Jobs : (Executing(j)' <=> Executing(j)) /\ (job'[j] = job[j] \/ Executing(j))
      BY <2>1, <2>2, <3>1, NoJobOK DEF Executing
    <3>3. QED
      BY <3>2, PhaseStays
  <2>4. CASE slot = NoTask
    <3>1. pc'["scheduler"] = "jb_abandon" /\ UNCHANGED jobVars
      BY <1>2, <2>4, TypeParts, NoJobOK DEF IInv, JobStart, Goto, ActorOK
    <3>2. \A j \in Jobs : (Executing(j)' <=> Executing(j)) /\ job' = job
      BY <2>2, <3>1 DEF Executing, jobVars
    <3>3. QED
      BY <3>2, PhaseStays
  <2>5. QED
    BY <2>3, <2>4
<1>3. ASSUME NEW i \in Jobs, JobStop(i) PROVE JobPhase' = JobPhase
  <2>1. pc["scheduler"] = "idle" /\ pc'["scheduler"] = "jb_release" /\ UNCHANGED <<job, timer>>
    BY <1>3, TypeParts, NoJobOK DEF IInv, JobStop, Goto, ActorOK
  <2>2. \A j \in Jobs : (Executing(j)' <=> Executing(j)) /\ job' = job
    BY <2>1 DEF Executing
  <2>3. QED
    BY <2>2, PhaseStays
<1>4. ASSUME NEW i \in Jobs, JobExpire(i) PROVE JobPhase' = JobPhase
  <2>1. /\ timer[i] = "sleeping" /\ timer' = [timer EXCEPT ![i] = "stopping"]
        /\ timer \in [Jobs -> {"none", "sleeping", "stopping"}]
        /\ UNCHANGED <<job, cur, pc>>
    BY <1>4, TypeParts DEF IInv, JobExpire, JobOK, actorVars
  <2>2. \A j \in Jobs : (Executing(j)' <=> Executing(j)) /\ job' = job
    BY <2>1 DEF Executing
  <2>3. QED
    BY <2>2, PhaseStays
<1>5. QED
  BY <1>1, <1>2, <1>3, <1>4

LEMMA TunerStep ==
    IInv /\ takeovers = 0 /\ [Next]_vars => [Tuner!Next]_JobPhase
<1> SUFFICES ASSUME IInv, takeovers = 0, [Next]_vars PROVE [Tuner!Next]_JobPhase
  OBVIOUS
<1> TypeOK
  BY DEF IInv
<1>1. CASE \/ \E c \in Clients : Request(c) \/ Handler(c) \/ Cancel(c)
           \/ \E a \in Others : Flow(a)
           \/ Supervisor
           \/ \E t \in Tasks : Drain(t) \/ Pull(t) \/ Frame(t) \/ Reap(t)
           \/ Stall \/ Deliver \/ CaptureRecover
  BY <1>1, RequestStep, HandlerStep, CancelStep, FlowStep, SupervisorStep, TaskAndDeviceStep,
     OutsideStutters
<1>2. CASE JobYield \/ JobTune \/ JobStart \/ \E j \in Jobs : JobStop(j) \/ JobExpire(j)
  BY <1>2, ExecutorStutters
<1>3. CASE JobClaim
  <2>1. cur \in Jobs
    BY <1>3 DEF IInv, ExecutorOK, JobClaim, Goto, JobLabels
  <2>2. QED
    BY <1>3, <2>1, Claims DEF Tuner!Next
<1>4. CASE JobAbandon
  BY <1>4, Abandons DEF Tuner!Next
<1>5. CASE \E j \in Jobs : JobReject(j) \/ JobComplete(j)
  BY <1>5, Rejects, Completes DEF Tuner!Next
<1>6. CASE UNCHANGED vars
  <2>1. UNCHANGED jobVars /\ pc' = pc
    BY <1>6 DEF vars, actorVars
  <2>2. \A j \in Jobs : (Executing(j)' <=> Executing(j)) /\ job' = job
    BY <2>1 DEF Executing, jobVars
  <2>3. QED
    BY <2>2, PhaseStays
<1>7. QED
  BY <1>1, <1>2, <1>3, <1>4, <1>5, <1>6 DEF Next, Scheduler, Others

(* While nobody takes the lease by force, the execution of scan jobs is     *)
(* exclusive ownership of the tuner: a job is granted it when no other job  *)
(* has it, and keeps it until it is done.                                   *)
THEOREM JobsOwnTheTuner == Spec /\ [](takeovers = 0) => TunerSafe
<1>1. Init => Tuner!Init
  <2> SUFFICES ASSUME Init PROVE Tuner!Init
    OBVIOUS
  <2>1. \A j \in Jobs : ~Executing(j)
    BY NoJobOK DEF Init, Executing
  <2>2. JobPhase \in [Jobs -> {"waiting", "done"}]
    BY <2>1 DEF JobPhase
  <2>3. QED
    BY <2>2 DEF Tuner!Init
<1>2. QED
  BY <1>1, TunerStep, IInvAlways, PTL DEF Spec, TunerSafe, Tuner!Safe

=============================================================================
