--------------------------- MODULE SidecarRegistry ---------------------------
(* The registry of external decoder processes (sidecar.rs) with the handlers  *)
(* that start and stop them: start_configured_sidecars through the manifest   *)
(* scheduler, the feature pack switches, scan_stop, and one supervisor task   *)
(* per start, which restarts a decoder that exits.                            *)
(*                                                                            *)
(* A start is three critical sections apart (children, inputs, and after      *)
(* 250 ms recipe and supervisor), a restart four, a kill two: everything that *)
(* happens between them is explored.  A handler awaits its parts itself, so a *)
(* client that goes away cuts it off at an await; a supervisor is a task of   *)
(* its own and is never cut off.  Decoders are names, processes are           *)
(* identities taken from a finite pool, a pipe is the process it leads to.    *)
EXTENDS Naturals, Sequences, FiniteSetsExt

CONSTANTS
    Decoders,        \* decoder names
    MaxProcesses,    \* bound on the processes started
    Clients,         \* requests in progress
    MaxSupervisors,  \* bound on the supervisor tasks alive together
    Order,           \* the starts of start_configured_sidecars, in their order: its
                     \* ids by manifest, then rs41mod from its configured path
    Signed,          \* decoders with a manifest that verifies
    MaxRestarts,     \* MAX_RESTARTS
    CountLimit,      \* what the count of restarts wraps at: 256, it is a u8
    MaxRequests,     \* bound on the requests
    MaxFrames        \* bound on the frames of samples fed

None == 0
Processes == 1..MaxProcesses
Supervisors == 1..MaxSupervisors
Agents == Clients \cup Supervisors

ASSUME RegistryAssumption ==
    /\ Order \in Seq([name : Decoders, via : {"manifest", "path"}])
    /\ Signed \subseteq Decoders
    /\ {MaxProcesses, MaxSupervisors, MaxRestarts, MaxRequests, MaxFrames} \subseteq Nat
    /\ CountLimit \in Nat \ {0}
    /\ Clients \cap Nat = {} /\ None \notin Decoders

VARIABLES
    enabled,    \* config: the feature packs that are on, by decoder
    children,   \* name -> the process whose handle the registry owns
    inputs,     \* name -> the process its stdin handle leads to
    recipes,    \* names with a spawn recipe
    restarts,   \* name -> exits counted since the program began, in eight bits
    failures,   \* names with a recorded failure
    process,    \* identity -> its life: state, decoder, and what started it
    agent,      \* where each handler and supervisor is
    feeding,    \* the handles one frame of samples is being written to
    requests,   \* requests so far
    frames,     \* frames so far
    abandoned,  \* history: the processes whose start was cut off
    wraps       \* history: name -> how often its count has wrapped

history == <<abandoned, wraps>>
vars == <<enabled, children, inputs, recipes, restarts, failures, process, agent,
          feeding, requests, frames, abandoned, wraps>>

Idle == [pc |-> "idle", name |-> None, child |-> None, todo |-> {}]
Unborn == [life |-> "unborn", of |-> None, by |-> "nobody"]
Lives == {"unborn", "up", "exited", "killed"}

Init ==
    /\ enabled \in SUBSET Decoders /\ recipes = {} /\ failures = {} /\ requests = 0 /\ frames = 0
    /\ children = [d \in Decoders |-> None]
    /\ inputs = [d \in Decoders |-> None]
    /\ restarts = [d \in Decoders |-> 0] /\ wraps = [d \in Decoders |-> 0] /\ abandoned = {}
    /\ process = [p \in Processes |-> Unborn]
    /\ agent = [a \in Agents |-> Idle]
    /\ feeding = {}

Up(p) == p # None /\ process[p].life = "up"
Exited(p) == p # None /\ process[p].life = "exited"

\* is_running: the registered process has not exited
IsRunning(d) == Up(children[d])

\* kill_on_drop(false)
Forget(ps) == process

\* A handle that goes out of scope takes its process with it (kill_on_drop)
Drop(ps) == [p \in Processes |->
    IF p \in ps /\ process[p].life = "up" THEN [process[p] EXCEPT !.life = "killed"] ELSE process[p]]

Goto(a, pc) == agent' = [agent EXCEPT ![a].pc = pc]

(* ------------------------- starting one decoder -------------------------- *)

\* start_configured_sidecars: those of its starts that are on, by their positions
Todo(on) == {i \in 1..Len(Order) : Order[i].name \in on}

Startable(t) ==
    /\ ~IsRunning(t.name)
    /\ t.via = "manifest" => t.name \in Signed

\* sync_manifest_jobs takes the next id; one that runs or is not trusted is passed over
Pick(a) ==
    /\ agent[a].pc = "sync"
    /\ IF agent[a].todo = {} THEN agent' = [agent EXCEPT ![a] = Idle]
       ELSE LET next == Min(agent[a].todo)
                t == Order[next]
            IN agent' = [agent EXCEPT ![a] =
                IF Startable(t)
                THEN [pc |-> "exec", name |-> t.name, child |-> None, todo |-> agent[a].todo \ {next}]
                ELSE [agent[a] EXCEPT !.todo = @ \ {next}]]
    /\ UNCHANGED <<enabled, children, inputs, recipes, restarts, failures, process, feeding, requests, frames, history>>

\* Where a start leaves its agent: a request goes on with its list, a supervisor ends
Leave(a) == IF a \in Clients THEN [agent[a] EXCEPT !.pc = "sync", !.name = None, !.child = None] ELSE Idle

\* Command::spawn gives a process with pipes ...
Exec(a) ==
    /\ agent[a].pc = "exec" /\ \E p \in Processes : process[p] = Unborn
    /\ LET p == Min({q \in Processes : process[q] = Unborn}) IN
        /\ process' = [process EXCEPT ![p] =
               [life |-> "up", of |-> agent[a].name, by |-> IF a \in Clients THEN "start" ELSE "restart"]]
        /\ agent' = [agent EXCEPT ![a].pc = "register", ![a].child = p]
    /\ UNCHANGED <<enabled, children, inputs, recipes, restarts, failures, feeding, requests, frames, history>>

\* ... or an error, which nobody records
ExecFails(a) ==
    /\ agent[a].pc = "exec"
    /\ agent' = [agent EXCEPT ![a] = Leave(a)]
    /\ UNCHANGED <<enabled, children, inputs, recipes, restarts, failures, process, feeding, requests, frames, history>>

\* children.insert: the handle it replaces is dropped
Register(a) ==
    LET d == agent[a].name IN
    /\ agent[a].pc = "register"
    /\ children' = [children EXCEPT ![d] = agent[a].child]
    /\ process' = Drop({children[d]})
    /\ Goto(a, "pipe")
    /\ UNCHANGED <<enabled, inputs, recipes, restarts, failures, feeding, requests, frames, history>>

\* inputs.insert, after the await of its lock
Pipe(a) ==
    /\ agent[a].pc = "pipe"
    /\ inputs' = [inputs EXCEPT ![agent[a].name] = agent[a].child]
    /\ Goto(a, "settle")
    /\ UNCHANGED <<enabled, children, recipes, restarts, failures, process, feeding, requests, frames, history>>

\* 250 ms later whatever the registry holds under the name has exited: undo
SettleFailed(a) ==
    LET d == agent[a].name IN
    /\ agent[a].pc = "settle" /\ Exited(children[d])
    /\ inputs' = [inputs EXCEPT ![d] = None]
    /\ Goto(a, "undo")
    /\ UNCHANGED <<enabled, children, recipes, restarts, failures, process, feeding, requests, frames, history>>

Undo(a) ==
    LET d == agent[a].name IN
    /\ agent[a].pc = "undo"
    /\ children' = [children EXCEPT ![d] = None]
    /\ process' = Drop({children[d]})
    /\ recipes' = recipes \ {d}
    /\ failures' = failures \cup {d}
    /\ agent' = [agent EXCEPT ![a] = Leave(a)]
    /\ UNCHANGED <<enabled, inputs, restarts, feeding, requests, frames, history>>

\* A supervisor that takes over from its predecessor needs no other identity
FreeFor(a) == {s \in Supervisors : agent[s] = Idle \/ s = a}
Watching(a, d) ==
    LET s == Min(FreeFor(a)) IN
    [agent EXCEPT ![a] = Leave(a), ![s] = [Idle EXCEPT !.pc = "watch", !.name = d]]

\* the supervisor of the first start is taken to be there still
SettleUnwatched(a) ==
    LET d == agent[a].name IN
    /\ agent[a].pc = "settle" /\ ~Exited(children[d])
    /\ recipes' = recipes \cup {d}
    /\ agent' = IF a \in Clients THEN Watching(a, d) ELSE [agent EXCEPT ![a] = Leave(a)]
    /\ UNCHANGED <<enabled, children, inputs, restarts, failures, process, feeding, requests, frames, history>>

\* a start that succeeds gives the decoder its restarts back
SettleResets(a) ==
    LET d == agent[a].name IN
    /\ agent[a].pc = "settle" /\ ~Exited(children[d])
    /\ recipes' = recipes \cup {d}
    /\ restarts' = [restarts EXCEPT ![d] = 0]
    /\ agent' = Watching(a, d)
    /\ UNCHANGED <<enabled, children, inputs, failures, process, feeding, requests, frames, history>>

\* It has not: keep the recipe and start a supervisor
Settle(a) ==
    LET d == agent[a].name IN
    /\ agent[a].pc = "settle" /\ ~Exited(children[d]) /\ FreeFor(a) # {}
    /\ recipes' = recipes \cup {d}
    /\ agent' = Watching(a, d)
    /\ UNCHANGED <<enabled, children, inputs, restarts, failures, process, feeding, requests, frames, history>>

(* ------------------------------ supervision ------------------------------ *)

\* the supervisor takes an exited process for a removed one
WatchEndsAtExit(s) ==
    /\ agent[s].pc = "watch" /\ ~IsRunning(agent[s].name)
    /\ agent' = [agent EXCEPT ![s] = Idle]
    /\ UNCHANGED <<enabled, children, inputs, recipes, restarts, failures, process, feeding, requests, frames, history>>

\* spawn_supervisor looks every 500 ms at the process registered under its name
WatchEnds(s) ==
    /\ agent[s].pc = "watch" /\ children[agent[s].name] = None
    /\ agent' = [agent EXCEPT ![s] = Idle]
    /\ UNCHANGED <<enabled, children, inputs, recipes, restarts, failures, process, feeding, requests, frames, history>>

WatchSeesExit(s) ==
    /\ agent[s].pc = "watch" /\ Exited(children[agent[s].name])
    /\ Goto(s, "lost")
    /\ UNCHANGED <<enabled, children, inputs, recipes, restarts, failures, process, feeding, requests, frames, history>>

Lost(s) ==
    /\ agent[s].pc = "lost"
    /\ inputs' = [inputs EXCEPT ![agent[s].name] = None]
    /\ Goto(s, "count")
    /\ UNCHANGED <<enabled, children, recipes, restarts, failures, process, feeding, requests, frames, history>>

\* The count is taken and judged under one lock; optimised builds wrap it ...
Count(s) ==
    LET d == agent[s].name
        attempt == (restarts[d] + 1) % CountLimit
    IN
    /\ agent[s].pc = "count"
    /\ children' = [children EXCEPT ![d] = None]
    /\ process' = Drop({children[d]})
    /\ restarts' = [restarts EXCEPT ![d] = attempt]
    /\ wraps' = [wraps EXCEPT ![d] = IF attempt = 0 THEN @ + 1 ELSE @]
    /\ IF attempt > MaxRestarts
       THEN /\ failures' = failures \cup {d} /\ recipes' = recipes \ {d}
            /\ agent' = [agent EXCEPT ![s] = Idle]
       ELSE /\ UNCHANGED <<failures, recipes>>
            /\ agent' = [agent EXCEPT ![s] = IF d \in recipes THEN [@ EXCEPT !.pc = "exec"] ELSE Idle]
    /\ UNCHANGED <<enabled, inputs, feeding, requests, frames, abandoned>>

\* ... and the others panic there, which ends the supervisor and leaves the recipe
CountPanics(s) ==
    LET d == agent[s].name IN
    /\ agent[s].pc = "count" /\ restarts[d] + 1 = CountLimit
    /\ children' = [children EXCEPT ![d] = None]
    /\ process' = Drop({children[d]})
    /\ agent' = [agent EXCEPT ![s] = Idle]
    /\ UNCHANGED <<enabled, inputs, recipes, restarts, failures, feeding, requests, frames, history>>

(* ------------------------------- requests -------------------------------- *)

Begin(c) == agent[c] = Idle /\ requests < MaxRequests /\ requests' = requests + 1

\* feature_pack_enable, goes_enable, radiosonde_enable with enabled = true
Enable(c, d) ==
    /\ Begin(c)
    /\ enabled' = enabled \cup {d}
    /\ agent' = [agent EXCEPT ![c] = [Idle EXCEPT !.pc = "sync", !.todo = Todo(enabled \cup {d})]]
    /\ UNCHANGED <<children, inputs, recipes, restarts, failures, process, feeding, frames, history>>

\* sidecars_start_all, and the end of scan_start
StartAll(c) ==
    /\ Begin(c)
    /\ agent' = [agent EXCEPT ![c] = [Idle EXCEPT !.pc = "sync", !.todo = Todo(enabled)]]
    /\ UNCHANGED <<enabled, children, inputs, recipes, restarts, failures, process, feeding, frames, history>>

\* ... with enabled = false: kill the decoder
Disable(c, d) ==
    /\ Begin(c)
    /\ enabled' = enabled \ {d}
    /\ agent' = [agent EXCEPT ![c] = [Idle EXCEPT !.pc = "close", !.name = d]]
    /\ UNCHANGED <<children, inputs, recipes, restarts, failures, process, feeding, frames, history>>

\* scan_stop: kill_all
StopAll(c) ==
    /\ Begin(c)
    /\ agent' = [agent EXCEPT ![c] = [Idle EXCEPT !.pc = "close"]]
    /\ UNCHANGED <<enabled, children, inputs, recipes, restarts, failures, process, feeding, frames, history>>

\* Both begin with stdin, after the await of its lock
Close(c) ==
    LET d == agent[c].name IN
    /\ agent[c].pc = "close"
    /\ inputs' = [e \in Decoders |-> IF d \in {e, None} THEN None ELSE inputs[e]]
    /\ Goto(c, IF d = None THEN "drain" ELSE "kill")
    /\ UNCHANGED <<enabled, children, recipes, restarts, failures, process, feeding, requests, frames, history>>

Kill(c) ==
    LET d == agent[c].name IN
    /\ agent[c].pc = "kill"
    /\ recipes' = recipes \ {d}
    /\ children' = [children EXCEPT ![d] = None]
    /\ agent' = [agent EXCEPT ![c] = IF children[d] = None THEN Idle ELSE [@ EXCEPT !.pc = "grace", !.child = children[d]]]
    /\ UNCHANGED <<enabled, inputs, restarts, failures, process, feeding, requests, frames, history>>

\* It has two seconds to notice that its stdin is closed; then it is killed
Grace(c) ==
    /\ agent[c].pc = "grace"
    /\ process' = Drop({agent[c].child})
    /\ agent' = [agent EXCEPT ![c] = Idle]
    /\ UNCHANGED <<enabled, children, inputs, recipes, restarts, failures, feeding, requests, frames, history>>

Drain(c) ==
    /\ agent[c].pc = "drain"
    /\ recipes' = {}
    /\ children' = [d \in Decoders |-> None]
    /\ process' = Drop({children[d] : d \in Decoders})
    /\ agent' = [agent EXCEPT ![c] = Idle]
    /\ UNCHANGED <<enabled, inputs, restarts, failures, feeding, requests, frames, history>>

\* The client goes away: its handler ends at the await where it is, for the lock
\* of inputs or for the 250 ms to pass.  What it has registered stays registered.
Cancel(c) ==
    /\ agent[c].pc \in {"close", "pipe", "settle"}
    /\ abandoned' = abandoned \cup ({agent[c].child} \ {None})
    /\ agent' = [agent EXCEPT ![c] = Idle]
    /\ UNCHANGED <<enabled, children, inputs, recipes, restarts, failures, process, feeding, requests, frames, wraps>>

(* ------------------------- samples, and the outside ---------------------- *)

\* feed_stdin takes the handles under the lock ...
FeedBegin ==
    /\ feeding = {} /\ frames < MaxFrames
    /\ frames' = frames + 1
    /\ feeding' = {[name |-> d, child |-> inputs[d]] : d \in {e \in Decoders : inputs[e] # None}}
    /\ UNCHANGED <<enabled, children, inputs, recipes, restarts, failures, process, agent, requests, history>>

\* ... and writes to each without it: a closed pipe, or one that stays full for
\* 750 ms, is recorded against the name, whoever has the name by then
FeedWrite ==
    /\ \E h \in feeding :
        /\ feeding' = feeding \ {h}
        /\ failures' \in {failures \cup {h.name}} \cup (IF Up(h.child) THEN {failures} ELSE {})
    /\ UNCHANGED <<enabled, children, inputs, recipes, restarts, process, agent, requests, frames, history>>

\* A decoder exits on its own
Exit(p) ==
    /\ process[p].life = "up"
    /\ process' = [process EXCEPT ![p].life = "exited"]
    /\ UNCHANGED <<enabled, children, inputs, recipes, restarts, failures, agent, feeding, requests, frames, history>>

Spawning(a) == Exec(a) \/ ExecFails(a) \/ Register(a) \/ Pipe(a) \/ SettleFailed(a) \/ Undo(a) \/ Settle(a)
Request(c) ==
    \/ \E d \in Decoders : Enable(c, d) \/ Disable(c, d)
    \/ StartAll(c) \/ StopAll(c)
Handler(c) == Pick(c) \/ Spawning(c) \/ Close(c) \/ Kill(c) \/ Grace(c) \/ Drain(c)
Supervisor(s) ==
    WatchEnds(s) \/ WatchSeesExit(s) \/ Lost(s) \/ Count(s) \/ CountPanics(s) \/ Spawning(s)

Next ==
    \/ \E c \in Clients : Request(c) \/ Handler(c) \/ Cancel(c)
    \/ \E s \in Supervisors : Supervisor(s)
    \/ FeedBegin \/ FeedWrite
    \/ \E p \in Processes : Exit(p)

Spec == Init /\ [][Next]_vars

\* tokio keeps polling the tasks that can run; processes need never exit, and
\* requests need never come nor wait for their answer
FairSpec ==
    /\ Spec
    /\ \A c \in Clients : WF_vars(Handler(c))
    /\ \A s \in Supervisors : WF_vars(Supervisor(s))

(* ------------------------------- properties ------------------------------ *)

\* Somebody owns the handle of process p: the registry, a start that has not
\* registered it yet, or a kill that waits for it
Owned(p) ==
    \/ \E d \in Decoders : children[d] = p
    \/ \E a \in Agents : agent[a].child = p /\ agent[a].pc \in {"register", "grace"}

\* However starts, restarts, kills and stops overlap, no decoder process keeps
\* running that nobody could stop any more, and none runs under two names
NoStrayProcess ==
    \A p \in Processes : Up(p) =>
        /\ Owned(p)
        /\ \A d \in Decoders : children[d] = p => d = process[p].of

\* Somebody will look at the process registered under a name: a supervisor of the
\* name, or the very start that registered it and will bring one
Watched(d) ==
    \E a \in Agents :
        /\ agent[a].name = d
        /\ \/ agent[a].pc \in {"watch", "lost", "count"}
           \/ agent[a].pc \in {"pipe", "settle", "undo"} /\ agent[a].child = children[d]

\* A process that is registered does not exit unnoticed, however starts, kills and
\* supervisors of its name overlap and whichever of their clients go away: only
\* the client that started this very process can leave it unwatched, by going
\* away before its start has settled
Supervised == \A d \in Decoders : children[d] \notin abandoned \cup {None} => Watched(d)

\* All supervisors of one decoder share one budget: through every stop, start and
\* disable it is restarted at most MaxRestarts times, and MaxRestarts + 1 times
\* more for each time its eight bit count of exits has wrapped
RestartsBounded ==
    \A d \in Decoders :
        Cardinality({p \in Processes : process[p].of = d /\ process[p].by = "restart"})
            <= MaxRestarts + (MaxRestarts + 1) * wraps[d]

\* The name of a decoder that died does not keep leading to it: it is taken out
\* of the registry, unless the client that started it has gone away meanwhile
DeadIsDeregistered ==
    \A d \in Decoders : Exited(children[d]) ~> (Exited(children[d]) => children[d] \in abandoned)

TypeOK ==
    /\ enabled \subseteq Decoders /\ recipes \subseteq Decoders /\ failures \subseteq Decoders
    /\ children \in [Decoders -> Processes \cup {None}]
    /\ inputs \in [Decoders -> Processes \cup {None}]
    /\ restarts \in [Decoders -> 0..CountLimit - 1] /\ wraps \in [Decoders -> Nat]
    /\ abandoned \subseteq Processes
    /\ process \in [Processes -> [life : Lives, of : Decoders \cup {None}, by : {"nobody", "start", "restart"}]]
    /\ requests \in 0..MaxRequests
=============================================================================
