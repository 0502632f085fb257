----------------------- MODULE SidecarRegistry_proofs -----------------------
(* Proofs about SidecarRegistry, for any decoders, any number of requests,    *)
(* processes and supervisors and any limit on restarts: no process runs that  *)
(* nobody could stop, every registered decoder is watched, and automatic      *)
(* restarts are bounded.                                                      *)
EXTENDS SidecarRegistry, FiniteSetTheorems, WellFoundedInduction, TLAPS

Stages == {"idle", "sync", "exec", "register", "pipe", "settle", "undo", "watch", "lost",
           "count", "close", "kill", "grace", "drain"}

USE DEF history

\* Where an agent can be: one that handles a decoder knows which, one that
\* owns a process has it.
AgentRecord ==
    {r \in [pc : Stages, name : Decoders \cup {None}, child : Processes \cup {None},
            todo : SUBSET (1..Len(Order))] :
        /\ r.pc \notin {"idle", "sync", "close", "drain"} => r.name \in Decoders
        /\ r.pc \in {"register", "grace"} => r.child \in Processes}

Types ==
    /\ TypeOK
    /\ agent \in [Agents -> AgentRecord]
    /\ feeding \subseteq [name : Decoders, child : Processes]

\* A process is registered under the name it was started for, and carried to
\* the registry by the start that will register it.
Registered == \A d \in Decoders : children[d] # None => process[children[d]].of = d
Carried ==
    \A a \in Agents : agent[a].pc = "register" => process[agent[a].child].of = agent[a].name
AllOwned == \A p \in Processes : Up(p) => Owned(p)

\* What an agent r does for the process p registered under d: see Watched.
Watches(r, d, p) ==
    /\ r.name = d
    /\ r.pc \in {"watch", "lost", "count"} \/ (r.pc \in {"pipe", "settle", "undo"} /\ r.child = p)

RegistryInv == Types /\ Registered /\ Carried /\ AllOwned /\ Supervised

----------------------------------------------------------------------------
(* Identities and positions are numbers: Min finds one. *)

LEMMA LeastExists ==
    ASSUME NEW S \in SUBSET Nat, S # {}
    PROVE  Min(S) \in S
<1>1. PICK x \in S : \A y \in S : ~ (<<y, x>> \in OpToRel(<, Nat))
  BY NatLessThanWellFounded, WFMin, Zenon
<1>2. ASSUME NEW y \in S PROVE x <= y
  <2>1. ~ (y < x)
    BY <1>1 DEF OpToRel
  <2>2. QED
    BY <2>1
<1>3. QED
  BY <1>2 DEF Min

\* A supervisor is no client, and None is neither a decoder nor a process.
LEMMA Apart ==
    /\ \A s \in Supervisors : s \in Agents /\ s \notin Clients
    /\ \A c \in Clients : c \in Agents /\ c \notin Supervisors
    /\ None \notin Decoders /\ None \notin Processes
<1>1. /\ Clients \cap Nat = {} /\ None \notin Decoders
      /\ MaxSupervisors \in Nat /\ MaxProcesses \in Nat
  BY RegistryAssumption
<1>2. Supervisors \subseteq Nat /\ None \notin Processes
  BY <1>1 DEF Supervisors, Processes, None
<1>3. QED
  BY <1>1, <1>2 DEF Agents

LEMMA IdleOK == Idle \in AgentRecord
  BY DEF Idle, AgentRecord, Stages

\* The agent of a request goes on with its list or ends.
LEMMA LeaveOK ==
    ASSUME agent \in [Agents -> AgentRecord], NEW a \in Agents
    PROVE  Leave(a) \in AgentRecord /\ Leave(a).pc \in {"sync", "idle"}
<1>1. CASE a \in Clients
  BY <1>1 DEF Leave, AgentRecord, Stages
<1>2. CASE a \notin Clients
  BY <1>2, IdleOK DEF Leave, Idle
<1>3. QED
  BY <1>1, <1>2

\* To drop handles kills what still runs, and nothing else happens to a process.
LEMMA DropKeeps ==
    ASSUME process \in [Processes -> [life : Lives, of : Decoders \cup {None},
                                      by : {"nobody", "start", "restart"}]],
           NEW ps
    PROVE  /\ Drop(ps) \in [Processes -> [life : Lives, of : Decoders \cup {None},
                                          by : {"nobody", "start", "restart"}]]
           /\ \A p \in Processes :
                /\ Drop(ps)[p].of = process[p].of /\ Drop(ps)[p].by = process[p].by
                /\ Drop(ps)[p].life = "up" => process[p].life = "up" /\ p \notin ps
<1> SUFFICES ASSUME NEW p \in Processes
             PROVE  /\ Drop(ps)[p] \in [life : Lives, of : Decoders \cup {None},
                                        by : {"nobody", "start", "restart"}]
                    /\ Drop(ps)[p].of = process[p].of /\ Drop(ps)[p].by = process[p].by
                    /\ Drop(ps)[p].life = "up" => process[p].life = "up" /\ p \notin ps
  BY DEF Drop
<1>1. process[p] \in [life : Lives, of : Decoders \cup {None}, by : {"nobody", "start", "restart"}]
  OBVIOUS
<1>2. CASE p \in ps /\ process[p].life = "up"
  BY <1>1, <1>2 DEF Drop, Lives
<1>3. CASE ~(p \in ps /\ process[p].life = "up")
  BY <1>1, <1>3 DEF Drop
<1>4. QED
  BY <1>2, <1>3

----------------------------------------------------------------------------
(* A step that only moves one agent, and that no process depends on. *)
LEMMA AgentMoves ==
    ASSUME RegistryInv, TypeOK', NEW a \in Agents, NEW r \in AgentRecord,
           agent' = [agent EXCEPT ![a] = r],
           feeding' = feeding, UNCHANGED <<children, process>>,
           agent[a].pc \notin {"register", "grace"}, r.pc # "register",
           abandoned \subseteq abandoned',
           \A d \in Decoders : Watches(agent[a], d, children[d]) =>
               Watches(r, d, children[d]) \/ children[d] \in abandoned' \cup {None}
    PROVE  RegistryInv'
<1>1. /\ agent \in [Agents -> AgentRecord] /\ agent' \in [Agents -> AgentRecord]
      /\ agent'[a] = r /\ \A b \in Agents \ {a} : agent'[b] = agent[b]
  BY DEF RegistryInv, Types
<1>2. Types'
  BY <1>1 DEF RegistryInv, Types
<1>3. Registered' /\ Carried'
  BY <1>1 DEF RegistryInv, Registered, Carried
<1>4. AllOwned'
  BY <1>1 DEF RegistryInv, AllOwned, Up, Owned
<1>5. Supervised'
  <2> SUFFICES ASSUME NEW d \in Decoders, children[d] \notin abandoned' \cup {None}
               PROVE  \E b \in Agents : Watches(agent'[b], d, children[d])
    BY DEF Supervised, Watched, Watches
  <2>1. PICK b \in Agents : Watches(agent[b], d, children[d])
    BY DEF RegistryInv, Supervised, Watched, Watches
  <2>2. CASE b = a
    BY <1>1, <2>1, <2>2
  <2>3. CASE b # a
    BY <1>1, <2>1, <2>3
  <2>4. QED
    BY <2>2, <2>3
<1>6. QED
  BY <1>2, <1>3, <1>4, <1>5 DEF RegistryInv

\* The least of some processes, of some supervisors, of some starts is one of them.
LEMMA SomeIdentity ==
    /\ \A S \in SUBSET Processes : S # {} => Min(S) \in S
    /\ \A S \in SUBSET Supervisors : S # {} => Min(S) \in S
    /\ \A S \in SUBSET (1..Len(Order)) : S # {} => Min(S) \in S
<1>1. Processes \subseteq Nat /\ Supervisors \subseteq Nat /\ 1..Len(Order) \subseteq Nat
  BY RegistryAssumption DEF Processes, Supervisors
<1>2. QED
  BY <1>1, LeastExists

ProcessRecord == [life : Lives, of : Decoders \cup {None}, by : {"nobody", "start", "restart"}]

LEMMA TypeFacts ==
    ASSUME RegistryInv
    PROVE  /\ agent \in [Agents -> AgentRecord]
           /\ process \in [Processes -> ProcessRecord]
           /\ children \in [Decoders -> Processes \cup {None}]
           /\ inputs \in [Decoders -> Processes \cup {None}]
           /\ \A a \in Agents : agent[a].pc \notin {"idle", "sync", "close", "drain"} => agent[a].name \in Decoders
  BY DEF RegistryInv, Types, TypeOK, ProcessRecord, AgentRecord

(* A step of one agent that gives up handles with the processes they own.     *)
LEMMA AgentDrops ==
    ASSUME RegistryInv, TypeOK', NEW a \in Agents, NEW r \in AgentRecord, NEW ps,
           agent' = [agent EXCEPT ![a] = r], r.pc # "register",
           feeding' = feeding, process' = Drop(ps), abandoned' = abandoned,
           \A d \in Decoders : children'[d] # None =>
               children'[d] = children[d]
                 \/ (agent[a].pc = "register" /\ d = agent[a].name /\ children'[d] = agent[a].child),
           \A d \in Decoders : children'[d] = children[d] \/ children[d] \in ps,
           agent[a].pc = "register" => \E d \in Decoders : children'[d] = agent[a].child,
           agent[a].pc = "grace" => agent[a].child \in ps,
           \A d \in Decoders : children'[d] # None =>
               \/ Watches(r, d, children'[d])
               \/ children'[d] = children[d] /\ ~Watches(agent[a], d, children[d])
    PROVE  RegistryInv'
<1>1. /\ agent' \in [Agents -> AgentRecord]
      /\ agent'[a] = r /\ \A b \in Agents \ {a} : agent'[b] = agent[b]
  BY TypeFacts
<1>2. Types'
  BY <1>1 DEF RegistryInv, Types
<1>3. \A p \in Processes :
        /\ process'[p].of = process[p].of
        /\ process'[p].life = "up" => process[p].life = "up" /\ p \notin ps
  BY TypeFacts, DropKeeps DEF ProcessRecord
<1>4. Registered'
  <2> SUFFICES ASSUME NEW d \in Decoders, children'[d] # None
               PROVE  process'[children'[d]].of = d
    BY DEF Registered
  <2>1. children'[d] \in Processes
    BY DEF TypeOK
  <2>2. process[children'[d]].of = d
    BY DEF RegistryInv, Registered, Carried
  <2>3. QED
    BY <1>3, <2>1, <2>2
<1>5. Carried'
  <2> SUFFICES ASSUME NEW b \in Agents, agent'[b].pc = "register"
               PROVE  process'[agent'[b].child].of = agent'[b].name
    BY DEF Carried
  <2>1. b # a /\ agent'[b] = agent[b]
    BY <1>1
  <2>2. agent[b].child \in Processes
    BY <2>1, TypeFacts DEF AgentRecord
  <2>3. QED
    BY <1>3, <2>1, <2>2 DEF RegistryInv, Carried
<1>6. AllOwned'
  <2> SUFFICES ASSUME NEW p \in Processes, Up(p)' PROVE Owned(p)'
    BY DEF AllOwned
  <2>1. process[p].life = "up" /\ p \notin ps /\ p # None
    BY <1>3, Apart DEF Up
  <2>2. Owned(p)
    BY <2>1 DEF RegistryInv, AllOwned, Up
  <2>3. CASE \E d \in Decoders : children[d] = p
    BY <2>1, <2>3 DEF Owned
  <2>4. CASE \E b \in Agents \ {a} : agent[b].child = p /\ agent[b].pc \in {"register", "grace"}
    BY <1>1, <2>4 DEF Owned
  <2>5. CASE agent[a].child = p /\ agent[a].pc \in {"register", "grace"}
    BY <2>1, <2>5 DEF Owned
  <2>6. QED
    BY <2>2, <2>3, <2>4, <2>5 DEF Owned
<1>7. Supervised'
  <2> SUFFICES ASSUME NEW d \in Decoders, children'[d] \notin abandoned \cup {None}
               PROVE  \E b \in Agents : Watches(agent'[b], d, children'[d])
    BY DEF Supervised, Watched, Watches
  <2>1. CASE Watches(r, d, children'[d])
    BY <1>1, <2>1
  <2>2. CASE children'[d] = children[d] /\ ~Watches(agent[a], d, children[d])
    <3>1. PICK b \in Agents : Watches(agent[b], d, children[d])
      BY <2>2 DEF RegistryInv, Supervised, Watched, Watches
    <3>2. b # a
      BY <2>2, <3>1
    <3>3. QED
      BY <1>1, <3>1, <3>2
  <2>3. QED
    BY <2>1, <2>2
<1>8. QED
  BY <1>2, <1>4, <1>5, <1>6, <1>7 DEF RegistryInv

----------------------------------------------------------------------------
(* Starting a decoder *)

LEMMA OrderNames == \A i \in 1..Len(Order) : Order[i].name \in Decoders
<1> DEFINE Start == [name : Decoders, via : {"manifest", "path"}]
<1>1. Order \in Seq(Start)
  BY RegistryAssumption
<1> HIDE DEF Start
<1>2. ASSUME NEW i \in 1..Len(Order) PROVE Order[i] \in Start
  BY <1>1
<1>3. QED
  BY <1>2 DEF Start

LEMMA PickKeeps ==
    ASSUME RegistryInv, NEW a \in Agents, Pick(a)
    PROVE  RegistryInv'
<1>1. TypeOK'
  BY DEF Pick, RegistryInv, Types, TypeOK
<1>2. agent[a] \in AgentRecord /\ agent[a].pc = "sync" /\ agent[a].todo \subseteq 1..Len(Order)
  BY TypeFacts DEF Pick, AgentRecord
<1>3. PICK r \in AgentRecord : agent' = [agent EXCEPT ![a] = r] /\ r.pc # "register"
  <2>1. CASE agent[a].todo = {}
    BY <2>1, IdleOK DEF Pick, Idle
  <2>2. CASE agent[a].todo # {}
    <3> DEFINE next == Min(agent[a].todo)
               t == Order[next]
               started == [pc |-> "exec", name |-> t.name, child |-> None,
                           todo |-> agent[a].todo \ {next}]
               passed == [agent[a] EXCEPT !.todo = @ \ {next}]
    <3>1. next \in 1..Len(Order)
      BY <1>2, <2>2, SomeIdentity
    <3>2. agent' = [agent EXCEPT ![a] = IF Startable(t) THEN started ELSE passed]
      BY <2>2, Zenon DEF Pick
    <3> HIDE DEF next
    <3>3. t.name \in Decoders
      BY <3>1, OrderNames
    <3> HIDE DEF t
    <3>4. started \in AgentRecord /\ started.pc # "register"
      BY <1>2, <3>3 DEF AgentRecord, Stages
    <3>5. passed \in AgentRecord /\ passed.pc # "register"
      BY <1>2 DEF AgentRecord, Stages
    <3> HIDE DEF started, passed
    <3>6. QED
      BY <3>2, <3>4, <3>5
  <2>3. QED
    BY <2>1, <2>2
<1>4. UNCHANGED <<children, process, feeding, abandoned>>
  BY DEF Pick
<1>5. QED
  BY <1>1, <1>2, <1>3, <1>4, AgentMoves DEF Watches

LEMMA ExecKeeps ==
    ASSUME RegistryInv, NEW a \in Agents, Exec(a)
    PROVE  RegistryInv'
<1> DEFINE p == Min({q \in Processes : process[q] = Unborn})
           d == agent[a].name
           new == [life |-> "up", of |-> d, by |-> IF a \in Clients THEN "start" ELSE "restart"]
           r == [agent[a] EXCEPT !.pc = "register", !.child = p]
<1>1. p \in Processes /\ process[p] = Unborn
  BY SomeIdentity DEF Exec
<1>2. agent[a] \in AgentRecord /\ agent[a].pc = "exec" /\ d \in Decoders
  BY TypeFacts DEF Exec
<1>3. process' = [process EXCEPT ![p] = new] /\ new \in ProcessRecord
  BY <1>2 DEF Exec, ProcessRecord, Lives
<1>4. /\ process' \in [Processes -> ProcessRecord] /\ process'[p] = new
      /\ \A q \in Processes \ {p} : process'[q] = process[q]
  BY <1>1, <1>3, TypeFacts
<1>5. agent' = [agent EXCEPT ![a] = r]
  BY DEF Exec
<1>6. r \in AgentRecord /\ r.pc = "register" /\ r.child = p /\ r.name = d
  BY <1>1, <1>2 DEF AgentRecord, Stages
<1>7. /\ agent' \in [Agents -> AgentRecord] /\ agent'[a] = r
      /\ \A b \in Agents \ {a} : agent'[b] = agent[b]
  BY <1>5, <1>6, TypeFacts
<1>8. UNCHANGED <<enabled, children, inputs, recipes, restarts, failures, feeding, requests, history>>
  BY DEF Exec
<1> HIDE DEF new, r, p
<1>9. Types'
  BY <1>4, <1>7, <1>8 DEF RegistryInv, Types, TypeOK, ProcessRecord
<1>10. \A q \in Processes : process[q].of \in Decoders => q # p
  BY <1>1, Apart DEF Unborn
<1>11. Registered'
  BY <1>4, <1>8, <1>10, TypeFacts DEF RegistryInv, Registered
<1>12. Carried'
  <2> SUFFICES ASSUME NEW b \in Agents, agent'[b].pc = "register"
               PROVE  process'[agent'[b].child].of = agent'[b].name
    BY DEF Carried
  <2>1. CASE b = a
    BY <1>4, <1>6, <1>7, <2>1 DEF new
  <2>2. CASE b # a
    <3>1. agent[b].child \in Processes /\ agent[b].name \in Decoders
      BY <1>7, <2>2, TypeFacts DEF AgentRecord
    <3>2. process[agent[b].child].of = agent[b].name
      BY <1>7, <2>2 DEF RegistryInv, Carried
    <3>3. QED
      BY <1>4, <1>7, <1>10, <2>2, <3>1, <3>2
  <2>3. QED
    BY <2>1, <2>2
<1>13. AllOwned'
  <2> SUFFICES ASSUME NEW q \in Processes, Up(q)' PROVE Owned(q)'
    BY DEF AllOwned
  <2>1. CASE q = p
    BY <1>6, <1>7, <2>1 DEF Owned
  <2>2. CASE q # p
    <3>1. Owned(q)
      BY <1>4, <2>2 DEF RegistryInv, AllOwned, Up
    <3>2. QED
      BY <1>2, <1>7, <1>8, <3>1 DEF Owned
  <2>3. QED
    BY <2>1, <2>2
<1>14. Supervised'
  <2> SUFFICES ASSUME NEW e \in Decoders, children[e] \notin abandoned \cup {None}
               PROVE  \E b \in Agents : Watches(agent'[b], e, children[e])
    BY <1>8 DEF Supervised, Watched, Watches
  <2>1. PICK b \in Agents : Watches(agent[b], e, children[e])
    BY DEF RegistryInv, Supervised, Watched, Watches
  <2>2. b # a
    BY <1>2, <2>1 DEF Watches
  <2>3. QED
    BY <1>7, <2>1, <2>2
<1>15. QED
  BY <1>9, <1>11, <1>12, <1>13, <1>14 DEF RegistryInv

LEMMA ExecFailsKeeps ==
    ASSUME RegistryInv, NEW a \in Agents, ExecFails(a)
    PROVE  RegistryInv'
<1>1. TypeOK'
  BY DEF ExecFails, RegistryInv, Types, TypeOK
<1>2. Leave(a) \in AgentRecord /\ Leave(a).pc \in {"sync", "idle"}
  BY TypeFacts, LeaveOK
<1>3. QED
  BY <1>1, <1>2, AgentMoves DEF ExecFails, Watches

LEMMA RegisterKeeps ==
    ASSUME RegistryInv, NEW a \in Agents, Register(a)
    PROVE  RegistryInv'
<1> DEFINE d == agent[a].name
           r == [agent[a] EXCEPT !.pc = "pipe"]
<1>1. agent[a] \in AgentRecord /\ agent[a].pc = "register"
  BY TypeFacts DEF Register
<1>2. d \in Decoders /\ agent[a].child \in Processes /\ agent[a].child # None
  BY <1>1, Apart DEF AgentRecord
<1>3. r \in AgentRecord /\ r.pc = "pipe" /\ r.name = d /\ r.child = agent[a].child
  BY <1>1 DEF AgentRecord, Stages
<1>4. /\ agent' = [agent EXCEPT ![a] = r]
      /\ children' = [children EXCEPT ![d] = agent[a].child]
      /\ process' = Drop({children[d]})
      /\ UNCHANGED <<enabled, inputs, recipes, restarts, failures, feeding, requests, history>>
  BY DEF Register, Goto
<1>5. children'[d] = agent[a].child /\ \A e \in Decoders \ {d} : children'[e] = children[e]
  BY <1>2, <1>4, TypeFacts
<1> HIDE DEF r, d
<1>6. TypeOK'
  BY <1>2, <1>4, TypeFacts, DropKeeps DEF RegistryInv, Types, TypeOK, ProcessRecord
<1>7. \A e \in Decoders : ~Watches(agent[a], e, children[e])
  BY <1>1 DEF Watches
<1>8. Watches(r, d, children'[d])
  BY <1>3, <1>5 DEF Watches
<1>9. \A e \in Decoders : children'[e] # None =>
          \/ Watches(r, e, children'[e])
          \/ children'[e] = children[e] /\ ~Watches(agent[a], e, children[e])
  BY <1>5, <1>7, <1>8
<1>10. \A e \in Decoders : children'[e] # None =>
          children'[e] = children[e]
            \/ (agent[a].pc = "register" /\ e = agent[a].name /\ children'[e] = agent[a].child)
  BY <1>1, <1>5 DEF d
<1>11. \A e \in Decoders : children'[e] = children[e] \/ children[e] \in {children[d]}
  BY <1>5
<1>12. \E e \in Decoders : children'[e] = agent[a].child
  BY <1>2, <1>5
<1>13. r.pc # "register" /\ agent[a].pc # "grace"
  BY <1>1, <1>3
<1>14. QED
  BY <1>3, <1>4, <1>6, <1>9, <1>10, <1>11, <1>12, <1>13, AgentDrops

LEMMA PipeKeeps ==
    ASSUME RegistryInv, NEW a \in Agents, Pipe(a)
    PROVE  RegistryInv'
<1> DEFINE r == [agent[a] EXCEPT !.pc = "settle"]
<1>1. agent[a] \in AgentRecord /\ agent[a].pc = "pipe" /\ agent[a].child \in Processes \cup {None}
  BY TypeFacts DEF Pipe, AgentRecord
<1>2. r \in AgentRecord /\ r.pc = "settle" /\ r.name = agent[a].name /\ r.child = agent[a].child
  BY <1>1 DEF AgentRecord, Stages
<1>3. TypeOK'
  BY <1>1 DEF Pipe, RegistryInv, Types, TypeOK
<1>4. agent' = [agent EXCEPT ![a] = r] /\ UNCHANGED <<children, process, feeding, abandoned>>
  BY DEF Pipe, Goto
<1> HIDE DEF r
<1>5. QED
  BY <1>1, <1>2, <1>3, <1>4, AgentMoves DEF Watches

LEMMA SettleFailedKeeps ==
    ASSUME RegistryInv, NEW a \in Agents, SettleFailed(a)
    PROVE  RegistryInv'
<1> DEFINE r == [agent[a] EXCEPT !.pc = "undo"]
<1>1. agent[a] \in AgentRecord /\ agent[a].pc = "settle"
  BY TypeFacts DEF SettleFailed
<1>2. r \in AgentRecord /\ r.pc = "undo" /\ r.name = agent[a].name /\ r.child = agent[a].child
  BY <1>1 DEF AgentRecord, Stages
<1>3. TypeOK'
  BY DEF SettleFailed, RegistryInv, Types, TypeOK
<1>4. agent' = [agent EXCEPT ![a] = r] /\ UNCHANGED <<children, process, feeding, abandoned>>
  BY DEF SettleFailed, Goto
<1> HIDE DEF r
<1>5. QED
  BY <1>1, <1>2, <1>3, <1>4, AgentMoves DEF Watches

\* Steps that take one decoder out of the registry and end what watched it.
LEMMA Deregisters ==
    ASSUME RegistryInv, NEW a \in Agents, agent[a].pc \in {"undo", "count"},
           NEW r \in AgentRecord, r.pc # "register", agent' = [agent EXCEPT ![a] = r],
           children' = [children EXCEPT ![agent[a].name] = None],
           process' = Drop({children[agent[a].name]}),
           recipes' \subseteq Decoders, failures' \subseteq Decoders,
           restarts' \in [Decoders -> 0..CountLimit - 1], wraps' \in [Decoders -> Nat],
           UNCHANGED <<enabled, inputs, feeding, requests, abandoned>>
    PROVE  RegistryInv'
<1> DEFINE d == agent[a].name
<1>1. d \in Decoders /\ agent[a].pc # "register" /\ agent[a].pc # "grace"
  BY TypeFacts
<1>2. children'[d] = None /\ \A e \in Decoders \ {d} : children'[e] = children[e]
  BY <1>1, TypeFacts
<1>3. TypeOK'
  BY <1>1, TypeFacts, DropKeeps DEF RegistryInv, Types, TypeOK, ProcessRecord
<1>4. \A e \in Decoders : children'[e] # None => children'[e] = children[e]
  BY <1>2
<1>5. \A e \in Decoders : children'[e] = children[e] \/ children[e] \in {children[d]}
  BY <1>2
<1>6. \A e \in Decoders : children'[e] # None =>
          \/ Watches(r, e, children'[e])
          \/ children'[e] = children[e] /\ ~Watches(agent[a], e, children[e])
  BY <1>2 DEF Watches
<1>7. process' = Drop({children[d]}) /\ feeding' = feeding /\ abandoned' = abandoned
  OBVIOUS
<1> HIDE DEF d
<1> DEFINE ps == {children[d]}
<1>8. /\ process' = Drop(ps) /\ \A e \in Decoders : children'[e] = children[e] \/ children[e] \in ps
  BY <1>5, <1>7
<1> HIDE DEF ps
<1>9. QED
  BY <1>1, <1>3, <1>4, <1>6, <1>7, <1>8, AgentDrops

LEMMA UndoKeeps ==
    ASSUME RegistryInv, NEW a \in Agents, Undo(a)
    PROVE  RegistryInv'
<1>1. Leave(a) \in AgentRecord /\ Leave(a).pc # "register"
  BY TypeFacts, LeaveOK
<1>2. agent[a].pc \in {"undo", "count"} /\ agent[a].name \in Decoders
  BY TypeFacts DEF Undo
<1>3. /\ recipes' \subseteq Decoders /\ failures' \subseteq Decoders
      /\ restarts' \in [Decoders -> 0..CountLimit - 1] /\ wraps' \in [Decoders -> Nat]
  BY <1>2 DEF Undo, RegistryInv, Types, TypeOK
<1>4. QED
  BY <1>1, <1>2, <1>3, Deregisters DEF Undo

LEMMA CountKeeps ==
    ASSUME RegistryInv, NEW s \in Agents, Count(s) \/ CountPanics(s)
    PROVE  RegistryInv'
<1> DEFINE d == agent[s].name
           again == [agent[s] EXCEPT !.pc = "exec"]
<1>1. agent[s] \in AgentRecord /\ agent[s].pc = "count" /\ d \in Decoders
  BY TypeFacts DEF Count, CountPanics
<1>2. again \in AgentRecord /\ again.pc # "register"
  BY <1>1 DEF AgentRecord, Stages
<1>3. Idle \in AgentRecord /\ Idle.pc # "register"
  BY IdleOK DEF Idle
<1>4. PICK r \in AgentRecord : r.pc # "register" /\ agent' = [agent EXCEPT ![s] = r]
  <2>1. agent' = [agent EXCEPT ![s] = Idle] \/ agent' = [agent EXCEPT ![s] = again]
    BY <1>1, TypeFacts DEF Count, CountPanics
  <2>2. QED
    BY <1>2, <1>3, <2>1
<1>5. recipes' \subseteq Decoders /\ failures' \subseteq Decoders
  BY <1>1 DEF Count, CountPanics, RegistryInv, Types, TypeOK
<1>6. restarts' \in [Decoders -> 0..CountLimit - 1] /\ wraps' \in [Decoders -> Nat]
  <2>1. /\ restarts \in [Decoders -> 0..CountLimit - 1] /\ wraps \in [Decoders -> Nat]
        /\ CountLimit \in Nat \ {0}
    BY RegistryAssumption DEF RegistryInv, Types, TypeOK
  <2>2. (restarts[d] + 1) % CountLimit \in 0..CountLimit - 1
    BY <1>1, <2>1
  <2>3. QED
    BY <1>1, <2>1, <2>2 DEF Count, CountPanics
<1>7. /\ children' = [children EXCEPT ![d] = None] /\ process' = Drop({children[d]})
      /\ UNCHANGED <<enabled, inputs, feeding, requests, abandoned>>
  BY DEF Count, CountPanics
<1>8. QED
  BY <1>1, <1>4, <1>5, <1>6, <1>7, Deregisters

\* A start that succeeds hands its decoder to a supervisor.
LEMMA SettleKeeps ==
    ASSUME RegistryInv, NEW a \in Agents, Settle(a)
    PROVE  RegistryInv'
<1> DEFINE d == agent[a].name
           s == Min(FreeFor(a))
           w == [Idle EXCEPT !.pc = "watch", !.name = d]
<1>1. agent[a] \in AgentRecord /\ agent[a].pc = "settle" /\ d \in Decoders
  BY TypeFacts DEF Settle
<1>2. s \in Supervisors /\ (agent[s] = Idle \/ s = a)
  <2>1. FreeFor(a) # {}
    BY DEF Settle
  <2>2. \A x \in FreeFor(a) : x \in Supervisors /\ (agent[x] = Idle \/ x = a)
    BY DEF FreeFor
  <2>3. FreeFor(a) \subseteq Supervisors
    BY <2>2
  <2>4. Min(FreeFor(a)) \in FreeFor(a)
    BY <2>1, <2>3, SomeIdentity
  <2>5. QED
    BY <2>2, <2>4
<1>3. Leave(a) \in AgentRecord /\ Leave(a).pc \in {"sync", "idle"}
  BY TypeFacts, LeaveOK
<1>4. w \in AgentRecord /\ w.pc = "watch" /\ w.name = d
  BY <1>1 DEF AgentRecord, Stages, Idle
<1>5. s \in Agents
  BY <1>2 DEF Agents
<1>6. /\ agent' = [agent EXCEPT ![a] = Leave(a), ![s] = w]
      /\ recipes' = recipes \cup {d}
      /\ UNCHANGED <<enabled, children, inputs, restarts, process, feeding, failures, requests, history>>
  BY DEF Settle, Watching
<1> HIDE DEF s, w, d
<1>7. /\ agent' \in [Agents -> AgentRecord] /\ agent'[s] = w
      /\ agent'[a] = Leave(a) \/ agent'[a] = w
      /\ \A b \in Agents : b # a /\ b # s => agent'[b] = agent[b]
  BY <1>3, <1>4, <1>5, <1>6, TypeFacts
<1>8. Types'
  BY <1>1, <1>6, <1>7 DEF RegistryInv, Types, TypeOK
<1>9. \A b \in Agents : agent[b].pc \in {"register", "grace"} => b # a /\ b # s
  BY <1>1, <1>2 DEF Idle
<1>10. \A b \in Agents : agent'[b].pc = "register" => b # a /\ b # s
  BY <1>3, <1>4, <1>7
<1>11. Registered' /\ Carried'
  BY <1>6, <1>7, <1>10 DEF RegistryInv, Registered, Carried
<1>12. AllOwned'
  BY <1>6, <1>7, <1>9 DEF RegistryInv, AllOwned, Up, Owned
<1>13. Supervised'
  <2> SUFFICES ASSUME NEW e \in Decoders, children[e] \notin abandoned \cup {None}
               PROVE  \E b \in Agents : Watches(agent'[b], e, children[e])
    <3>1. UNCHANGED <<children, abandoned>>
      BY <1>6
    <3>2. QED
      BY <3>1 DEF Supervised, Watched, Watches
  <2>1. CASE e = d
    BY <1>4, <1>5, <1>7, <2>1 DEF Watches
  <2>2. CASE e # d
    <3>1. PICK b \in Agents : Watches(agent[b], e, children[e])
      BY DEF RegistryInv, Supervised, Watched, Watches
    <3>2. b # a /\ b # s
      BY <1>1, <1>2, <2>2, <3>1 DEF Watches, Idle, d
    <3>3. QED
      BY <1>7, <3>1, <3>2
  <2>3. QED
    BY <2>1, <2>2
<1>14. QED
  BY <1>8, <1>11, <1>12, <1>13 DEF RegistryInv

----------------------------------------------------------------------------
(* Supervision and requests *)

LEMMA WatchEndsKeeps ==
    ASSUME RegistryInv, NEW s \in Agents, WatchEnds(s)
    PROVE  RegistryInv'
<1>1. TypeOK'
  BY DEF WatchEnds, RegistryInv, Types, TypeOK
<1>2. Idle \in AgentRecord /\ Idle.pc # "register"
  BY IdleOK DEF Idle
<1>3. QED
  BY <1>1, <1>2, AgentMoves DEF WatchEnds, Watches

\* A supervisor that has seen its decoder exit stays the one that watches it.
LEMMA WatchMoves ==
    ASSUME RegistryInv, TypeOK', NEW s \in Agents, NEW pc \in {"lost", "count"},
           agent[s].pc \in {"watch", "lost"}, Goto(s, pc),
           UNCHANGED <<children, process, feeding, abandoned>>
    PROVE  RegistryInv'
<1> DEFINE r == [agent[s] EXCEPT !.pc = pc]
<1>1. agent[s] \in AgentRecord
  BY TypeFacts
<1>2. r \in AgentRecord /\ r.pc = pc /\ r.name = agent[s].name
  BY <1>1 DEF AgentRecord, Stages
<1>3. agent' = [agent EXCEPT ![s] = r]
  BY DEF Goto
<1> HIDE DEF r
<1>4. QED
  BY <1>2, <1>3, AgentMoves DEF Watches

LEMMA WatchSeesExitKeeps ==
    ASSUME RegistryInv, NEW s \in Agents, WatchSeesExit(s)
    PROVE  RegistryInv'
<1>1. TypeOK'
  BY DEF WatchSeesExit, RegistryInv, Types, TypeOK
<1>2. QED
  BY <1>1, WatchMoves DEF WatchSeesExit

LEMMA LostKeeps ==
    ASSUME RegistryInv, NEW s \in Agents, Lost(s)
    PROVE  RegistryInv'
<1>1. TypeOK'
  BY DEF Lost, RegistryInv, Types, TypeOK
<1>2. QED
  BY <1>1, WatchMoves DEF Lost

\* A request begins at an agent that owns and watches nothing.
LEMMA BeginKeeps ==
    ASSUME RegistryInv, TypeOK', NEW c \in Agents, Begin(c),
           NEW r \in AgentRecord, r.pc # "register",
           agent' = [agent EXCEPT ![c] = r],
           UNCHANGED <<children, process, feeding, abandoned>>
    PROVE  RegistryInv'
<1>1. agent[c].pc = "idle"
  BY DEF Begin, Idle
<1>2. QED
  BY <1>1, AgentMoves DEF Watches

LEMMA RequestKeeps ==
    ASSUME RegistryInv, NEW c \in Agents, Request(c)
    PROVE  RegistryInv'
<1>1. \A D \in SUBSET Decoders : Todo(D) \subseteq 1..Len(Order)
  BY DEF Todo
<1>2. \A T \in SUBSET (1..Len(Order)) :
        /\ [Idle EXCEPT !.pc = "sync", !.todo = T] \in AgentRecord
        /\ [Idle EXCEPT !.pc = "sync", !.todo = T].pc # "register"
  BY DEF AgentRecord, Stages, Idle
<1>3. enabled \subseteq Decoders /\ requests \in 0..MaxRequests /\ MaxRequests \in Nat
  BY RegistryAssumption DEF RegistryInv, Types, TypeOK
<1>4. CASE \E d \in Decoders : Enable(c, d)
  <2>1. PICK d \in Decoders : Enable(c, d)
    BY <1>4
  <2>2. TypeOK'
    BY <1>3, <2>1 DEF Enable, Begin, RegistryInv, Types, TypeOK
  <2>3. Todo(enabled \cup {d}) \in SUBSET (1..Len(Order))
    BY <1>1, <1>3
  <2>4. QED
    BY <1>2, <2>1, <2>2, <2>3, BeginKeeps DEF Enable
<1>5. CASE \E d \in Decoders : Disable(c, d)
  <2>1. PICK d \in Decoders : Disable(c, d)
    BY <1>5
  <2>2. TypeOK'
    BY <1>3, <2>1 DEF Disable, Begin, RegistryInv, Types, TypeOK
  <2>3. /\ [Idle EXCEPT !.pc = "close", !.name = d] \in AgentRecord
        /\ [Idle EXCEPT !.pc = "close", !.name = d].pc # "register"
    BY DEF AgentRecord, Stages, Idle
  <2>4. QED
    BY <2>1, <2>2, <2>3, BeginKeeps DEF Disable
<1>6. CASE StartAll(c)
  <2>1. TypeOK'
    BY <1>3, <1>6 DEF StartAll, Begin, RegistryInv, Types, TypeOK
  <2>2. Todo(enabled) \in SUBSET (1..Len(Order))
    BY <1>1, <1>3
  <2>3. QED
    BY <1>2, <1>6, <2>1, <2>2, BeginKeeps DEF StartAll
<1>7. CASE StopAll(c)
  <2>1. TypeOK'
    BY <1>3, <1>7 DEF StopAll, Begin, RegistryInv, Types, TypeOK
  <2>2. /\ [Idle EXCEPT !.pc = "close"] \in AgentRecord
        /\ [Idle EXCEPT !.pc = "close"].pc # "register"
    BY DEF AgentRecord, Stages, Idle
  <2>3. QED
    BY <1>7, <2>1, <2>2, BeginKeeps DEF StopAll
<1>8. QED
  BY <1>4, <1>5, <1>6, <1>7 DEF Request

\* The closing of pipes moves the agent on to the kill or the drain.
LEMMA CloseKeeps ==
    ASSUME RegistryInv, NEW c \in Agents, Close(c)
    PROVE  RegistryInv'
<1> DEFINE pc == IF agent[c].name = None THEN "drain" ELSE "kill"
           r == [agent[c] EXCEPT !.pc = pc]
<1>1. agent[c] \in AgentRecord /\ agent[c].pc = "close"
  BY TypeFacts DEF Close
<1>2. r \in AgentRecord /\ r.pc # "register"
  BY <1>1 DEF AgentRecord, Stages
<1>3. TypeOK'
  BY DEF Close, RegistryInv, Types, TypeOK
<1>4. agent' = [agent EXCEPT ![c] = r] /\ UNCHANGED <<children, process, feeding, abandoned>>
  BY DEF Close, Goto
<1> HIDE DEF r
<1>5. QED
  BY <1>1, <1>2, <1>3, <1>4, AgentMoves DEF Watches

\* A client that goes away leaves what it registered, and nothing else, unwatched.
LEMMA CancelKeeps ==
    ASSUME RegistryInv, NEW c \in Agents, Cancel(c)
    PROVE  RegistryInv'
<1>1. agent[c] \in AgentRecord /\ agent[c].pc \in {"close", "pipe", "settle"}
  BY TypeFacts DEF Cancel
<1>2. TypeOK'
  BY <1>1 DEF Cancel, RegistryInv, Types, TypeOK, AgentRecord
<1>3. Idle \in AgentRecord /\ Idle.pc # "register"
  BY IdleOK DEF Idle
<1>4. \A d \in Decoders : Watches(agent[c], d, children[d]) => children[d] \in abandoned' \cup {None}
  BY <1>1 DEF Cancel, Watches
<1>5. QED
  BY <1>1, <1>2, <1>3, <1>4, AgentMoves DEF Cancel

\* A kill takes the process from the registry and owns it until its grace ends.
LEMMA KillKeeps ==
    ASSUME RegistryInv, NEW c \in Agents, Kill(c)
    PROVE  RegistryInv'
<1> DEFINE d == agent[c].name
           grace == [agent[c] EXCEPT !.pc = "grace", !.child = children[d]]
           r == IF children[d] = None THEN Idle ELSE grace
<1>1. agent[c] \in AgentRecord /\ agent[c].pc = "kill" /\ d \in Decoders
  BY TypeFacts DEF Kill
<1>2. children[d] \in Processes \cup {None}
  BY <1>1, TypeFacts
<1>3. /\ agent' = [agent EXCEPT ![c] = r] /\ recipes' = recipes \ {d}
      /\ children' = [children EXCEPT ![d] = None]
      /\ UNCHANGED <<enabled, inputs, restarts, failures, process, feeding, requests, history>>
  BY Zenon DEF Kill
<1>4. r \in AgentRecord /\ r.pc # "register"
  BY <1>1, <1>2, IdleOK DEF AgentRecord, Stages, Idle
<1>5. children[d] # None => r.pc = "grace" /\ r.child = children[d]
  BY <1>1 DEF AgentRecord
<1> HIDE DEF r, d
<1>6. children'[d] = None /\ \A e \in Decoders \ {d} : children'[e] = children[e]
  BY <1>1, <1>3, TypeFacts
<1>7. /\ agent' \in [Agents -> AgentRecord] /\ agent'[c] = r
      /\ \A b \in Agents \ {c} : agent'[b] = agent[b]
  BY <1>3, <1>4, TypeFacts
<1>8. Types'
  BY <1>1, <1>3, <1>7 DEF RegistryInv, Types, TypeOK
<1>9. Registered' /\ Carried'
  BY <1>3, <1>4, <1>6, <1>7 DEF RegistryInv, Registered, Carried
<1>10. AllOwned'
  <2> SUFFICES ASSUME NEW p \in Processes, Up(p)' PROVE Owned(p)'
    BY DEF AllOwned
  <2>1. Owned(p) /\ p # None
    BY <1>3, Apart DEF RegistryInv, AllOwned, Up
  <2>2. CASE children[d] = p
    BY <1>5, <1>7, <2>1, <2>2 DEF Owned
  <2>3. CASE \E e \in Decoders \ {d} : children[e] = p
    BY <1>6, <2>3 DEF Owned
  <2>4. CASE \E b \in Agents : agent[b].child = p /\ agent[b].pc \in {"register", "grace"}
    BY <1>1, <1>7, <2>4 DEF Owned
  <2>5. QED
    BY <2>1, <2>2, <2>3, <2>4 DEF Owned
<1>11. Supervised'
  <2> SUFFICES ASSUME NEW e \in Decoders, children'[e] \notin abandoned \cup {None}
               PROVE  \E b \in Agents : Watches(agent'[b], e, children'[e])
    BY <1>3 DEF Supervised, Watched, Watches
  <2>1. PICK b \in Agents : Watches(agent[b], e, children[e]) /\ children'[e] = children[e]
    BY <1>6 DEF RegistryInv, Supervised, Watched, Watches
  <2>2. b # c
    BY <1>1, <2>1 DEF Watches
  <2>3. QED
    BY <1>7, <2>1, <2>2
<1>12. QED
  BY <1>8, <1>9, <1>10, <1>11 DEF RegistryInv

LEMMA GraceKeeps ==
    ASSUME RegistryInv, NEW c \in Agents, Grace(c)
    PROVE  RegistryInv'
<1> DEFINE ps == {agent[c].child}
<1>1. agent[c].pc = "grace" /\ ~(\E d \in Decoders : Watches(agent[c], d, children[d]))
  BY DEF Grace, Watches
<1>2. TypeOK'
  BY TypeFacts, DropKeeps DEF Grace, RegistryInv, Types, TypeOK, ProcessRecord
<1>3. /\ agent' = [agent EXCEPT ![c] = Idle] /\ feeding' = feeding
      /\ process' = Drop(ps) /\ children' = children /\ abandoned' = abandoned
  BY DEF Grace
<1>4. Idle \in AgentRecord /\ Idle.pc # "register" /\ agent[c].child \in ps
  BY IdleOK DEF Idle
<1> HIDE DEF ps
<1>5. QED
  BY <1>1, <1>2, <1>3, <1>4, AgentDrops

LEMMA DrainKeeps ==
    ASSUME RegistryInv, NEW c \in Agents, Drain(c)
    PROVE  RegistryInv'
<1> DEFINE ps == {children[d] : d \in Decoders}
<1>1. agent[c].pc = "drain"
  BY DEF Drain
<1>2. children' = [d \in Decoders |-> None] /\ process' = Drop(ps)
  BY DEF Drain
<1>3. TypeOK'
  BY <1>2, TypeFacts, DropKeeps DEF Drain, RegistryInv, Types, TypeOK, ProcessRecord
<1>4. /\ agent' = [agent EXCEPT ![c] = Idle] /\ feeding' = feeding /\ abandoned' = abandoned
  BY DEF Drain
<1>5. Idle \in AgentRecord /\ Idle.pc # "register" /\ \A d \in Decoders : children[d] \in ps
  BY IdleOK DEF Idle
<1> HIDE DEF ps
<1>6. \A d \in Decoders : children'[d] = None
  BY <1>2
<1>7. QED
  BY <1>1, <1>2, <1>3, <1>4, <1>5, <1>6, AgentDrops

(* Samples and exits *)

LEMMA FeedKeeps ==
    ASSUME RegistryInv, FeedBegin \/ FeedWrite
    PROVE  RegistryInv'
<1>1. UNCHANGED <<enabled, children, inputs, recipes, restarts, process, agent, requests, history>>
  BY DEF FeedBegin, FeedWrite
<1>2. failures' \subseteq Decoders /\ feeding' \subseteq [name : Decoders, child : Processes]
  <2>1. CASE FeedBegin
    BY <2>1 DEF FeedBegin, RegistryInv, Types, TypeOK
  <2>2. CASE FeedWrite
    <3>1. PICK h \in feeding :
            /\ feeding' = feeding \ {h}
            /\ failures' \in {failures \cup {h.name}} \cup (IF Up(h.child) THEN {failures} ELSE {})
      BY <2>2 DEF FeedWrite
    <3>2. h.name \in Decoders
      BY DEF RegistryInv, Types
    <3>3. failures' = failures \cup {h.name} \/ failures' = failures
      BY <3>1
    <3>4. QED
      BY <3>1, <3>2, <3>3 DEF RegistryInv, Types, TypeOK
  <2>3. QED
    BY <2>1, <2>2
<1>3. Types'
  BY <1>1, <1>2 DEF RegistryInv, Types, TypeOK
<1>4. Registered' /\ Carried' /\ AllOwned' /\ Supervised'
  BY <1>1 DEF RegistryInv, Registered, Carried, AllOwned, Up, Owned, Supervised, Watched
<1>5. QED
  BY <1>3, <1>4 DEF RegistryInv

LEMMA ExitKeeps ==
    ASSUME RegistryInv, NEW p \in Processes, Exit(p)
    PROVE  RegistryInv'
<1>1. process[p] \in ProcessRecord /\ process' = [process EXCEPT ![p].life = "exited"]
  BY TypeFacts DEF Exit
<1>2. /\ process' \in [Processes -> ProcessRecord]
      /\ \A q \in Processes : process'[q].of = process[q].of
      /\ \A q \in Processes : process'[q].life = "up" => process[q].life = "up"
  BY <1>1, TypeFacts DEF ProcessRecord, Lives
<1>3. UNCHANGED <<enabled, children, inputs, recipes, restarts, failures, agent, feeding, requests, history>>
  BY DEF Exit
<1>4. Types'
  BY <1>2, <1>3 DEF RegistryInv, Types, TypeOK, ProcessRecord
<1>5. Registered' /\ Carried'
  <2>1. \A a \in Agents : agent[a].pc = "register" => agent[a].child \in Processes
    BY TypeFacts DEF AgentRecord
  <2>2. QED
    BY <1>2, <1>3, <2>1, TypeFacts DEF RegistryInv, Registered, Carried
<1>6. AllOwned' /\ Supervised'
  BY <1>2, <1>3 DEF RegistryInv, AllOwned, Up, Owned, Supervised, Watched
<1>7. QED
  BY <1>4, <1>5, <1>6 DEF RegistryInv

----------------------------------------------------------------------------

LEMMA RegistryInit == Init => RegistryInv
<1> SUFFICES ASSUME Init PROVE RegistryInv
  OBVIOUS
<1>1. /\ agent = [a \in Agents |-> Idle] /\ children = [d \in Decoders |-> None]
      /\ inputs = [d \in Decoders |-> None] /\ process = [p \in Processes |-> Unborn]
      /\ feeding = {} /\ enabled \subseteq Decoders /\ recipes = {} /\ failures = {}
      /\ restarts = [d \in Decoders |-> 0] /\ requests = 0
      /\ wraps = [d \in Decoders |-> 0] /\ abandoned = {}
  BY DEF Init
<1>2. MaxRequests \in Nat /\ CountLimit \in Nat \ {0}
  BY RegistryAssumption
<1>3. Types
  BY <1>1, <1>2, IdleOK DEF Types, TypeOK, Unborn, Lives
<1>4. Registered /\ Supervised
  BY <1>1 DEF Registered, Supervised
<1>5. Carried /\ AllOwned
  BY <1>1 DEF Carried, AllOwned, Up, Idle, Unborn
<1>6. QED
  BY <1>3, <1>4, <1>5 DEF RegistryInv

LEMMA SpawningKeeps ==
    ASSUME RegistryInv, NEW a \in Agents, Spawning(a)
    PROVE  RegistryInv'
  BY ExecKeeps, ExecFailsKeeps, RegisterKeeps, PipeKeeps, SettleFailedKeeps, UndoKeeps,
     SettleKeeps DEF Spawning

LEMMA RegistryStep == RegistryInv /\ [Next]_vars => RegistryInv'
<1> SUFFICES ASSUME RegistryInv, [Next]_vars PROVE RegistryInv'
  OBVIOUS
<1>1. ASSUME NEW c \in Clients, Request(c) \/ Handler(c) \/ Cancel(c) PROVE RegistryInv'
  <2>1. c \in Agents
    BY DEF Agents
  <2>2. QED
    BY <1>1, <2>1, RequestKeeps, PickKeeps, SpawningKeeps, CloseKeeps, KillKeeps, GraceKeeps,
       DrainKeeps, CancelKeeps
    DEF Handler
<1>2. ASSUME NEW s \in Supervisors, Supervisor(s) PROVE RegistryInv'
  <2>1. s \in Agents
    BY DEF Agents
  <2>2. QED
    BY <1>2, <2>1, WatchEndsKeeps, WatchSeesExitKeeps, LostKeeps, CountKeeps, SpawningKeeps
    DEF Supervisor
<1>3. ASSUME NEW p \in Processes, Exit(p) PROVE RegistryInv'
  BY <1>3, ExitKeeps
<1>4. CASE UNCHANGED vars
  BY <1>4 DEF vars, RegistryInv, Types, TypeOK, Registered, Carried, AllOwned, Up, Owned,
              Supervised, Watched
<1>5. QED
  BY <1>1, <1>2, <1>3, <1>4, FeedKeeps DEF Next

LEMMA RegistryInvariant == Spec => []RegistryInv
  BY RegistryInit, RegistryStep, PTL DEF Spec

\* However starts, restarts, kills, stops and failures of any number of decoders
\* overlap, every process that runs is owned by the registry, by a start that is
\* about to register it or by a kill that waits for it, and is registered under
\* no name but its own.
THEOREM NothingRunsUnowned == Spec => []NoStrayProcess
<1>1. RegistryInv => NoStrayProcess
  BY Apart DEF RegistryInv, AllOwned, Registered, NoStrayProcess
<1>2. QED
  BY <1>1, RegistryInvariant, PTL

\* A decoder in the registry always has an agent that will look at its process:
\* a supervisor, or the start of this very process, which has still to settle.
\* It has none only if the client of that start went away.
THEOREM RegisteredIsWatched == Spec => []Supervised
<1>1. RegistryInv => Supervised
  BY DEF RegistryInv
<1>2. QED
  BY <1>1, RegistryInvariant, PTL

----------------------------------------------------------------------------
(* The budget of automatic restarts.  A restart under way has been counted, so *)
(* the processes restarted and the restarts under way, together the restarts  *)
(* granted, are within what the count and its wraps amount to, and within what *)
(* the limit and the wraps allow.                                             *)

Restarted(d) == {p \in Processes : process[p].of = d /\ process[p].by = "restart"}
Restarting(d) == {s \in Supervisors : agent[s].pc = "exec" /\ agent[s].name = d}
Granted(d) == Cardinality(Restarted(d)) + Cardinality(Restarting(d))
Budget ==
    \A d \in Decoders :
        /\ Granted(d) <= restarts[d] + (MaxRestarts + 1) * wraps[d]
        /\ Granted(d) <= MaxRestarts + (MaxRestarts + 1) * wraps[d]

\* Counts are natural numbers.
LEMMA CountFacts ==
    ASSUME Types
    PROVE  /\ MaxRestarts \in Nat /\ CountLimit \in Nat \ {0}
           /\ restarts \in [Decoders -> 0..CountLimit - 1] /\ wraps \in [Decoders -> Nat]
           /\ \A d \in Decoders : restarts[d] \in Nat /\ (MaxRestarts + 1) * wraps[d] \in Nat
<1>1. MaxRestarts \in Nat /\ CountLimit \in Nat \ {0}
  BY RegistryAssumption
<1>2. restarts \in [Decoders -> 0..CountLimit - 1] /\ wraps \in [Decoders -> Nat]
  BY DEF Types, TypeOK
<1>3. ASSUME NEW d \in Decoders PROVE restarts[d] \in Nat /\ (MaxRestarts + 1) * wraps[d] \in Nat
  <2>1. restarts[d] \in Nat /\ wraps[d] \in Nat
    BY <1>1, <1>2
  <2>2. \A m, n \in Nat : (m + 1) * n \in Nat
    OBVIOUS
  <2>3. QED
    BY <1>1, <2>1, <2>2
<1>4. QED
  BY <1>1, <1>2, <1>3

LEMMA BudgetFinite ==
    /\ \A S \in SUBSET Processes : IsFiniteSet(S) /\ Cardinality(S) \in Nat
    /\ \A S \in SUBSET Supervisors : IsFiniteSet(S) /\ Cardinality(S) \in Nat
<1>1. 1 \in Int /\ MaxProcesses \in Int /\ MaxSupervisors \in Int
  BY RegistryAssumption
<1>2. IsFiniteSet(Processes) /\ IsFiniteSet(Supervisors)
  BY <1>1, FS_Interval DEF Processes, Supervisors
<1>3. QED
  BY <1>2, FS_Subset, FS_CardinalityType

\* Steps that restart nothing, and at which no restart begins.
LEMMA BudgetKept ==
    ASSUME RegistryInv, Budget, restarts' = restarts, wraps' = wraps,
           \A p \in Processes : process'[p].of = process[p].of /\ process'[p].by = process[p].by,
           \A s \in Supervisors : agent'[s].pc = "exec" => agent'[s] = agent[s]
    PROVE  Budget'
<1> SUFFICES ASSUME NEW d \in Decoders
             PROVE  /\ Granted(d)' <= restarts'[d] + (MaxRestarts + 1) * wraps'[d]
                    /\ Granted(d)' <= MaxRestarts + (MaxRestarts + 1) * wraps'[d]
  BY DEF Budget
<1>1. Restarted(d)' = Restarted(d)
  BY DEF Restarted
<1>2. Restarting(d)' \subseteq Restarting(d) /\ Restarting(d) \subseteq Supervisors
  BY DEF Restarting
<1>3. Cardinality(Restarting(d)') <= Cardinality(Restarting(d))
  BY <1>2, BudgetFinite, FS_Subset
<1>4. /\ Cardinality(Restarted(d)) \in Nat /\ Cardinality(Restarting(d)) \in Nat
      /\ Cardinality(Restarting(d)') \in Nat
  <2>1. Restarted(d) \subseteq Processes /\ Restarting(d)' \subseteq Supervisors
    BY <1>2 DEF Restarted
  <2>2. QED
    BY <1>2, <2>1, BudgetFinite
<1>5. /\ Granted(d) <= restarts[d] + (MaxRestarts + 1) * wraps[d]
      /\ Granted(d) <= MaxRestarts + (MaxRestarts + 1) * wraps[d]
  BY DEF Budget
<1>6. /\ restarts[d] \in Nat /\ (MaxRestarts + 1) * wraps[d] \in Nat /\ MaxRestarts \in Nat
      /\ restarts'[d] = restarts[d] /\ wraps'[d] = wraps[d]
  BY CountFacts DEF RegistryInv
<1>7. Granted(d)' <= Granted(d) /\ Granted(d) \in Nat /\ Granted(d)' \in Nat
  BY <1>1, <1>3, <1>4 DEF Granted
<1>8. QED
  BY <1>5, <1>6, <1>7

(* The two steps the budget is about *)

\* The process of a restart takes the place of the restart under way; the one of
\* a request is not counted.
LEMMA ExecBudget ==
    ASSUME RegistryInv, Budget, NEW a \in Agents, Exec(a)
    PROVE  Budget'
<1> DEFINE p == Min({q \in Processes : process[q] = Unborn})
           e == agent[a].name
           new == [life |-> "up", of |-> e, by |-> IF a \in Clients THEN "start" ELSE "restart"]
           r == [agent[a] EXCEPT !.pc = "register", !.child = p]
<1>1. p \in Processes /\ process[p] = Unborn
  BY SomeIdentity DEF Exec
<1>2. agent[a] \in AgentRecord /\ agent[a].pc = "exec" /\ e \in Decoders
  BY TypeFacts DEF Exec
<1>3. process' = [process EXCEPT ![p] = new] /\ agent' = [agent EXCEPT ![a] = r]
  BY DEF Exec
<1>4. r.pc = "register"
  BY <1>1, <1>2 DEF AgentRecord
<1>5. new.of = e /\ (a \in Clients => new.by = "start") /\ (a \notin Clients => new.by = "restart")
  OBVIOUS
<1> HIDE DEF p, new, r, e
<1>6. /\ process'[p] = new /\ \A q \in Processes \ {p} : process'[q] = process[q]
      /\ agent'[a] = r /\ \A b \in Agents \ {a} : agent'[b] = agent[b]
      /\ restarts' = restarts /\ wraps' = wraps
  BY <1>1, <1>3, TypeFacts DEF Exec
<1>7. \A d \in Decoders : p \notin Restarted(d)
  BY <1>1 DEF Restarted, Unborn
<1> SUFFICES ASSUME NEW d \in Decoders
             PROVE  /\ Granted(d)' <= restarts'[d] + (MaxRestarts + 1) * wraps'[d]
                    /\ Granted(d)' <= MaxRestarts + (MaxRestarts + 1) * wraps'[d]
  BY DEF Budget
<1>8. /\ Restarted(d) \subseteq Processes /\ Restarting(d) \subseteq Supervisors
      /\ Granted(d) <= restarts[d] + (MaxRestarts + 1) * wraps[d]
      /\ Granted(d) <= MaxRestarts + (MaxRestarts + 1) * wraps[d]
  BY DEF Budget, Restarted, Restarting
<1>9. /\ IsFiniteSet(Restarted(d)) /\ IsFiniteSet(Restarting(d))
      /\ Cardinality(Restarted(d)) \in Nat /\ Cardinality(Restarting(d)) \in Nat
  BY <1>8, BudgetFinite
<1>10. CASE a \notin Clients /\ d = e
  <2>1. a \in Restarting(d)
    BY <1>2, <1>10 DEF Restarting, Agents, e
  <2>2. Restarted(d)' = Restarted(d) \cup {p}
    BY <1>1, <1>5, <1>6, <1>10 DEF Restarted
  <2>3. Restarting(d)' = Restarting(d) \ {a}
    BY <1>4, <1>6, Apart DEF Restarting
  <2>4. Cardinality(Restarted(d)') = Cardinality(Restarted(d)) + 1
    BY <1>7, <1>9, <2>2, FS_AddElement
  <2>5. Cardinality(Restarting(d)') = Cardinality(Restarting(d)) - 1
    BY <1>9, <2>1, <2>3, FS_RemoveElement
  <2>6. Granted(d)' = Granted(d)
    BY <1>9, <2>4, <2>5 DEF Granted
  <2>7. QED
    BY <1>6, <1>8, <2>6
<1>11. CASE ~(a \notin Clients /\ d = e)
  <2>1. Restarted(d)' = Restarted(d)
    BY <1>1, <1>5, <1>6, <1>7, <1>11 DEF Restarted
  <2>2. Restarting(d)' = Restarting(d)
    BY <1>2, <1>4, <1>6, <1>11, Apart DEF Restarting, e
  <2>3. QED
    BY <1>6, <1>8, <2>1, <2>2 DEF Granted
<1>12. QED
  BY <1>10, <1>11

\* A restart begins only when the new count is within the limit; a count that
\* wraps begins one too, and allows MaxRestarts more before it reaches the limit.
LEMMA CountBudget ==
    ASSUME RegistryInv, Budget, NEW a \in Supervisors, Count(a)
    PROVE  Budget'
<1> DEFINE e == agent[a].name
           attempt == (restarts[e] + 1) % CountLimit
           again == [agent[a] EXCEPT !.pc = "exec"]
<1>1. a \in Agents /\ agent[a] \in AgentRecord /\ agent[a].pc = "count" /\ e \in Decoders
  BY Apart, TypeFacts DEF Count
<1>2. /\ restarts \in [Decoders -> 0..CountLimit - 1] /\ wraps \in [Decoders -> Nat]
      /\ MaxRestarts \in Nat /\ CountLimit \in Nat \ {0}
  BY CountFacts DEF RegistryInv
<1>3. /\ restarts'[e] = attempt /\ \A d \in Decoders \ {e} : restarts'[d] = restarts[d]
      /\ wraps'[e] = (IF attempt = 0 THEN wraps[e] + 1 ELSE wraps[e])
      /\ \A d \in Decoders \ {e} : wraps'[d] = wraps[d]
  BY <1>1, <1>2 DEF Count
<1>4. attempt = 0 \/ attempt = restarts[e] + 1
  <2>1. restarts[e] \in 0..CountLimit - 1
    BY <1>1, <1>2
  <2>2. CASE restarts[e] + 1 = CountLimit
    BY <1>2, <2>2
  <2>3. CASE restarts[e] + 1 # CountLimit
    BY <1>2, <2>1, <2>3
  <2>4. QED
    BY <2>2, <2>3
<1>5. agent'[a] = Idle \/ (attempt <= MaxRestarts /\ agent'[a] = again)
  <2>1. CASE attempt > MaxRestarts
    BY <1>1, <2>1, TypeFacts DEF Count
  <2>2. CASE ~(attempt > MaxRestarts)
    <3>1. agent' = [agent EXCEPT ![a] = Idle] \/ agent' = [agent EXCEPT ![a] = again]
      BY <1>1, <2>2, TypeFacts DEF Count
    <3>2. attempt <= MaxRestarts
      BY <1>1, <1>2, <1>4, <2>2
    <3>3. QED
      BY <1>1, <3>1, <3>2, TypeFacts
  <2>3. QED
    BY <2>1, <2>2
<1>6. \A b \in Agents \ {a} : agent'[b] = agent[b]
  BY TypeFacts DEF Count
<1>7. \A p \in Processes : process'[p].of = process[p].of /\ process'[p].by = process[p].by
  BY TypeFacts, DropKeeps DEF Count, ProcessRecord
<1>8. again.pc = "exec" /\ again.name = e
  BY <1>1 DEF AgentRecord
<1> HIDE DEF e, attempt, again
<1> SUFFICES ASSUME NEW d \in Decoders
             PROVE  /\ Granted(d)' <= restarts'[d] + (MaxRestarts + 1) * wraps'[d]
                    /\ Granted(d)' <= MaxRestarts + (MaxRestarts + 1) * wraps'[d]
  BY DEF Budget
<1>9. /\ Restarted(d) \subseteq Processes /\ Restarting(d) \subseteq Supervisors
      /\ Granted(d) <= restarts[d] + (MaxRestarts + 1) * wraps[d]
      /\ Granted(d) <= MaxRestarts + (MaxRestarts + 1) * wraps[d]
  BY DEF Budget, Restarted, Restarting
<1>10. /\ IsFiniteSet(Restarting(d)) /\ restarts[d] \in Nat /\ wraps[d] \in Nat
       /\ Cardinality(Restarted(d)) \in Nat /\ Cardinality(Restarting(d)) \in Nat
  BY <1>2, <1>9, BudgetFinite
<1>11. Restarted(d)' = Restarted(d)
  BY <1>7 DEF Restarted
<1>12. a \notin Restarting(d)
  BY <1>1 DEF Restarting
<1>13. (MaxRestarts + 1) * (wraps[d] + 1) = (MaxRestarts + 1) * wraps[d] + MaxRestarts + 1
  <2>1. \A m, n \in Nat : (m + 1) * (n + 1) = (m + 1) * n + m + 1
    OBVIOUS
  <2>2. QED
    BY <1>2, <1>10, <2>1
<1>14. (MaxRestarts + 1) * wraps[d] \in Nat
  BY CountFacts DEF RegistryInv
<1>15. CASE d = e /\ attempt <= MaxRestarts /\ agent'[a] = again
  <2>1. Restarting(d)' = Restarting(d) \cup {a}
    BY <1>6, <1>8, <1>15, Apart DEF Restarting
  <2>2. Cardinality(Restarting(d)') = Cardinality(Restarting(d)) + 1
    BY <1>10, <1>12, <2>1, FS_AddElement
  <2>3. Granted(d)' = Granted(d) + 1 /\ Granted(d) \in Nat
    BY <1>10, <1>11, <2>2 DEF Granted
  <2>4. CASE attempt = 0
    <3>1. /\ restarts'[d] = 0
          /\ (MaxRestarts + 1) * wraps'[d] = (MaxRestarts + 1) * wraps[d] + MaxRestarts + 1
      BY <1>3, <1>13, <1>15, <2>4
    <3>2. QED
      BY <1>2, <1>9, <1>14, <2>3, <3>1
  <2>5. CASE attempt # 0
    <3>1. restarts'[d] = restarts[d] + 1 /\ wraps'[d] = wraps[d] /\ restarts[d] + 1 <= MaxRestarts
      BY <1>3, <1>4, <1>15, <2>5
    <3>2. QED
      BY <1>2, <1>9, <1>10, <1>14, <2>3, <3>1
  <2>6. QED
    BY <2>4, <2>5
<1>16. CASE d # e \/ agent'[a] = Idle
  <2>1. Restarting(d)' = Restarting(d)
    <3>1. ~(agent'[a].pc = "exec" /\ agent'[a].name = d)
      BY <1>5, <1>8, <1>16 DEF Idle
    <3>2. QED
      BY <1>6, <1>12, <3>1, Apart DEF Restarting
  <2>2. Granted(d)' = Granted(d) /\ Granted(d) \in Nat
    BY <1>10, <1>11, <2>1 DEF Granted
  <2>3. CASE d # e \/ attempt # 0
    <3>1. restarts[d] <= restarts'[d] /\ restarts'[d] \in Nat /\ wraps'[d] = wraps[d]
      BY <1>1, <1>3, <1>4, <1>10, <2>3
    <3>2. QED
      BY <1>2, <1>9, <1>10, <1>14, <2>2, <3>1
  <2>4. CASE d = e /\ attempt = 0
    <3>1. /\ restarts'[d] = 0
          /\ (MaxRestarts + 1) * wraps'[d] = (MaxRestarts + 1) * wraps[d] + MaxRestarts + 1
      BY <1>3, <1>13, <2>4
    <3>2. QED
      BY <1>2, <1>9, <1>14, <2>2, <3>1
  <2>5. QED
    BY <2>3, <2>4
<1>17. QED
  BY <1>5, <1>15, <1>16

\* Only a count lets a supervisor spawn again, and only a spawn makes a process.
LEMMA OthersKeepBudget ==
    ASSUME RegistryInv, Budget, NEW a \in Agents,
           \/ Request(a) \/ (Pick(a) /\ a \in Clients)
           \/ ExecFails(a) \/ Register(a) \/ Pipe(a) \/ SettleFailed(a) \/ Undo(a) \/ Settle(a)
           \/ Close(a) \/ Kill(a) \/ Grace(a) \/ Drain(a) \/ Cancel(a)
           \/ WatchEnds(a) \/ WatchSeesExit(a) \/ Lost(a) \/ CountPanics(a)
    PROVE  Budget'
<1>1. restarts' = restarts /\ wraps' = wraps
  BY DEF Request, Enable, Disable, StartAll, StopAll, Pick, ExecFails, Register, Pipe,
         SettleFailed, Undo, Settle, Close, Kill, Grace, Drain, Cancel, WatchEnds, WatchSeesExit,
         Lost, CountPanics
<1>2. process' = process \/ \E ps : process' = Drop(ps)
  BY DEF Request, Enable, Disable, StartAll, StopAll, Pick, ExecFails, Register, Pipe,
         SettleFailed, Undo, Settle, Close, Kill, Grace, Drain, Cancel, WatchEnds, WatchSeesExit,
         Lost, CountPanics
<1>3. \A p \in Processes : process'[p].of = process[p].of /\ process'[p].by = process[p].by
  BY <1>2, TypeFacts, DropKeeps DEF ProcessRecord
<1>4. \A s \in Supervisors : agent'[s].pc = "exec" => agent'[s] = agent[s]
  <2> SUFFICES ASSUME NEW s \in Supervisors, agent'[s].pc = "exec", agent'[s] # agent[s]
               PROVE  FALSE
    OBVIOUS
  <2>1. agent \in [Agents -> AgentRecord] /\ agent[a] \in AgentRecord /\ s \in Agents /\ s \notin Clients
    BY Apart, TypeFacts
  <2>2. CASE Request(a)
    BY <2>1, <2>2 DEF Request, Enable, Disable, StartAll, StopAll, Idle
  <2>3. CASE Pick(a) /\ a \in Clients
    BY <2>1, <2>3, Zenon DEF Pick
  <2>4. CASE ExecFails(a) \/ Undo(a)
    <3>1. Leave(a).pc # "exec"
      BY TypeFacts, LeaveOK
    <3>2. QED
      BY <2>1, <2>4, <3>1 DEF ExecFails, Undo
  <2>5. CASE Register(a) \/ Pipe(a) \/ SettleFailed(a) \/ WatchSeesExit(a) \/ Lost(a)
    BY <2>1, <2>5 DEF Register, Pipe, SettleFailed, WatchSeesExit, Lost, Goto, AgentRecord
  <2>6. CASE Settle(a)
    <3> DEFINE w == [Idle EXCEPT !.pc = "watch", !.name = agent[a].name]
               m == Min(FreeFor(a))
    <3>1. Leave(a).pc # "exec" /\ w.pc # "exec"
      BY TypeFacts, LeaveOK DEF Idle
    <3>2. agent' = [agent EXCEPT ![a] = Leave(a), ![m] = w]
      BY <2>6 DEF Settle, Watching
    <3> HIDE DEF w, m
    <3>3. QED
      BY <2>1, <3>1, <3>2
  <2>7. CASE Kill(a)
    <3>1. agent'[a].pc \in {"idle", "grace"} /\ \A b \in Agents \ {a} : agent'[b] = agent[b]
      BY <2>1, <2>7 DEF Kill, Idle, AgentRecord
    <3>2. QED
      BY <2>1, <3>1
  <2>8. CASE Close(a) \/ Grace(a) \/ Drain(a) \/ Cancel(a) \/ WatchEnds(a) \/ CountPanics(a)
    BY <2>1, <2>8 DEF Close, Goto, Grace, Drain, Cancel, WatchEnds, CountPanics, Idle, AgentRecord
  <2>9. QED
    BY <2>2, <2>3, <2>4, <2>5, <2>6, <2>7, <2>8
<1>5. QED
  BY <1>1, <1>3, <1>4, BudgetKept

LEMMA BudgetInit == Init => Budget
<1> SUFFICES ASSUME Init, NEW d \in Decoders
             PROVE  /\ Granted(d) <= restarts[d] + (MaxRestarts + 1) * wraps[d]
                    /\ Granted(d) <= MaxRestarts + (MaxRestarts + 1) * wraps[d]
  BY DEF Budget
<1>1. Restarted(d) = {} /\ Restarting(d) = {} /\ restarts[d] = 0 /\ wraps[d] = 0
  BY Apart DEF Init, Restarted, Restarting, Unborn, Idle
<1>2. Cardinality({}) = 0
  BY FS_EmptySet
<1>3. QED
  BY <1>1, <1>2, RegistryAssumption DEF Granted

LEMMA BudgetStep == RegistryInv /\ Budget /\ [Next]_vars => Budget'
<1> SUFFICES ASSUME RegistryInv, Budget, [Next]_vars PROVE Budget'
  OBVIOUS
<1>1. ASSUME NEW c \in Clients, Request(c) \/ Handler(c) \/ Cancel(c) PROVE Budget'
  <2>1. c \in Agents
    BY DEF Agents
  <2>2. QED
    BY <1>1, <2>1, OthersKeepBudget, ExecBudget DEF Handler, Spawning
<1>2. ASSUME NEW s \in Supervisors, Supervisor(s) PROVE Budget'
  <2>1. s \in Agents
    BY DEF Agents
  <2>2. QED
    BY <1>2, <2>1, OthersKeepBudget, ExecBudget, CountBudget DEF Supervisor, Spawning
<1>3. CASE FeedBegin \/ FeedWrite
  BY <1>3, BudgetKept DEF FeedBegin, FeedWrite
<1>4. ASSUME NEW p \in Processes, Exit(p) PROVE Budget'
  <2>1. \A q \in Processes : process'[q].of = process[q].of /\ process'[q].by = process[q].by
    BY <1>4, TypeFacts DEF Exit, ProcessRecord
  <2>2. QED
    BY <1>4, <2>1, BudgetKept DEF Exit
<1>5. CASE UNCHANGED vars
  BY <1>5, BudgetKept DEF vars
<1>6. QED
  BY <1>1, <1>2, <1>3, <1>4, <1>5 DEF Next

\* A decoder that keeps exiting is restarted at most MaxRestarts times, whatever
\* requests come between and however many supervisors it has by then, until its
\* count of exits wraps; each wrap grants MaxRestarts + 1 restarts more.
THEOREM RestartsKeepBudget == Spec => []RestartsBounded
<1>1. RegistryInv /\ Budget => RestartsBounded
  <2> SUFFICES ASSUME RegistryInv, Budget, NEW d \in Decoders
               PROVE  Cardinality(Restarted(d)) <= MaxRestarts + (MaxRestarts + 1) * wraps[d]
    BY DEF RestartsBounded, Restarted
  <2>1. Cardinality(Restarted(d)) \in Nat /\ Cardinality(Restarting(d)) \in Nat
    <3>1. Restarted(d) \subseteq Processes /\ Restarting(d) \subseteq Supervisors
      BY DEF Restarted, Restarting
    <3>2. QED
      BY <3>1, BudgetFinite
  <2>2. QED
    BY <2>1, CountFacts DEF Budget, Granted, RegistryInv
<1>2. Spec => []Budget
  BY RegistryInvariant, BudgetInit, BudgetStep, PTL DEF Spec
<1>3. QED
  BY <1>1, <1>2, RegistryInvariant, PTL

=============================================================================
