---------------------------- MODULE CommandLedger ----------------------------
(***************************************************************************)
(* The idempotent, revisioned commands of the v2 API: POST /sessions,      *)
(* /receivers/:id/tune and /devices/:id/select.  A client reads the lease, *)
(* sends a command with an id of its own and the revision it saw, and      *)
(* sends the same command again when the answer is lost; several copies of *)
(* it can be handled at the same time.  AppState.command_results maps the  *)
(* ids of successful commands to their answers.  It is a HashMap, so the   *)
(* entry that makes room for a new one is an arbitrary one.                *)
(*                                                                         *)
(* The lease and the ledger have a mutex each, taken one after the other:  *)
(* one action is one critical section or one device call of a handler.     *)
(***************************************************************************)
EXTENDS ReceiverSession, FiniteSets

CONSTANTS
    Handlers,  \* requests being handled at the same time
    Ids,       \* command ids
    Capacity,  \* entries the ledger keeps (1024)
    Attempts,  \* how often a command is sent at most
    Kinds,     \* the commands that are sent
    Patient    \* those of Kinds of which a client has one copy under way at a time

ASSUME LedgerAssumption ==
    /\ "scanner" \in Owners
    /\ Capacity \in Nat \ {0}
    /\ Attempts \in Nat
    /\ Kinds \subseteq {"claim", "release", "tune", "select"}
    /\ Patient \subseteq Kinds
    /\ IsFiniteSet(Ids)

VARIABLES
    command,  \* [Ids -> the command sent under the id]
    sent,     \* [Ids -> how often it was sent]
    ledger,   \* [a subset of Ids -> the remembered answer]
    pc,       \* [Handlers -> where the handler is]
    at,       \* [Handlers -> the id of the command it handles]
    answer,   \* [Handlers -> the answer it is about to remember]
    effects,  \* history: [Ids -> how often the command changed something]
    replies   \* history: [Ids -> the successful answers the client got]

requestVars == <<command, sent>>
handlerVars == <<pc, at, answer>>
historyVars == <<effects, replies>>
vars == <<sessionVars, requestVars, ledger, handlerVars, historyVars>>

Answers == [owner : Owners \cup {NoOwner}, revision : 0 .. MaxCount]
NoAnswer == [owner |-> NoOwner, revision |-> 0]

(* seen is not sent: it is the owner the client read with the revision. *)
Requests ==
    [kind : Kinds, name : Owners, force : BOOLEAN, expected : 0 .. MaxCount,
     seen : Owners \cup {NoOwner}]
Unsent == [kind |-> "none", name |-> "scanner", force |-> FALSE, expected |-> 0,
           seen |-> NoOwner]

SessionCommand(i) == command[i] # Unsent /\ command[i].kind \in {"claim", "release"}
DeviceCommand(i) == command[i] # Unsent /\ command[i].kind \in {"tune", "select"}

TypeOK ==
    /\ SessionTypeOK
    /\ command \in [Ids -> Requests \cup {Unsent}]
    /\ sent \in [Ids -> 0 .. Attempts]
    /\ DOMAIN ledger \subseteq Ids
    /\ \A i \in DOMAIN ledger : ledger[i] \in Answers
    /\ pc \in [Handlers -> {"idle", "lookup", "session", "revision", "lease",
                            "device", "remember"}]
    /\ at \in [Handlers -> Ids]
    /\ \A h \in Handlers : pc[h] # "idle" => command[at[h]] # Unsent
    /\ answer \in [Handlers -> Answers]
    /\ effects \in [Ids -> Nat]
    /\ replies \in [Ids -> SUBSET Answers]

Init ==
    /\ SessionInit
    /\ command = [i \in Ids |-> Unsent]
    /\ sent = [i \in Ids |-> 0]
    /\ ledger = [i \in {} |-> NoAnswer]
    /\ pc = [h \in Handlers |-> "idle"]
    /\ at \in [Handlers -> Ids]
    /\ answer = [h \in Handlers |-> NoAnswer]
    /\ effects = [i \in Ids |-> 0]
    /\ replies = [i \in Ids |-> {}]

-----------------------------------------------------------------------------
(* Clients *)

(* A client reads the session and makes up its mind; a device command has   *)
(* neither a name nor force.                                                *)
Compose(i) ==
    /\ command[i] = Unsent
    /\ \E k \in Kinds, n \in Owners, f \in BOOLEAN :
         /\ k \in {"tune", "select"} => n = "scanner"
         /\ k # "claim" => ~f  \* only a claim has force
         /\ command' = [command EXCEPT ![i] =
             [kind |-> k, name |-> n, force |-> f, expected |-> revision, seen |-> owner]]
    /\ UNCHANGED <<sessionVars, sent, ledger, handlerVars, historyVars>>

(* The first time and every retry: the same id, the same expected revision. *)
Send(h, i) ==
    /\ pc[h] = "idle"
    /\ command[i] # Unsent
    /\ sent[i] < Attempts
    /\ command[i].kind \in Patient => \A g \in Handlers : pc[g] # "idle" => at[g] # i
    /\ sent' = [sent EXCEPT ![i] = @ + 1]
    /\ pc' = [pc EXCEPT ![h] = "lookup"]
    /\ at' = [at EXCEPT ![h] = i]
    /\ UNCHANGED <<sessionVars, command, ledger, answer, historyVars>>

-----------------------------------------------------------------------------
(* Handlers *)

Step(h, from, to) == pc[h] = from /\ pc' = [pc EXCEPT ![h] = to]

Reply(i, a) == replies' = [replies EXCEPT ![i] = @ \cup {a}]

(* Faulty variant: the remembered answer is not looked for. *)
LookupNothing(h) ==
    /\ Step(h, "lookup", IF SessionCommand(at[h]) THEN "session" ELSE "revision")
    /\ UNCHANGED <<sessionVars, requestVars, ledger, at, answer, historyVars>>

(* cached_command: a remembered command is answered and not applied. *)
Lookup(h) ==
    LET i == at[h] IN
    /\ \/ /\ i \in DOMAIN ledger
          /\ Step(h, "lookup", "idle")
          /\ Reply(i, ledger[i])
       \/ /\ i \notin DOMAIN ledger
          /\ Step(h, "lookup", IF SessionCommand(i) THEN "session" ELSE "revision")
          /\ UNCHANGED replies
    /\ UNCHANGED <<sessionVars, requestVars, ledger, at, answer, effects>>

(* What a session command does to the lease once its revision is right. *)
Applied(r) ==
    \/ r.kind = "claim" /\ Claim(r.name, r.force)
    \/ r.kind = "release" /\ Release(r.name)

Changed(i) == effects' = [effects EXCEPT ![i] = IF revision' = revision THEN @ ELSE @ + 1]

(* Faulty variant: the revision the client saw is not compared. *)
SessionApplyAnyRevision(h) ==
    LET i == at[h] IN
    /\ Step(h, "session", "remember")
    /\ Applied(command[i])
    /\ Changed(i)
    /\ answer' = [answer EXCEPT ![h] = [owner |-> owner', revision |-> revision']]
    /\ UNCHANGED <<requestVars, ledger, at, replies>>

(* session_command_v2 compares, applies and answers under one lock. *)
SessionApply(h) ==
    LET i == at[h] IN
    \/ /\ Step(h, "session", "remember")
       /\ command[i].expected = revision
       /\ Applied(command[i])
       /\ Changed(i)
       /\ answer' = [answer EXCEPT ![h] = [owner |-> owner', revision |-> revision']]
       /\ UNCHANGED <<requestVars, ledger, at, replies>>
    \/ /\ Step(h, "session", "idle")
       /\ \/ command[i].expected # revision
          \/ command[i].kind = "claim" /\ ~Grants(command[i].name, command[i].force)
       /\ UNCHANGED <<sessionVars, requestVars, ledger, at, answer, historyVars>>

(* A device command compares the revision, then looks at the lease, then    *)
(* calls the device, each in its own critical section.                      *)
RevisionCheck(h) ==
    /\ Step(h, "revision", IF command[at[h]].expected = revision THEN "lease" ELSE "idle")
    /\ UNCHANGED <<sessionVars, requestVars, ledger, at, answer, historyVars>>

LeaseCheck(h) ==
    /\ Step(h, "lease", IF owner \in {NoOwner, "scanner"} THEN "device" ELSE "idle")
    /\ UNCHANGED <<sessionVars, requestVars, ledger, at, answer, historyVars>>

(* set_frequency answers with the revision that was checked, select with    *)
(* the one it finds afterwards; a device that refuses is not remembered.    *)
DeviceCall(h) ==
    LET i == at[h]
        rev == IF command[i].kind = "tune" THEN command[i].expected ELSE revision
    IN
    /\ \/ /\ Step(h, "device", "remember")
          /\ effects' = [effects EXCEPT ![i] = @ + 1]
          /\ answer' = [answer EXCEPT ![h] = [owner |-> NoOwner, revision |-> rev]]
       \/ Step(h, "device", "idle") /\ UNCHANGED <<effects, answer>>
    /\ UNCHANGED <<sessionVars, requestVars, ledger, at, replies>>

Put(f, i, a) == [k \in DOMAIN f \cup {i} |-> IF k = i THEN a ELSE f[k]]
Without(f, i) == [k \in DOMAIN f \ {i} |-> f[k]]

(* Faulty variant: room is made only once the ledger has outgrown it. *)
RememberLate(h) ==
    LET i == at[h] IN
    /\ Step(h, "remember", "idle")
    /\ \/ Cardinality(DOMAIN ledger) <= Capacity /\ ledger' = Put(ledger, i, answer[h])
       \/ /\ Cardinality(DOMAIN ledger) > Capacity
          /\ \E k \in DOMAIN ledger : ledger' = Put(Without(ledger, k), i, answer[h])
    /\ Reply(i, answer[h])
    /\ answer' = [answer EXCEPT ![h] = NoAnswer]
    /\ UNCHANGED <<sessionVars, requestVars, at, effects>>

(* remember_command: a full ledger loses some entry, even when the id is    *)
(* already there.                                                           *)
Remember(h) ==
    LET i == at[h] IN
    /\ Step(h, "remember", "idle")
    /\ \/ Cardinality(DOMAIN ledger) < Capacity /\ ledger' = Put(ledger, i, answer[h])
       \/ /\ Cardinality(DOMAIN ledger) >= Capacity
          /\ \E k \in DOMAIN ledger : ledger' = Put(Without(ledger, k), i, answer[h])
    /\ Reply(i, answer[h])
    /\ answer' = [answer EXCEPT ![h] = NoAnswer]
    /\ UNCHANGED <<sessionVars, requestVars, at, effects>>

Handle(h) ==
    \/ Lookup(h) \/ SessionApply(h) \/ RevisionCheck(h) \/ LeaseCheck(h)
    \/ DeviceCall(h) \/ Remember(h)

(* Everyone else who claims and releases: scan start and stop, the          *)
(* supervisor, jobs, playback and the unrevisioned session endpoints.       *)
Elsewhere ==
    /\ \E o \in Owners : Claim(o, FALSE) \/ Release(o)
    /\ UNCHANGED <<requestVars, ledger, handlerVars, historyVars>>

Next ==
    \/ \E i \in Ids : Compose(i)
    \/ \E h \in Handlers : Handle(h) \/ \E i \in Ids : Send(h, i)
    \/ Elsewhere

Spec == Init /\ [][Next]_vars

-----------------------------------------------------------------------------
(* Properties.  A revision that has saturated at u64::MAX tells nothing     *)
(* apart any more; until then:                                              *)

(* A session command takes effect at most once, however many copies of it   *)
(* are handled, together or one after the other, remembered or evicted.     *)
SessionAppliedOnce ==
    revision < MaxCount => \A i \in Ids : SessionCommand(i) => effects[i] <= 1

(* All successful answers to a session command are the original one.        *)
SessionReplyUnique ==
    revision < MaxCount =>
        \A i \in Ids : SessionCommand(i) => \A a, b \in replies[i] : a = b

(* A command that passes the revision check finds the lease with the owner  *)
(* its client saw: no release and re-claim goes unnoticed.                  *)
SeenRevisionIdentifiesOwner ==
    revision < MaxCount =>
        \A i \in Ids :
            command[i] # Unsent /\ command[i].expected = revision => command[i].seen = owner

(* The ledger is bounded by its capacity. *)
LedgerBounded == Cardinality(DOMAIN ledger) <= Capacity

Answered == {i \in Ids : replies[i] # {}}

(* A device command whose copies come one after the other is applied once,  *)
(* the others are answered, as long as the ledger has an entry to spare.    *)
(* (Without one, a second answer to a command that is remembered already    *)
(* makes room by evicting another's; and copies handled together retune     *)
(* twice: receiver_tune_v2 looks the id up, retunes and remembers it in     *)
(* three critical sections, and a tune does not change the revision.)       *)
DeviceAppliedOnce ==
    Cardinality(Answered) < Capacity =>
        \A i \in Ids : DeviceCommand(i) /\ command[i].kind \in Patient => effects[i] <= 1
=============================================================================
