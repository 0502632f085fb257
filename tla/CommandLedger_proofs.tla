------------------------ MODULE CommandLedger_proofs ------------------------
(***************************************************************************)
(* Proofs about CommandLedger, for any number of handlers, commands and    *)
(* retries and any capacity.  The argument: as long as the revision has    *)
(* not saturated, what the lease was when a client read its revision       *)
(* determines what its session command answers (Outcome), and a command    *)
(* that took effect has left its expected revision behind.                 *)
(***************************************************************************)
EXTENDS CommandLedger, FiniteSetTheorems, TLAPS

(* Everything a copy of the command has answered, remembered or is about to *)
(* remember.                                                                *)
AnswersTo(i) ==
    replies[i]
      \cup {ledger[k] : k \in {i} \cap DOMAIN ledger}
      \cup {answer[h] : h \in {g \in Handlers : pc[g] = "remember" /\ at[g] = i}}

(* The answer to a session command, from what its client saw. *)
Outcome(r) ==
    IF r.kind = "claim" THEN [owner |-> r.name, revision |-> r.expected + 1]
    ELSE IF r.seen = r.name THEN [owner |-> NoOwner, revision |-> r.expected + 1]
    ELSE [owner |-> r.seen, revision |-> r.expected]

Composed(i) == command[i] # Unsent

Untouched == \A i \in Ids : ~Composed(i) => effects[i] = 0 /\ AnswersTo(i) = {}
Past == \A i \in Ids : Composed(i) => command[i].expected <= revision
Once == \A i \in Ids :
            SessionCommand(i) /\ effects[i] # 0
                => effects[i] = 1 /\ command[i].expected < revision
OneOutcome == \A i \in Ids : SessionCommand(i) =>
                  \A a \in AnswersTo(i) : a = Outcome(command[i])

Paths ==
    \A h \in Handlers :
        /\ pc[h] = "session" => SessionCommand(at[h])
        /\ pc[h] = "device" => ~SessionCommand(at[h])
        /\ pc[h] \in {"revision", "lease"} => ~SessionCommand(at[h])

IInv ==
    /\ TypeOK
    /\ Paths
    /\ Untouched
    /\ Past
    /\ revision < MaxCount => SeenRevisionIdentifiesOwner /\ Once /\ OneOutcome

-----------------------------------------------------------------------------
(* The lease: its revision never decreases, and stays only if its owner     *)
(* does.                                                                    *)
LEMMA LeaseStep ==
    ASSUME SessionTypeOK, NEW o \in Owners, NEW force \in BOOLEAN,
           Claim(o, force) \/ Release(o) \/ UNCHANGED sessionVars
    PROVE  /\ SessionTypeOK'
           /\ revision <= revision'
           /\ revision' < MaxCount =>
                \/ revision' = revision + 1
                \/ revision' = revision /\ owner' = owner
<1>1. \A n \in 0 .. MaxCount :
        /\ Saturating(n) \in 0 .. MaxCount
        /\ n <= Saturating(n)
        /\ Saturating(n) < MaxCount => Saturating(n) = n + 1
  BY SessionAssumption DEF Saturating
<1>2. QED
  BY <1>1 DEF SessionTypeOK, Claim, Release, sessionVars

LEMMA UnsentKind == \A r \in Requests : r # Unsent
BY LedgerAssumption DEF Requests, Unsent

(* A change of the lease by which nobody is answered. *)
LEMMA LeaseKeeps ==
    ASSUME IInv, NEW o \in Owners, Claim(o, FALSE) \/ Release(o),
           UNCHANGED <<requestVars, ledger, handlerVars, historyVars>>
    PROVE  IInv'
<1>1. /\ SessionTypeOK' /\ revision <= revision'
      /\ revision' < MaxCount =>
           \/ revision' = revision + 1
           \/ revision' = revision /\ owner' = owner
  <2>1. SessionTypeOK /\ FALSE \in BOOLEAN /\ (Claim(o, FALSE) \/ Release(o))
    BY DEF IInv, TypeOK
  <2>2. QED
    BY <2>1, LeaseStep
<1>2. TypeOK'
  BY <1>1 DEF IInv, TypeOK, requestVars, handlerVars, historyVars
<1>3. revision \in Nat /\ revision' \in Nat /\ MaxCount \in Nat
  BY <1>1, SessionAssumption DEF IInv, TypeOK, SessionTypeOK
<1>4. \A i \in Ids : Composed(i) => command[i].expected \in Nat
  BY SessionAssumption DEF IInv, TypeOK, Composed, Requests
<1>5. /\ \A i : AnswersTo(i)' = AnswersTo(i)
      /\ UNCHANGED <<command, effects>>
  BY DEF AnswersTo, requestVars, handlerVars, historyVars
<1>6. Untouched' /\ Paths'
  BY <1>5 DEF IInv, Untouched, Composed, Paths, SessionCommand, handlerVars
<1>7. Past'
  BY <1>1, <1>3, <1>4, <1>5 DEF IInv, Past, Composed
<1>8. ASSUME revision' < MaxCount
      PROVE  SeenRevisionIdentifiesOwner' /\ Once' /\ OneOutcome'
  <2>1. revision < MaxCount
    BY <1>1, <1>3, <1>8
  <2>2. SeenRevisionIdentifiesOwner'
    BY <1>1, <1>3, <1>4, <1>5, <1>8, <2>1
    DEF IInv, Past, SeenRevisionIdentifiesOwner, Composed
  <2>3. Once'
    <3>1. \A i \in Ids : SessionCommand(i) => Composed(i)
      BY DEF SessionCommand, Composed
    <3>2. QED
      BY <1>1, <1>3, <1>4, <1>5, <2>1, <3>1 DEF IInv, Once, SessionCommand
  <2>4. OneOutcome'
    BY <1>5, <2>1 DEF IInv, OneOutcome, SessionCommand
  <2>5. QED
    BY <2>2, <2>3, <2>4
<1>9. QED
  BY <1>2, <1>6, <1>7, <1>8 DEF IInv

LEMMA ComposeKeeps ==
    ASSUME IInv, NEW i \in Ids, Compose(i)
    PROVE  IInv'
<1>1. PICK r \in Requests :
        /\ command' = [command EXCEPT ![i] = r]
        /\ r.expected = revision /\ r.seen = owner
  <2>1. PICK k \in Kinds, n \in Owners, f \in BOOLEAN :
          command' = [command EXCEPT ![i] =
            [kind |-> k, name |-> n, force |-> f, expected |-> revision, seen |-> owner]]
    BY DEF Compose
  <2>2. revision \in 0 .. MaxCount /\ owner \in Owners \cup {NoOwner}
    BY DEF IInv, TypeOK, SessionTypeOK
  <2>3. [kind |-> k, name |-> n, force |-> f, expected |-> revision, seen |-> owner]
          \in Requests
    BY <2>2 DEF Requests
  <2>4. QED
    BY <2>1, <2>3
<1>2. command[i] = Unsent /\ r # Unsent
  BY UnsentKind DEF Compose
<1>3. UNCHANGED <<sessionVars, sent, ledger, handlerVars, historyVars>>
  BY DEF Compose
<1>4. /\ command' \in [Ids -> Requests \cup {Unsent}] /\ command'[i] = r
      /\ \A j \in Ids \ {i} : command'[j] = command[j]
  BY <1>1 DEF IInv, TypeOK
<1>5. TypeOK'
  <2>1. \A h \in Handlers : at[h] \in Ids /\ (pc[h] # "idle" => at[h] # i)
    BY <1>2 DEF IInv, TypeOK
  <2>2. \A h \in Handlers : pc'[h] # "idle" => command'[at'[h]] # Unsent
    BY <1>3, <1>4, <2>1 DEF IInv, TypeOK, handlerVars
  <2>3. SessionTypeOK'
    BY <1>3 DEF IInv, TypeOK, SessionTypeOK, sessionVars
  <2>4. QED
    BY <1>3, <1>4, <2>2, <2>3 DEF IInv, TypeOK, handlerVars, historyVars
<1>6. /\ \A j : AnswersTo(j)' = AnswersTo(j)
      /\ UNCHANGED <<owner, revision, effects>>
  BY <1>3 DEF AnswersTo, handlerVars, historyVars, sessionVars
<1>7. effects[i] = 0 /\ AnswersTo(i) = {}
  BY <1>2 DEF IInv, Untouched, Composed
<1>11. Paths'
  <2>1. \A h \in Handlers : at[h] \in Ids /\ (pc[h] # "idle" => at[h] # i)
    BY <1>2 DEF IInv, TypeOK
  <2>2. \A j \in Ids \ {i} : SessionCommand(j)' <=> SessionCommand(j)
    BY <1>4 DEF SessionCommand
  <2>3. \A h \in Handlers : pc[h] # "idle" =>
          (SessionCommand(at[h])' <=> SessionCommand(at[h]))
    BY <1>3, <2>1, <1>4 DEF handlerVars, SessionCommand
  <2>4. QED
    BY <1>3, <2>3 DEF IInv, Paths, handlerVars
<1>8. Untouched' /\ Past'
  <2>1. revision \in Nat
    BY SessionAssumption DEF IInv, TypeOK, SessionTypeOK
  <2>2. QED
    BY <1>1, <1>2, <1>4, <1>6, <2>1 DEF IInv, Untouched, Past, Composed
<1>9. revision' < MaxCount => SeenRevisionIdentifiesOwner' /\ Once' /\ OneOutcome'
  BY <1>1, <1>2, <1>4, <1>6, <1>7
  DEF IInv, SeenRevisionIdentifiesOwner, Once, OneOutcome, SessionCommand
<1>10. QED
  BY <1>5, <1>8, <1>9, <1>11 DEF IInv

(* A handler's step that answers nothing new, changes nothing. *)
LEMMA QuietKeeps ==
    ASSUME IInv, TypeOK', Paths', UNCHANGED <<sessionVars, command, effects>>,
           \A i \in Ids : AnswersTo(i)' \subseteq AnswersTo(i)
    PROVE  IInv'
<1>1. UNCHANGED <<owner, revision>>
  BY DEF sessionVars
<1>2. Untouched' /\ Past'
  BY <1>1 DEF IInv, Untouched, Past, Composed
<1>3. revision' < MaxCount => SeenRevisionIdentifiesOwner' /\ Once' /\ OneOutcome'
  BY <1>1 DEF IInv, SeenRevisionIdentifiesOwner, Once, OneOutcome, SessionCommand
<1>4. QED
  BY <1>2, <1>3 DEF IInv

LEMMA HandlerTypes ==
    ASSUME TypeOK, NEW h \in Handlers
    PROVE  /\ at[h] \in Ids
           /\ command \in [Ids -> Requests \cup {Unsent}]
           /\ pc[h] # "idle" => command[at[h]] \in Requests /\ Composed(at[h])
BY DEF TypeOK, Composed

LEMMA SendKeeps ==
    ASSUME IInv, NEW h \in Handlers, NEW i \in Ids, Send(h, i)
    PROVE  IInv'
<1>1. sent' \in [Ids -> 0 .. Attempts]
  <2>1. sent[i] + 1 \in 0 .. Attempts
    BY LedgerAssumption DEF IInv, TypeOK, Send
  <2>2. QED
    BY <2>1 DEF IInv, TypeOK, Send
<1>2. TypeOK'
  BY <1>1 DEF IInv, TypeOK, SessionTypeOK, Send, sessionVars, historyVars
<1>3. Paths'
  BY DEF IInv, TypeOK, Paths, Send, SessionCommand
<1>4. \A j \in Ids : AnswersTo(j)' \subseteq AnswersTo(j)
  BY DEF IInv, TypeOK, AnswersTo, Send, historyVars
<1>5. QED
  BY <1>2, <1>3, <1>4, QuietKeeps DEF Send, historyVars

LEMMA LookupKeeps ==
    ASSUME IInv, NEW h \in Handlers, Lookup(h)
    PROVE  IInv'
<1>1. at[h] \in Ids /\ pc[h] = "lookup" /\ Composed(at[h])
  BY HandlerTypes DEF IInv, Lookup, Step
<1>2. PICK to \in {"idle", "session", "revision"} :
        /\ pc' = [pc EXCEPT ![h] = to]
        /\ to = "session" => SessionCommand(at[h])
        /\ to = "revision" => ~SessionCommand(at[h])
  BY DEF Lookup, Step
<1>3. \/ replies' = replies
      \/ /\ at[h] \in DOMAIN ledger
         /\ replies' = [replies EXCEPT ![at[h]] = @ \cup {ledger[at[h]]}]
  BY DEF Lookup, Reply
<1>4. UNCHANGED <<sessionVars, requestVars, ledger, at, answer, effects>>
  BY DEF Lookup
<1>5. TypeOK'
  BY <1>1, <1>2, <1>3, <1>4 DEF IInv, TypeOK, SessionTypeOK, Composed, requestVars, sessionVars
<1>6. Paths'
  BY <1>2, <1>4 DEF IInv, TypeOK, Paths, SessionCommand, requestVars
<1>7. \A j \in Ids : AnswersTo(j)' \subseteq AnswersTo(j)
  <2> SUFFICES ASSUME NEW j \in Ids PROVE AnswersTo(j)' \subseteq AnswersTo(j)
    OBVIOUS
  <2>1. replies'[j] \subseteq AnswersTo(j)
    BY <1>1, <1>3 DEF IInv, TypeOK, AnswersTo
  <2>2. {g \in Handlers : pc'[g] = "remember" /\ at'[g] = j}
          \subseteq {g \in Handlers : pc[g] = "remember" /\ at[g] = j}
    BY <1>2, <1>4 DEF IInv, TypeOK
  <2>3. QED
    BY <1>4, <2>1, <2>2 DEF AnswersTo
<1>8. QED
  BY <1>4, <1>5, <1>6, <1>7, QuietKeeps DEF requestVars

(* A step that only moves a handler that answers nothing. *)
LEMMA MoveKeeps ==
    ASSUME IInv, NEW h \in Handlers, NEW to \in {"idle", "lease", "device"},
           pc' = [pc EXCEPT ![h] = to], to # "idle" => ~SessionCommand(at[h]),
           pc[h] # "idle",
           UNCHANGED <<sessionVars, requestVars, ledger, at, answer, historyVars>>
    PROVE  IInv'
<1>1. TypeOK'
  BY HandlerTypes
  DEF IInv, TypeOK, SessionTypeOK, Composed, requestVars, sessionVars, historyVars
<1>2. Paths'
  BY DEF IInv, TypeOK, Paths, SessionCommand, requestVars
<1>3. \A j \in Ids : AnswersTo(j)' \subseteq AnswersTo(j)
  BY DEF IInv, TypeOK, AnswersTo, historyVars
<1>4. QED
  BY <1>1, <1>2, <1>3, QuietKeeps DEF requestVars, historyVars

(* A step that ends with an answer to remember adds that answer alone. *)
LEMMA AnswerAdds ==
    ASSUME TypeOK, NEW h \in Handlers, NEW a \in Answers, pc[h] # "remember",
           pc' = [pc EXCEPT ![h] = "remember"], answer' = [answer EXCEPT ![h] = a],
           UNCHANGED <<ledger, at, replies>>
    PROVE  \A j \in Ids : \A b \in AnswersTo(j)' :
             b \in AnswersTo(j) \/ (j = at[h] /\ b = a)
<1> SUFFICES ASSUME NEW j \in Ids, NEW b \in AnswersTo(j)'
             PROVE  b \in AnswersTo(j) \/ (j = at[h] /\ b = a)
  OBVIOUS
<1>1. CASE b \in replies'[j] \cup {ledger'[k] : k \in {j} \cap DOMAIN ledger'}
  BY <1>1 DEF AnswersTo
<1>2. ASSUME NEW g \in Handlers, pc'[g] = "remember", at'[g] = j, b = answer'[g]
      PROVE  b \in AnswersTo(j) \/ (j = at[h] /\ b = a)
  <2>1. CASE g = h
    BY <1>2, <2>1 DEF TypeOK
  <2>2. CASE g # h
    BY <1>2, <2>2 DEF TypeOK, AnswersTo
  <2>3. QED
    BY <2>1, <2>2
<1>3. QED
  BY <1>1, <1>2 DEF AnswersTo

LEMMA SessionApplyKeeps ==
    ASSUME IInv, NEW h \in Handlers, SessionApply(h)
    PROVE  IInv'
<1>1. /\ at[h] \in Ids /\ command[at[h]] \in Requests /\ SessionCommand(at[h])
      /\ pc[h] = "session" /\ Composed(at[h])
  BY HandlerTypes DEF IInv, SessionApply, Step, Paths
<1>2. CASE Step(h, "session", "idle")
           /\ UNCHANGED <<sessionVars, requestVars, ledger, at, answer, historyVars>>
  BY <1>1, <1>2, MoveKeeps DEF Step
<1>3. CASE /\ Step(h, "session", "remember") /\ command[at[h]].expected = revision
           /\ Applied(command[at[h]]) /\ Changed(at[h])
           /\ answer' = [answer EXCEPT ![h] = [owner |-> owner', revision |-> revision']]
           /\ UNCHANGED <<requestVars, ledger, at, replies>>
  <2> DEFINE i == at[h]
             r == command[i]
             a == [owner |-> owner', revision |-> revision']
  <2>1. /\ r.kind \in {"claim", "release"} /\ r.name \in Owners /\ r.force \in BOOLEAN
        /\ r.expected = revision
    BY <1>1, <1>3 DEF SessionCommand, Requests
  <2>2. /\ SessionTypeOK' /\ revision <= revision'
        /\ revision' < MaxCount =>
             \/ revision' = revision + 1
             \/ revision' = revision /\ owner' = owner
    <3>1. SessionTypeOK /\ (Claim(r.name, r.force) \/ Release(r.name))
      BY <1>3 DEF IInv, TypeOK, Applied
    <3>2. QED
      BY <2>1, <3>1, LeaseStep
  <2>3. revision \in Nat /\ revision' \in Nat /\ MaxCount \in Nat
    BY <2>2, SessionAssumption DEF IInv, TypeOK, SessionTypeOK
  <2>4. a \in Answers
    BY <2>2 DEF SessionTypeOK, Answers
  <2>5. pc' = [pc EXCEPT ![h] = "remember"]
    BY <1>3 DEF Step
  <2>6. effects' = [effects EXCEPT ![i] = IF revision' = revision THEN @ ELSE @ + 1]
    BY <1>3 DEF Changed
  <2>7. TypeOK'
    <3>1. effects' \in [Ids -> Nat]
      BY <1>1, <2>6 DEF IInv, TypeOK
    <3>2. answer' \in [Handlers -> Answers]
      BY <1>3, <2>4 DEF IInv, TypeOK
    <3>3. QED
      BY <1>1, <1>3, <2>2, <2>5, <3>1, <3>2 DEF IInv, TypeOK, requestVars, Composed
  <2>8. Paths'
    BY <1>3, <2>5 DEF IInv, TypeOK, Paths, SessionCommand, requestVars
  <2>9. \A j \in Ids : \A b \in AnswersTo(j)' : b \in AnswersTo(j) \/ (j = i /\ b = a)
    <3>1. TypeOK /\ pc[h] # "remember" /\ UNCHANGED <<ledger, at, replies>>
      BY <1>1, <1>3 DEF IInv
    <3>2. QED
      BY <1>3, <2>4, <2>5, <3>1, AnswerAdds
  <2>10. \A j \in Ids \ {i} : effects'[j] = effects[j]
    BY <2>6 DEF IInv, TypeOK
  <2>11. UNCHANGED command
    BY <1>3 DEF requestVars
  <2>12. Untouched'
    BY <1>1, <2>9, <2>10, <2>11 DEF IInv, Untouched, Composed
  <2>13. \A j \in Ids : Composed(j) => command[j].expected \in Nat
    BY SessionAssumption DEF IInv, TypeOK, Composed, Requests
  <2>14. Past'
    BY <2>2, <2>3, <2>11, <2>13 DEF IInv, Past, Composed
  <2>15. ASSUME revision' < MaxCount
         PROVE  SeenRevisionIdentifiesOwner' /\ Once' /\ OneOutcome'
    <3>1. revision < MaxCount
      BY <2>2, <2>3, <2>15
    <3>2. SeenRevisionIdentifiesOwner'
      BY <2>2, <2>3, <2>11, <2>13, <2>15, <3>1
      DEF IInv, Past, SeenRevisionIdentifiesOwner, Composed
    <3>3. effects[i] = 0
      BY <1>1, <2>1, <2>3, <3>1 DEF IInv, Once
    <3>4. Once'
      <4>1. \A j \in Ids : SessionCommand(j)' <=> SessionCommand(j)
        BY <2>11 DEF SessionCommand
      <4>2. \A j \in Ids : SessionCommand(j) => Composed(j)
        BY DEF SessionCommand, Composed
      <4>3. effects'[i] # 0 => effects'[i] = 1 /\ revision < revision'
        BY <1>1, <2>2, <2>3, <2>6, <2>15, <3>3 DEF IInv, TypeOK
      <4>4. \A j \in Ids \ {i} : SessionCommand(j) /\ effects'[j] # 0
               => effects'[j] = 1 /\ command[j].expected < revision'
        BY <2>2, <2>3, <2>10, <2>13, <3>1, <4>2 DEF IInv, Once
      <4>5. QED
        BY <2>1, <2>11, <4>1, <4>3, <4>4 DEF Once
    <3>5. a = Outcome(r)
      <4>1. r.seen = owner
        BY <1>1, <2>1, <3>1 DEF IInv, SeenRevisionIdentifiesOwner, Composed
      <4>2. CASE r.kind = "claim"
        <5>1. owner' = r.name /\ revision' = Saturating(revision)
          BY <1>3, <4>2 DEF Applied, Claim
        <5>2. QED
          BY <2>1, <3>1, <4>2, <5>1 DEF Outcome, Saturating
      <4>3. CASE r.kind = "release"
        <5>1. Release(r.name)
          BY <1>3, <4>3 DEF Applied
        <5>2. QED
          BY <2>1, <3>1, <4>1, <4>3, <5>1 DEF Outcome, Release, Saturating, sessionVars
      <4>4. QED
        BY <2>1, <4>2, <4>3
    <3>6. OneOutcome'
      BY <2>9, <2>11, <3>1, <3>5 DEF IInv, OneOutcome, SessionCommand
    <3>7. QED
      BY <3>2, <3>4, <3>6
  <2>16. QED
    BY <2>7, <2>8, <2>12, <2>14, <2>15 DEF IInv
<1>4. QED
  BY <1>2, <1>3 DEF SessionApply

LEMMA DeviceCallKeeps ==
    ASSUME IInv, NEW h \in Handlers, DeviceCall(h)
    PROVE  IInv'
<1>1. /\ at[h] \in Ids /\ command[at[h]] \in Requests /\ ~SessionCommand(at[h])
      /\ pc[h] = "device" /\ Composed(at[h])
  BY HandlerTypes DEF IInv, DeviceCall, Step, Paths
<1>2. CASE Step(h, "device", "idle") /\ UNCHANGED <<effects, answer>>
  BY <1>1, <1>2, MoveKeeps DEF Step, DeviceCall, historyVars
<1>3. ASSUME NEW a, Step(h, "device", "remember"), a \in Answers,
             effects' = [effects EXCEPT ![at[h]] = @ + 1],
             answer' = [answer EXCEPT ![h] = a],
             UNCHANGED <<sessionVars, requestVars, ledger, at, replies>>
      PROVE  IInv'
  <2>1. pc' = [pc EXCEPT ![h] = "remember"]
    BY <1>3 DEF Step
  <2>2. TypeOK'
    BY <1>1, <1>3, <2>1
    DEF IInv, TypeOK, SessionTypeOK, Composed, requestVars, sessionVars
  <2>3. Paths'
    BY <1>3, <2>1 DEF IInv, TypeOK, Paths, SessionCommand, requestVars
  <2>4. \A j \in Ids : \A b \in AnswersTo(j)' : b \in AnswersTo(j) \/ (j = at[h] /\ b = a)
    <3>1. TypeOK /\ pc[h] # "remember" /\ UNCHANGED <<ledger, at, replies>>
      BY <1>1, <1>3 DEF IInv
    <3>2. QED
      BY <1>3, <2>1, <3>1, AnswerAdds
  <2>5. UNCHANGED <<command, owner, revision>>
    BY <1>3 DEF requestVars, sessionVars
  <2>6. \A j \in Ids \ {at[h]} : effects'[j] = effects[j]
    BY <1>3 DEF IInv, TypeOK
  <2>7. Untouched' /\ Past'
    BY <1>1, <2>4, <2>5, <2>6 DEF IInv, Untouched, Past, Composed
  <2>8. revision' < MaxCount => SeenRevisionIdentifiesOwner' /\ Once' /\ OneOutcome'
    BY <1>1, <2>4, <2>5, <2>6
    DEF IInv, SeenRevisionIdentifiesOwner, Once, OneOutcome, SessionCommand
  <2>9. QED
    BY <2>2, <2>3, <2>7, <2>8 DEF IInv
<1>4. \A rev \in {command[at[h]].expected, revision} :
        [owner |-> NoOwner, revision |-> rev] \in Answers
  BY <1>1 DEF IInv, TypeOK, SessionTypeOK, Requests, Answers
<1>5. QED
  BY <1>2, <1>3, <1>4 DEF DeviceCall

LEMMA RememberKeeps ==
    ASSUME IInv, NEW h \in Handlers, Remember(h)
    PROVE  IInv'
<1>1. at[h] \in Ids /\ pc[h] = "remember" /\ Composed(at[h]) /\ answer[h] \in Answers
  BY HandlerTypes DEF IInv, TypeOK, Remember, Step
<1>2. /\ pc' = [pc EXCEPT ![h] = "idle"]
      /\ replies' = [replies EXCEPT ![at[h]] = @ \cup {answer[h]}]
      /\ answer' = [answer EXCEPT ![h] = NoAnswer]
      /\ UNCHANGED <<sessionVars, requestVars, at, effects>>
  BY DEF Remember, Step, Reply
<1>3. /\ DOMAIN ledger' \subseteq DOMAIN ledger \cup {at[h]}
      /\ \A k \in DOMAIN ledger' : ledger'[k] = IF k = at[h] THEN answer[h] ELSE ledger[k]
  BY DEF Remember, Put, Without
<1>4. NoAnswer \in Answers
  BY SessionAssumption DEF NoAnswer, Answers
<1>5. TypeOK'
  BY <1>1, <1>2, <1>3, <1>4
  DEF IInv, TypeOK, SessionTypeOK, Composed, requestVars, sessionVars
<1>6. Paths'
  BY <1>2 DEF IInv, TypeOK, Paths, SessionCommand, requestVars
<1>7. \A j \in Ids : AnswersTo(j)' \subseteq AnswersTo(j)
  <2> SUFFICES ASSUME NEW j \in Ids PROVE AnswersTo(j)' \subseteq AnswersTo(j)
    OBVIOUS
  <2>1. answer[h] \in AnswersTo(at[h])
    BY <1>1 DEF AnswersTo
  <2>2. replies'[j] \subseteq AnswersTo(j)
    BY <1>1, <1>2, <2>1 DEF IInv, TypeOK, AnswersTo
  <2>3. {ledger'[k] : k \in {j} \cap DOMAIN ledger'} \subseteq AnswersTo(j)
    BY <1>3, <2>1 DEF AnswersTo
  <2>4. {answer'[g] : g \in {f \in Handlers : pc'[f] = "remember" /\ at'[f] = j}}
          \subseteq AnswersTo(j)
    BY <1>2 DEF IInv, TypeOK, AnswersTo
  <2>5. QED
    BY <2>2, <2>3, <2>4 DEF AnswersTo
<1>8. QED
  BY <1>2, <1>5, <1>6, <1>7, QuietKeeps DEF requestVars

LEMMA IInvInitial == Init => IInv
<1> SUFFICES ASSUME Init PROVE IInv
  OBVIOUS
<1>1. SessionTypeOK /\ owner = NoOwner /\ revision = 0 /\ MaxCount \in Nat
  BY SessionAssumption DEF Init, SessionInit, SessionTypeOK
<1>2. NoAnswer \in Answers
  BY SessionAssumption DEF NoAnswer, Answers
<1>3. TypeOK
  BY <1>1, <1>2, LedgerAssumption DEF Init, TypeOK
<1>4. \A i \in Ids : ~Composed(i) /\ ~SessionCommand(i)
  BY DEF Init, Composed, SessionCommand
<1>5. Paths /\ Past /\ Once /\ OneOutcome /\ SeenRevisionIdentifiesOwner
  BY <1>4 DEF Init, Paths, Past, Once, OneOutcome, SeenRevisionIdentifiesOwner, Composed
<1>6. Untouched
  BY <1>4 DEF Init, Untouched, AnswersTo
<1>7. QED
  BY <1>3, <1>5, <1>6 DEF IInv

LEMMA IInvStep == IInv /\ [Next]_vars => IInv'
<1> SUFFICES ASSUME IInv, [Next]_vars PROVE IInv'
  OBVIOUS
<1>1. CASE \E i \in Ids : Compose(i)
  BY <1>1, ComposeKeeps
<1>2. ASSUME NEW h \in Handlers, Handle(h) PROVE IInv'
  <2>1. CASE RevisionCheck(h) \/ LeaseCheck(h)
    <3>1. ~SessionCommand(at[h])
      BY <2>1 DEF IInv, Paths, RevisionCheck, LeaseCheck, Step
    <3>2. PICK to \in {"idle", "lease", "device"} : pc' = [pc EXCEPT ![h] = to]
      BY <2>1 DEF RevisionCheck, LeaseCheck, Step
    <3>3. pc[h] # "idle"
      BY <2>1 DEF RevisionCheck, LeaseCheck, Step
    <3>4. UNCHANGED <<sessionVars, requestVars, ledger, at, answer, historyVars>>
      BY <2>1 DEF RevisionCheck, LeaseCheck
    <3>5. QED
      BY <3>1, <3>2, <3>3, <3>4, MoveKeeps
  <2>2. QED
    BY <1>2, <2>1, LookupKeeps, SessionApplyKeeps, DeviceCallKeeps, RememberKeeps
    DEF Handle
<1>3. CASE \E h \in Handlers, i \in Ids : Send(h, i)
  BY <1>3, SendKeeps
<1>4. CASE Elsewhere
  BY <1>4, LeaseKeeps DEF Elsewhere
<1>5. CASE UNCHANGED vars
  <2>1. UNCHANGED <<sessionVars, requestVars, ledger, handlerVars, historyVars>>
    BY <1>5 DEF vars
  <2>2. TypeOK' /\ Paths'
    BY <2>1
    DEF IInv, TypeOK, SessionTypeOK, Paths, SessionCommand, sessionVars, requestVars,
        handlerVars, historyVars
  <2>3. \A i \in Ids : AnswersTo(i)' \subseteq AnswersTo(i)
    BY <2>1 DEF AnswersTo, handlerVars, historyVars
  <2>4. QED
    BY <2>1, <2>2, <2>3, QuietKeeps DEF requestVars, historyVars
<1>6. QED
  BY <1>1, <1>2, <1>3, <1>4, <1>5 DEF Next

LEMMA IInvAlways == Spec => []IInv
BY IInvInitial, IInvStep, PTL DEF Spec

(* A session command takes effect at most once, however many copies of it   *)
(* session_command_v2 handles, together or one after the other, and         *)
(* whatever the ledger has forgotten: the revision alone protects it.       *)
THEOREM SessionCommandsApplyOnce == Spec => []SessionAppliedOnce
<1>1. IInv => SessionAppliedOnce
  BY DEF IInv, Once, SessionAppliedOnce
<1>2. QED
  BY <1>1, IInvAlways, PTL

(* All successful answers to a session command are the original one, from   *)
(* the ledger or not.                                                       *)
THEOREM SessionCommandsAnswerAlike == Spec => []SessionReplyUnique
<1>1. IInv => SessionReplyUnique
  BY DEF IInv, OneOutcome, AnswersTo, SessionReplyUnique
<1>2. QED
  BY <1>1, IInvAlways, PTL

(* A command whose expected revision is the present one finds the lease as  *)
(* its client saw it: no release and re-claim in between goes unnoticed.    *)
THEOREM RevisionsIdentifyOwners == Spec => []SeenRevisionIdentifiesOwner
<1>1. IInv => SeenRevisionIdentifiesOwner
  BY DEF IInv, SeenRevisionIdentifiesOwner
<1>2. QED
  BY <1>1, IInvAlways, PTL

-----------------------------------------------------------------------------
(* The bound of the ledger *)

LEMMA PutBound ==
    ASSUME NEW f, NEW i, NEW a, IsFiniteSet(DOMAIN f)
    PROVE  /\ IsFiniteSet(DOMAIN Put(f, i, a))
           /\ Cardinality(DOMAIN Put(f, i, a)) <= Cardinality(DOMAIN f) + 1
<1>1. DOMAIN Put(f, i, a) = DOMAIN f \cup {i}
  BY DEF Put
<1>2. QED
  BY <1>1, FS_AddElement, FS_CardinalityType

LEMMA WithoutBound ==
    ASSUME NEW f, NEW k \in DOMAIN f, IsFiniteSet(DOMAIN f)
    PROVE  /\ IsFiniteSet(DOMAIN Without(f, k))
           /\ Cardinality(DOMAIN Without(f, k)) = Cardinality(DOMAIN f) - 1
<1>1. DOMAIN Without(f, k) = DOMAIN f \ {k}
  BY DEF Without
<1>2. QED
  BY <1>1, FS_RemoveElement

(* remember_command keeps the ledger within its capacity, whether it adds   *)
(* an id or answers a copy of a remembered command.                         *)
THEOREM LedgerStaysBounded == Spec => []LedgerBounded
<1> DEFINE Bounded == IsFiniteSet(DOMAIN ledger) /\ LedgerBounded
<1>1. Init => Bounded
  <2>1. ASSUME Init PROVE DOMAIN ledger = {}
    BY <2>1 DEF Init
  <2>2. QED
    BY <2>1, FS_EmptySet, LedgerAssumption DEF LedgerBounded
<1>2. Bounded /\ [Next]_vars => Bounded'
  <2> SUFFICES ASSUME Bounded, [Next]_vars PROVE Bounded'
    OBVIOUS
  <2>1. CASE UNCHANGED ledger
    BY <2>1 DEF LedgerBounded
  <2>2. ASSUME NEW h \in Handlers, Remember(h) PROVE Bounded'
    <3>1. Capacity \in Nat /\ Cardinality(DOMAIN ledger) \in Nat
      BY LedgerAssumption, FS_CardinalityType
    <3>2. CASE Cardinality(DOMAIN ledger) < Capacity
               /\ ledger' = Put(ledger, at[h], answer[h])
      <4>1. IsFiniteSet(DOMAIN ledger') /\ Cardinality(DOMAIN ledger') \in Nat
        BY <3>2, PutBound, FS_CardinalityType
      <4>2. Cardinality(DOMAIN ledger') <= Cardinality(DOMAIN ledger) + 1
        BY <3>2, PutBound
      <4>3. QED
        BY <3>1, <3>2, <4>1, <4>2 DEF LedgerBounded
    <3>3. ASSUME NEW k \in DOMAIN ledger,
                 ledger' = Put(Without(ledger, k), at[h], answer[h])
          PROVE  Bounded'
      <4>1. /\ IsFiniteSet(DOMAIN Without(ledger, k))
            /\ Cardinality(DOMAIN Without(ledger, k)) = Cardinality(DOMAIN ledger) - 1
        BY WithoutBound
      <4>2. /\ IsFiniteSet(DOMAIN ledger')
            /\ Cardinality(DOMAIN ledger') <= Cardinality(DOMAIN Without(ledger, k)) + 1
        BY <3>3, <4>1, PutBound
      <4>3. Cardinality(DOMAIN ledger') \in Nat
        BY <4>2, FS_CardinalityType
      <4>4. QED
        BY <3>1, <4>1, <4>2, <4>3 DEF LedgerBounded
    <3>4. QED
      BY <2>2, <3>2, <3>3 DEF Remember
  <2>3. QED
    BY <2>1, <2>2
    DEF Next, Compose, Send, Handle, Lookup, SessionApply, RevisionCheck, LeaseCheck,
        DeviceCall, Elsewhere, vars
<1>3. QED
  BY <1>1, <1>2, PTL DEF Spec
-----------------------------------------------------------------------------
(* Device commands.  No revision protects them, only the ledger: while it   *)
(* has an entry to spare it holds every command that was answered, and a    *)
(* patient client has one copy under way at a time.                         *)

InTurn(i) == DeviceCommand(i) /\ command[i].kind \in Patient
Room == Cardinality(Answered) < Capacity

OneCopy ==
    \A g, h \in Handlers :
        /\ pc[g] # "idle" /\ pc[h] # "idle" /\ at[g] = at[h]
        /\ command[at[g]].kind \in Patient
        => g = h
Kept == DOMAIN ledger \subseteq Answered /\ (Room => Answered \subseteq DOMAIN ledger)
Spent(i) ==
    \/ effects[i] = 0
    \/ /\ effects[i] = 1
       /\ i \in DOMAIN ledger \/ \E h \in Handlers : pc[h] = "remember" /\ at[h] = i
       /\ \A h \in Handlers : at[h] = i => pc[h] \notin {"revision", "lease", "device"}
Turns == Room => \A i \in Ids : InTurn(i) => Spent(i)

TurnInv == OneCopy /\ Kept /\ Turns

LEMMA AnsweredFinite ==
    /\ IsFiniteSet(Answered) /\ Cardinality(Answered) \in Nat
    /\ \A D : D \subseteq Answered =>
          IsFiniteSet(D) /\ Cardinality(D) \in Nat /\ Cardinality(D) <= Cardinality(Answered)
<1>1. IsFiniteSet(Answered)
  BY LedgerAssumption, FS_Subset DEF Answered
<1>2. QED
  BY <1>1, FS_Subset, FS_CardinalityType

(* The room that is left only shrinks. *)
LEMMA RoomShrinks ==
    ASSUME Answered \subseteq Answered'
    PROVE  Room' => Room
<1>1. IsFiniteSet(Answered') /\ Cardinality(Answered') \in Nat
  BY LedgerAssumption, FS_Subset, FS_CardinalityType DEF Answered
<1>2. Cardinality(Answered) \in Nat /\ Cardinality(Answered) <= Cardinality(Answered')
  BY <1>1, FS_Subset, FS_CardinalityType
<1>3. QED
  BY <1>1, <1>2, LedgerAssumption DEF Room

LEMMA TurnInitial == Init => TurnInv
<1> SUFFICES ASSUME Init PROVE TurnInv
  OBVIOUS
<1>1. Answered = {} /\ DOMAIN ledger = {}
  BY DEF Init, Answered
<1>2. OneCopy /\ Turns
  BY DEF Init, OneCopy, Turns, InTurn, DeviceCommand, Spent
<1>3. QED
  BY <1>1, <1>2 DEF TurnInv, Kept

(* A command that is composed: no handler has it yet. *)
LEMMA ComposeTurn ==
    ASSUME IInv, TurnInv, NEW i \in Ids, Compose(i)
    PROVE  TurnInv'
<1>1. PICK r : command' = [command EXCEPT ![i] = r]
  BY DEF Compose
<1>2. UNCHANGED <<ledger, pc, at, replies, effects>> /\ command[i] = Unsent
  BY DEF Compose, handlerVars, historyVars
<1>3. /\ command \in [Ids -> Requests \cup {Unsent}]
      /\ \A h \in Handlers : at[h] \in Ids /\ (pc[h] # "idle" => at[h] # i)
  BY <1>2 DEF IInv, TypeOK
<1>4. \A j \in Ids \ {i} : command'[j] = command[j]
  BY <1>1, <1>3
<1>5. effects[i] = 0
  BY <1>2 DEF IInv, Untouched, Composed
<1>6. Answered' = Answered
  BY <1>2 DEF Answered
<1>7. OneCopy'
  <2> SUFFICES ASSUME NEW g \in Handlers, NEW h \in Handlers, pc'[g] # "idle",
                      pc'[h] # "idle", at'[g] = at'[h], command'[at'[g]].kind \in Patient
               PROVE  g = h
    BY DEF OneCopy
  <2>1. command'[at'[g]] = command[at[g]]
    BY <1>2, <1>3, <1>4
  <2>2. QED
    BY <1>2, <2>1 DEF TurnInv, OneCopy
<1>8. Kept'
  BY <1>2, <1>6 DEF TurnInv, Kept, Room
<1>9. Turns'
  <2> SUFFICES ASSUME Room', NEW j \in Ids, InTurn(j)' PROVE Spent(j)'
    BY DEF Turns
  <2>1. CASE j = i
    BY <1>2, <1>5, <2>1 DEF Spent
  <2>2. CASE j # i
    <3>1. InTurn(j) /\ Room
      BY <1>4, <1>6, <2>2 DEF InTurn, DeviceCommand, Room
    <3>2. QED
      BY <1>2, <3>1 DEF TurnInv, Turns, Spent
  <2>3. QED
    BY <2>1, <2>2
<1>10. QED
  BY <1>7, <1>8, <1>9 DEF TurnInv

LEMMA SendTurn ==
    ASSUME IInv, TurnInv, NEW h \in Handlers, NEW i \in Ids, Send(h, i)
    PROVE  TurnInv'
<1>1. /\ pc[h] = "idle" /\ pc' = [pc EXCEPT ![h] = "lookup"]
      /\ at' = [at EXCEPT ![h] = i]
      /\ UNCHANGED <<command, ledger, replies, effects>>
      /\ command[i].kind \in Patient => \A g \in Handlers : pc[g] # "idle" => at[g] # i
  BY DEF Send, historyVars
<1>2. /\ pc'[h] = "lookup" /\ at'[h] = i
      /\ \A g \in Handlers \ {h} : pc'[g] = pc[g] /\ at'[g] = at[g]
  BY <1>1 DEF IInv, TypeOK
<1>3. OneCopy'
  BY <1>1, <1>2 DEF TurnInv, OneCopy
<1>4. Answered' = Answered
  BY <1>1 DEF Answered
<1>5. Kept'
  BY <1>1, <1>4 DEF TurnInv, Kept, Room
<1>6. Turns'
  <2> SUFFICES ASSUME Room', NEW j \in Ids, InTurn(j)' PROVE Spent(j)'
    BY DEF Turns
  <2>1. InTurn(j) /\ Room
    BY <1>1, <1>4 DEF InTurn, DeviceCommand, Room
  <2>2. Spent(j)
    BY <2>1 DEF TurnInv, Turns
  <2>3. QED
    BY <1>1, <1>2, <2>2 DEF Spent
<1>7. QED
  BY <1>3, <1>5, <1>6 DEF TurnInv

(* A step of one handler that stays with its command.  What is left to show *)
(* is that the ledger keeps what was answered, and what becomes of the      *)
(* command it has.                                                          *)
LEMMA HandlerTurn ==
    ASSUME IInv, TurnInv, NEW h \in Handlers, NEW to, pc[h] # "idle",
           pc' = [pc EXCEPT ![h] = to], UNCHANGED <<command, at>>,
           Answered \subseteq Answered', Kept',
           Room' => DOMAIN ledger \subseteq DOMAIN ledger',
           \A j \in Ids \ {at[h]} : InTurn(j) => effects'[j] = effects[j],
           Room' /\ InTurn(at[h]) => Spent(at[h])'
    PROVE  TurnInv'
<1>1. at[h] \in Ids /\ pc'[h] = to /\ \A g \in Handlers \ {h} : pc'[g] = pc[g]
  BY DEF IInv, TypeOK
<1>2. OneCopy'
  BY <1>1 DEF TurnInv, OneCopy
<1>3. Turns'
  <2> SUFFICES ASSUME Room', NEW j \in Ids, InTurn(j)', j # at[h] PROVE Spent(j)'
    BY DEF Turns, InTurn, DeviceCommand
  <2>1. InTurn(j) /\ Room
    BY RoomShrinks DEF InTurn, DeviceCommand
  <2>2. Spent(j) /\ effects'[j] = effects[j]
    BY <2>1 DEF TurnInv, Turns
  <2>3. \A g \in Handlers : at[g] = j => g # h /\ at'[g] = j /\ pc'[g] = pc[g]
    BY <1>1
  <2>4. QED
    BY <2>2, <2>3 DEF Spent
<1>4. QED
  BY <1>2, <1>3 DEF TurnInv

(* Lookup goes on only with an id the ledger does not hold. *)
LEMMA LookupTurn ==
    ASSUME IInv, TurnInv, NEW h \in Handlers, Lookup(h)
    PROVE  TurnInv'
<1> DEFINE i == at[h]
<1>1. /\ i \in Ids /\ pc[h] = "lookup" /\ UNCHANGED <<command, at, ledger, effects>>
      /\ pc \in [Handlers -> {"idle", "lookup", "session", "revision", "lease", "device", "remember"}]
  BY DEF Lookup, Step, requestVars, IInv, TypeOK
<1>2. Answered' = Answered
  <2>1. i \in DOMAIN ledger => i \in Answered
    BY DEF TurnInv, Kept
  <2>2. \/ replies' = replies
        \/ i \in Answered /\ replies' = [replies EXCEPT ![i] = @ \cup {ledger[i]}]
    BY <2>1 DEF Lookup, Reply
  <2>3. QED
    BY <1>1, <2>2 DEF Answered, IInv, TypeOK
<1>3. Kept'
  BY <1>1, <1>2 DEF TurnInv, Kept, Room
<1>4. PICK to : /\ pc' = [pc EXCEPT ![h] = to]
                /\ to \in {"idle", "session", "revision"}
                /\ to = "idle" \/ i \notin DOMAIN ledger
  BY DEF Lookup, Step
<1>5. ASSUME Room', InTurn(i) PROVE Spent(i)'
  <2>1. Spent(i) /\ command[i].kind \in Patient
    BY <1>1, <1>2, <1>5 DEF TurnInv, Turns, Room, InTurn
  <2>2. /\ pc'[h] = to
        /\ \A g \in Handlers \ {h} : pc'[g] = pc[g] /\ (at[g] = i => pc[g] = "idle")
    BY <1>1, <1>4, <2>1 DEF TurnInv, OneCopy
  <2>3. effects[i] = 0 \/ (effects[i] = 1 /\ i \in DOMAIN ledger)
    BY <1>1, <2>1, <2>2 DEF Spent
  <2>4. QED
    BY <1>1, <1>4, <2>2, <2>3 DEF Spent
<1>6. QED
  BY <1>1, <1>2, <1>3, <1>4, <1>5, HandlerTurn

(* A step that leaves the ledger, the answers given and the effects of      *)
(* device commands alone, and leads on only a command without effect.       *)
LEMMA QuietTurn ==
    ASSUME IInv, TurnInv, NEW h \in Handlers, NEW to, pc[h] \notin {"idle", "remember"},
           pc' = [pc EXCEPT ![h] = to], UNCHANGED <<command, at, ledger, replies>>,
           \A j \in Ids : InTurn(j) => effects'[j] = effects[j],
           InTurn(at[h]) => to = "idle" \/ pc[h] \in {"revision", "lease"}
    PROVE  TurnInv'
<1>1. Answered' = Answered
  BY DEF Answered
<1>2. Kept'
  BY <1>1 DEF TurnInv, Kept, Room
<1>3. at[h] \in Ids /\ pc \in [Handlers -> {"idle", "lookup", "session", "revision", "lease", "device", "remember"}]
  BY DEF IInv, TypeOK
<1>4. ASSUME Room', InTurn(at[h]) PROVE Spent(at[h])'
  <2>1. Spent(at[h])
    BY <1>1, <1>3, <1>4 DEF TurnInv, Turns, Room
  <2>2. pc'[h] = to /\ \A g \in Handlers \ {h} : pc'[g] = pc[g]
    BY <1>3
  <2>3. QED
    BY <1>3, <1>4, <2>1, <2>2 DEF Spent
<1>5. QED
  BY <1>1, <1>2, <1>3, <1>4, HandlerTurn

LEMMA SessionApplyTurn ==
    ASSUME IInv, TurnInv, NEW h \in Handlers, SessionApply(h)
    PROVE  TurnInv'
<1>1. pc[h] = "session" /\ SessionCommand(at[h]) /\ at[h] \in Ids
  BY DEF SessionApply, Step, IInv, TypeOK, Paths
<1>2. ~InTurn(at[h])
  BY <1>1 DEF InTurn, DeviceCommand, SessionCommand
<1>3. \A j \in Ids \ {at[h]} : effects'[j] = effects[j]
  BY DEF SessionApply, Changed, IInv, TypeOK, historyVars
<1>4. PICK to : pc' = [pc EXCEPT ![h] = to]
  BY DEF SessionApply, Step
<1>5. UNCHANGED <<command, at, ledger, replies>>
  BY DEF SessionApply, requestVars, historyVars
<1>6. QED
  BY <1>1, <1>2, <1>3, <1>4, <1>5, QuietTurn

(* The device is retuned for a command that had no effect yet. *)
LEMMA DeviceCallTurn ==
    ASSUME IInv, TurnInv, NEW h \in Handlers, DeviceCall(h)
    PROVE  TurnInv'
<1> DEFINE i == at[h]
<1>1. /\ i \in Ids /\ pc[h] = "device" /\ UNCHANGED <<command, at, ledger, replies>>
      /\ effects \in [Ids -> Nat]
      /\ pc \in [Handlers -> {"idle", "lookup", "session", "revision", "lease", "device", "remember"}]
  BY DEF DeviceCall, Step, requestVars, IInv, TypeOK
<1>2. CASE Step(h, "device", "idle") /\ UNCHANGED <<effects, answer>>
  BY <1>1, <1>2, QuietTurn DEF Step
<1>3. CASE Step(h, "device", "remember") /\ effects' = [effects EXCEPT ![i] = @ + 1]
  <2>1. Answered' = Answered
    BY <1>1 DEF Answered
  <2>2. Kept'
    BY <1>1, <2>1 DEF TurnInv, Kept, Room
  <2>3. pc' = [pc EXCEPT ![h] = "remember"]
    BY <1>3 DEF Step
  <2>4. ASSUME Room', InTurn(i) PROVE Spent(i)'
    <3>1. Spent(i) /\ command[i].kind \in Patient
      BY <1>1, <2>1, <2>4 DEF TurnInv, Turns, Room, InTurn
    <3>2. effects'[i] = 1
      BY <1>1, <1>3, <3>1 DEF Spent
    <3>3. \A g \in Handlers \ {h} : at[g] = i => pc'[g] = "idle"
      BY <1>1, <2>3, <3>1 DEF TurnInv, OneCopy
    <3>4. pc'[h] = "remember" /\ at'[h] = i
      BY <1>1, <2>3
    <3>5. QED
      BY <1>1, <3>2, <3>3, <3>4 DEF Spent
  <2>5. QED
    BY <1>1, <1>3, <2>1, <2>2, <2>3, <2>4, HandlerTurn
<1>4. QED
  BY <1>2, <1>3 DEF DeviceCall

(* remember_command evicts nothing while there is an entry to spare. *)
LEMMA RememberTurn ==
    ASSUME IInv, TurnInv, NEW h \in Handlers, Remember(h)
    PROVE  TurnInv'
<1> DEFINE i == at[h]
<1>1. /\ i \in Ids /\ pc[h] = "remember" /\ pc' = [pc EXCEPT ![h] = "idle"]
      /\ UNCHANGED <<command, at, effects>>
      /\ replies' = [replies EXCEPT ![i] = @ \cup {answer[h]}]
      /\ pc \in [Handlers -> {"idle", "lookup", "session", "revision", "lease", "device", "remember"}]
  BY DEF Remember, Step, Reply, requestVars, IInv, TypeOK
<1>2. Answered' = Answered \cup {i}
  BY <1>1 DEF Answered, IInv, TypeOK
<1>3. DOMAIN ledger' \subseteq DOMAIN ledger \cup {i}
  BY DEF Remember, Put, Without
<1>4. ASSUME Room' PROVE DOMAIN ledger' = DOMAIN ledger \cup {i}
  <2>1. Room
    BY <1>2, <1>4, RoomShrinks
  <2>2. DOMAIN ledger \subseteq Answered
    BY DEF TurnInv, Kept
  <2>3. Cardinality(DOMAIN ledger) < Capacity /\ Cardinality(DOMAIN ledger) \in Nat
    BY <2>1, <2>2, AnsweredFinite, LedgerAssumption DEF Room
  <2>4. ledger' = Put(ledger, i, answer[h])
    BY <2>3, LedgerAssumption DEF Remember
  <2>5. QED
    BY <2>4 DEF Put
<1>5. Kept'
  BY <1>2, <1>3, <1>4, RoomShrinks DEF TurnInv, Kept
<1>6. ASSUME Room', InTurn(i) PROVE Spent(i)'
  <2>1. Spent(i)
    BY <1>1, <1>2, <1>6, RoomShrinks DEF TurnInv, Turns
  <2>2. i \in DOMAIN ledger'
    BY <1>4, <1>6
  <2>3. pc'[h] = "idle" /\ \A g \in Handlers \ {h} : pc'[g] = pc[g]
    BY <1>1
  <2>4. QED
    BY <1>1, <2>1, <2>2, <2>3 DEF Spent
<1>7. QED
  BY <1>1, <1>2, <1>4, <1>5, <1>6, HandlerTurn

LEMMA TurnStep == IInv /\ TurnInv /\ [Next]_vars => TurnInv'
<1> SUFFICES ASSUME IInv, TurnInv, [Next]_vars PROVE TurnInv'
  OBVIOUS
<1>1. ASSUME NEW i \in Ids, Compose(i) PROVE TurnInv'
  BY <1>1, ComposeTurn
<1>2. ASSUME NEW h \in Handlers, NEW i \in Ids, Send(h, i) PROVE TurnInv'
  BY <1>2, SendTurn
<1>3. ASSUME NEW h \in Handlers, RevisionCheck(h) \/ LeaseCheck(h) PROVE TurnInv'
  <2>1. pc[h] \in {"revision", "lease"}
    BY <1>3 DEF RevisionCheck, LeaseCheck, Step
  <2>2. PICK to : pc' = [pc EXCEPT ![h] = to]
    BY <1>3 DEF RevisionCheck, LeaseCheck, Step
  <2>3. UNCHANGED <<command, at, ledger, replies, effects>>
    BY <1>3 DEF RevisionCheck, LeaseCheck, requestVars, historyVars
  <2>4. QED
    BY <2>1, <2>2, <2>3, QuietTurn
<1>4. ASSUME NEW h \in Handlers, Handle(h) PROVE TurnInv'
  BY <1>3, <1>4, LookupTurn, SessionApplyTurn, DeviceCallTurn, RememberTurn DEF Handle
<1>5. CASE UNCHANGED <<command, ledger, pc, at, replies, effects>>
  BY <1>5 DEF TurnInv, OneCopy, Kept, Turns, Room, Answered, InTurn, DeviceCommand, Spent
<1>6. QED
  BY <1>1, <1>2, <1>4, <1>5
  DEF Next, Elsewhere, vars, requestVars, handlerVars, historyVars

(* Commands, leases, answers and handlers keep their types, and no handler  *)
(* is at work on a command nobody sent.                                     *)
THEOREM TypeCorrect == Spec => []TypeOK
<1>1. IInv => TypeOK
  BY DEF IInv
<1>2. QED
  BY <1>1, IInvAlways, PTL

(* A tune or select whose client waits for the answer before it repeats is  *)
(* applied once, whatever others send, as long as the ledger has an entry   *)
(* to spare: receiver_tune_v2 answers the repetition from the ledger.       *)
THEOREM DeviceCommandsApplyOnce == Spec => []DeviceAppliedOnce
<1>1. IInv /\ TurnInv => DeviceAppliedOnce
  BY DEF IInv, TypeOK, TurnInv, Turns, Room, Spent, InTurn, DeviceAppliedOnce
<1>2. Spec => []TurnInv
  BY TurnInitial, TurnStep, IInvAlways, PTL DEF Spec
<1>3. QED
  BY <1>1, <1>2, IInvAlways, PTL

=============================================================================
