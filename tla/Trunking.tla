------------------------------ MODULE Trunking ------------------------------
(***************************************************************************)
(* Following P25 grants (api.rs, trunking_start and the handlers around    *)
(* it; the filter and the frequency of trunking.rs; the watch list of      *)
(* db.rs).                                                                 *)
(*                                                                         *)
(* A start observes the control channel, reads the voice table, the "only  *)
(* the watched" switch, the watch list and the name of the system one      *)
(* after the other, each under a lock of its own, retunes the first        *)
(* receiver to the first grant that passes, and logs the calls under the   *)
(* write lock.  Everything it reads may be changed in between by other     *)
(* requests.                                                               *)
(***************************************************************************)
EXTENDS Integers, Sequences, Selection

CONSTANTS
    Requests,
    Systems,
    Talkgroups,
    Observations,   \* records of grants and idens, both sequences
    VoiceTables,    \* of an import: sequences of frequencies
    NotNamed,       \* no system was imported
    MaxEdits,
    MaxObserved

VARIABLES
    trunk,          \* TrunkingRuntime
    watched,        \* the rows of talkgroup_watchlist, pairs of system and talkgroup
    req,            \* per request, what it has read
    followed,       \* the frequency the receiver was last retuned to
    edits, observed

trunkVars == <<trunk, watched, req, followed, edits, observed>>

Nowhere == <<>>
Idle == [at |-> "idle", observation |-> [grants |-> <<>>, idens |-> <<>>], voice |-> <<>>,
         only |-> FALSE, watched |-> {}, system |-> NotNamed,
         sawAll |-> FALSE, sawRows |-> {}, sawNames |-> {}]

TrunkInit ==
    /\ trunk = [running |-> FALSE, system |-> NotNamed, voice |-> <<>>, only |-> FALSE,
                active |-> NotNamed, calls |-> <<>>]
    /\ watched = {}
    /\ req = [r \in Requests |-> Idle]
    /\ followed = Nowhere
    /\ edits = 0 /\ observed = 0

\* What a request has seen hold at some moment since it began.
Seeing(q, runtime, rows) ==
    [q EXCEPT !.sawAll = @ \/ ~runtime.only,
              !.sawRows = @ \cup rows,
              !.sawNames = @ \cup {runtime.system}]

Witnessed(runtime, rows) ==
    req' = [r \in Requests |-> IF req[r].at = "idle" THEN req[r]
                               ELSE Seeing(req[r], runtime, rows)]

(***************************************************************************)
(* What passes, and where it is                                            *)
(***************************************************************************)

\* Faulty variant: the system the talkgroup belongs to is not looked at.
IsWatchedAnywhere(grant, system, rows) == \E row \in rows : row[2] = grant.talkgroup

IsWatched(grant, system, rows) ==
    \E row \in rows : row[2] = grant.talkgroup /\ (system = NotNamed \/ row[1] = system)

Passing(grants, only, system, rows) ==
    IF only THEN Picked(grants, {k \in DOMAIN grants : IsWatched(grants[k], system, rows)})
    ELSE grants

\* The first grant on the first identifier heard, else in the imported table.
FollowFrequency(grants, idens, voice) ==
    IF grants = <<>> THEN Nowhere
    ELSE LET channel == Head(grants).channel
         IN  IF idens # <<>> THEN <<Head(idens), channel>>
             ELSE IF channel < Len(voice) THEN <<voice[channel + 1]>> ELSE Nowhere

(***************************************************************************)
(* A start                                                                 *)
(***************************************************************************)

\* Without a device, or without IQ, nothing is observed.
Observe(r) ==
    /\ req[r].at = "idle" /\ observed < MaxObserved
    /\ \E o \in Observations :
          req' = [req EXCEPT ![r] =
                    Seeing([Idle EXCEPT !.at = "voice", !.observation = o], trunk, watched)]
    /\ observed' = observed + 1
    /\ UNCHANGED <<trunk, watched, followed, edits>>

Reads(r, from, to, what) ==
    /\ req[r].at = from
    /\ req' = [req EXCEPT ![r] = [what EXCEPT !.at = to]]
    /\ UNCHANGED <<trunk, watched, followed, edits, observed>>

ReadVoice(r) == Reads(r, "voice", "only", [req[r] EXCEPT !.voice = trunk.voice])
ReadOnly(r) == Reads(r, "only", "rows", [req[r] EXCEPT !.only = trunk.only])
ReadWatched(r) ==
    \/ Reads(r, "rows", "system", [req[r] EXCEPT !.watched = watched])
    \/ Reads(r, "rows", "system", [req[r] EXCEPT !.watched = {}])   \* the query failed
ReadSystem(r) == Reads(r, "system", "follow", [req[r] EXCEPT !.system = trunk.system])

Kept(r) == Passing(req[r].observation.grants, req[r].only, req[r].system, req[r].watched)
FollowOf(r) == FollowFrequency(Kept(r), req[r].observation.idens, req[r].voice)

Follow(r) ==
    /\ req[r].at = "follow"
    /\ followed' = IF FollowOf(r) = Nowhere THEN followed ELSE FollowOf(r)
    /\ req' = [req EXCEPT ![r].at = "log"]
    /\ UNCHANGED <<trunk, watched, edits, observed>>

\* Every call is logged at the frequency of the first.
Log(r) ==
    /\ req[r].at = "log"
    /\ trunk' = [trunk EXCEPT
         !.running = TRUE,
         !.active = IF Kept(r) = <<>> THEN @ ELSE Kept(r)[Len(Kept(r))].talkgroup,
         !.calls = @ \o [k \in DOMAIN Kept(r) |->
                           [talkgroup |-> Kept(r)[k].talkgroup, at |-> FollowOf(r)]]]
    /\ req' = [req EXCEPT ![r] = Idle]
    /\ UNCHANGED <<watched, followed, edits, observed>>

(***************************************************************************)
(* Other requests                                                          *)
(***************************************************************************)

Edit(runtime, rows) ==
    /\ edits < MaxEdits /\ edits' = edits + 1
    /\ trunk' = runtime /\ watched' = rows
    /\ Witnessed(runtime, rows)
    /\ UNCHANGED <<followed, observed>>

Toggle(s, tg) == Edit(trunk, IF <<s, tg>> \in watched THEN watched \ {<<s, tg>>}
                             ELSE watched \cup {<<s, tg>>})
WatchlistOnly(enabled) == Edit([trunk EXCEPT !.only = enabled], watched)
Import(s, table) == Edit([trunk EXCEPT !.system = s, !.voice = table], watched)
Stop == Edit([trunk EXCEPT !.running = FALSE, !.active = NotNamed], watched)

TrunkNext ==
    \/ \E r \in Requests : \/ Observe(r) \/ ReadVoice(r) \/ ReadOnly(r) \/ ReadWatched(r)
                           \/ ReadSystem(r) \/ Follow(r) \/ Log(r)
    \/ \E s \in Systems, tg \in Talkgroups : Toggle(s, tg)
    \/ \E enabled \in BOOLEAN : WatchlistOnly(enabled)
    \/ \E s \in Systems \cup {NotNamed}, table \in VoiceTables : Import(s, table)
    \/ Stop

(***************************************************************************)
(* Properties                                                              *)
(***************************************************************************)

\* While request r ran, every talkgroup was let through, or the talkgroup was
\* watched in a system that was the one received, or no system was named.
Wanted(r, talkgroup) ==
    \/ req[r].sawAll
    \/ \E row \in req[r].sawRows : /\ row[2] = talkgroup
                                   /\ row[1] \in req[r].sawNames \/ NotNamed \in req[r].sawNames

\* However the switch, the watch list and the system change while a start is
\* under way, it neither retunes the receiver for nor logs a call of a
\* talkgroup that the operator did not let through at some moment of it
\* (trunking.rs:354), and what it retunes to is where the first of the calls it
\* logs was granted.
StepFollowsWanted ==
    /\ \A k \in Len(trunk.calls) + 1 .. Len(trunk'.calls) :
          \E r \in Requests : /\ req[r].at = "log" /\ req'[r].at = "idle"
                              /\ Wanted(r, trunk'.calls[k].talkgroup)
    /\ followed' # followed =>
          \E r \in Requests :
             /\ req[r].at = "follow" /\ req'[r].at = "log"
             /\ \E grant \in {req[r].observation.grants[k] :
                                k \in DOMAIN req[r].observation.grants} :
                   /\ Wanted(r, grant.talkgroup)
                   /\ followed' \in {<<req[r].observation.idens[k], grant.channel>> :
                                       k \in DOMAIN req[r].observation.idens}
                                    \cup {<<table[grant.channel + 1]>> :
                                            table \in {t \in VoiceTables :
                                                         grant.channel < Len(t)}}

OnlyWatchedFollowed == [][StepFollowsWanted]_trunkVars
=============================================================================
