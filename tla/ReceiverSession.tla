-------------------------- MODULE ReceiverSession --------------------------
(***************************************************************************)
(* The physical-receiver lease of PulseScope: the struct ReceiverSession   *)
(* behind AppState.receiver_session, with its two methods.  A lease is     *)
(* held under a name, never by a caller: every request that acts for the   *)
(* scanner claims and releases the same name "scanner".                    *)
(*                                                                         *)
(* acquired_ms is Some exactly when owner is, so it is not kept.           *)
(***************************************************************************)
EXTENDS Naturals

CONSTANTS
    Owners,   \* the names a lease can be held under
    NoOwner,  \* None
    MaxCount  \* u64::MAX, where the counters saturate

ASSUME SessionAssumption ==
    /\ NoOwner \notin Owners
    /\ MaxCount \in Nat \ {0}

VARIABLES
    owner,      \* who holds the receiver
    takeovers,  \* forced changes of hands so far
    revision    \* changes of the lease so far, quoted by revisioned commands

sessionVars == <<owner, takeovers, revision>>

SessionTypeOK ==
    /\ owner \in Owners \cup {NoOwner}
    /\ takeovers \in 0 .. MaxCount
    /\ revision \in 0 .. MaxCount

SessionInit ==
    /\ owner = NoOwner
    /\ takeovers = 0
    /\ revision = 0

-----------------------------------------------------------------------------
(* Faulty variant: the counter grows without end. *)
Unbounded(n) == n + 1

(* u64::saturating_add(1) *)
Saturating(n) == IF n < MaxCount THEN n + 1 ELSE n

(* The only refusal of claim: someone else holds it and force is not set. *)
Grants(o, force) == owner \in {NoOwner, o} \/ force

Claim(o, force) ==
    /\ Grants(o, force)
    /\ owner' = o
    /\ takeovers' = IF owner \in {NoOwner, o} THEN takeovers ELSE Saturating(takeovers)
    /\ revision' = Saturating(revision)

(* Faulty variant: whoever calls, the holder loses the lease. *)
ReleaseAnyone(o) ==
    /\ owner' = NoOwner
    /\ revision' = Saturating(revision)
    /\ UNCHANGED takeovers

(* Faulty variant: a release is no change of the lease. *)
ReleaseUnrevised(o) ==
    /\ owner' = IF owner = o THEN NoOwner ELSE owner
    /\ UNCHANGED <<takeovers, revision>>

(* Releasing under a name that does not hold the lease does nothing. *)
Release(o) ==
    IF owner = o
      THEN /\ owner' = NoOwner
           /\ revision' = Saturating(revision)
           /\ UNCHANGED takeovers
      ELSE UNCHANGED sessionVars
=============================================================================
