--------------------------- MODULE TunerOwnership ---------------------------
(***************************************************************************)
(* What the job executor promises about scan jobs: a job either never gets *)
(* the tuner, or has it to itself from the grant until it finishes, and it *)
(* does finish.  ReceiverFlow implements this through the receiver lease   *)
(* when no client takes the lease by force.                                *)
(***************************************************************************)
CONSTANT Jobs

VARIABLE phase  \* [Jobs -> {"waiting", "holding", "done"}]

Init == phase \in [Jobs -> {"waiting", "done"}]

Grant(j) ==
    /\ phase[j] = "waiting"
    /\ \A k \in Jobs : phase[k] # "holding"
    /\ phase' = [phase EXCEPT ![j] = "holding"]

Refuse(j) ==
    /\ phase[j] = "waiting"
    /\ phase' = [phase EXCEPT ![j] = "done"]

Finish(j) ==
    /\ phase[j] = "holding"
    /\ phase' = [phase EXCEPT ![j] = "done"]

Next == \E j \in Jobs : Grant(j) \/ Refuse(j) \/ Finish(j)

Safe == Init /\ [][Next]_phase

Spec ==
    /\ Safe
    /\ \A j \in Jobs : /\ WF_phase(Finish(j))
                       /\ WF_phase(Grant(j) \/ Refuse(j))
=============================================================================
