--------------------------- MODULE MCReceiverFlow ---------------------------
(***************************************************************************)
(* Instances of ReceiverFlow for TLC.  Clients, jobs and tasks are model   *)
(* values that the specification only compares.                            *)
(***************************************************************************)
EXTENDS ReceiverFlow, TLC

Interchangeable ==
    Permutations(Clients) \cup Permutations(Jobs) \cup Permutations(Tasks)
=============================================================================
