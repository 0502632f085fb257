-------------------------- MODULE MCCommandLedger --------------------------
(***************************************************************************)
(* Instances of CommandLedger for TLC.  Handlers and ids are model values  *)
(* that the specification only compares.                                   *)
(***************************************************************************)
EXTENDS CommandLedger, TLC

Interchangeable == Permutations(Handlers) \cup Permutations(Ids)
=============================================================================
