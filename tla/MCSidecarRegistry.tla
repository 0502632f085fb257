-------------------------- MODULE MCSidecarRegistry --------------------------
(* SidecarRegistry for TLC: every decoder is started by its manifest, in some *)
(* fixed order.                                                               *)
EXTENDS SidecarRegistry, SequencesExt

MCOrder == SetToSeq({[name |-> d, via |-> "manifest"] : d \in Decoders})
==============================================================================
