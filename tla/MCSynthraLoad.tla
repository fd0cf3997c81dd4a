--------------------------- MODULE MCSynthraLoad ---------------------------
(***************************************************************************)
(* Constants of the small instances of SynthraLoad.                        *)
(***************************************************************************)
EXTENDS SynthraLoad

\* A transform: a step that may fail and may panic.
MCStepKind == [i \in 1..NumSteps |-> "transform"]
=============================================================================
