-------------------------- MODULE MCPromptIngress --------------------------
(***************************************************************************)
(* Instances of PromptIngress for TLC.                                     *)
(***************************************************************************)
EXTENDS PromptIngress, TLC

CONSTANTS p1, p2

TwoPrompts == {p1, p2}
DirectOnly == {}
=============================================================================
