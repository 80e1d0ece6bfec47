------------------------------- MODULE MCAdmin -------------------------------
(* Constants of the AdminPanel runs. *)
EXTENDS AdminPanel, TLC

MCFrames == Command
MCSymmetry == Permutations(Games) \cup Permutations(Contents)
=============================================================================
