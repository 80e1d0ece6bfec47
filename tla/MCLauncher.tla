----------------------------- MODULE MCLauncher -----------------------------
(* Constants of the Launcher runs. *)
EXTENDS Launcher

CONSTANTS g1, g2, v1, v2

MCOneGame == {g1}
MCTwoGames == {g1, g2}
MCVersions == {v1, v2}

\* Everything the surroundings do, and nothing.
MCHostile == Events
MCQuiet == {}
=============================================================================
