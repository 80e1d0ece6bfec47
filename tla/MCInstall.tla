------------------------------ MODULE MCInstall ------------------------------
(* Constants of the ArchiveInstall runs. *)
EXTENDS ArchiveInstall, TLC

CONSTANTS w1, w2, v1, v2

MCTwoWorkers == {w1, w2}
MCVersions == {v1, v2}

\* All but a failed restore.
MCAllButRestore == Calls \ {"restore"}

\* Workers and versions are interchangeable.
MCSymmetry == Permutations(Workers) \cup Permutations(Versions)
=============================================================================
