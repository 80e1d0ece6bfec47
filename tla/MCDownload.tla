----------------------------- MODULE MCDownload -----------------------------
(* Constants of the DownloadManager runs. *)
EXTENDS DownloadManager

CONSTANTS g1, g2, v1, v2

MCGames == {g1, g2}
MCVersions == {v1, v2}
MCOneVersion == {v1}
MCNone == {}

\* Packages of one chunk, of two, and a version of each.
MCOneChunk == [v \in Versions |-> 1]
MCTwoChunks == [v \in Versions |-> 2]
MCUneven == [v \in Versions |-> IF v = v1 THEN 1 ELSE 2]

\* Surroundings.
MCRestarts  == {"open_error", "flush_error", "quit"}
MCCalm      == {"open_error", "flush_error", "error_body", "republish"}
MCCancel    == {"cancel_installing"}
MCHazards   == {"open_error", "write_error", "flush_error", "cancel_installing"}

\* The games are interchangeable.
MCSymmetry == Permutations(MCGames)
=============================================================================
