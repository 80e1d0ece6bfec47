------------------------------ MODULE MCDetail ------------------------------
(* Constants of the DetailPage run. *)
EXTENDS DetailPage, TLC

MCFrames == [cmd : {"get_game_details", "submit_review"}, game : Games]
MCLists == {{}, Games}
MCSymmetry == Permutations(Games)
=============================================================================
