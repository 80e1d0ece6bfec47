---------------------------- MODULE AtomicInstall ----------------------------
(* What an installation promises: the tree of a game is replaced at one moment, *)
(* and the result tells whether it was.                                         *)
CONSTANTS Versions, None

VARIABLES
    tree,       \* the installed version, or None
    job,        \* version being installed, or None
    committed   \* the last job has replaced the tree

avars == <<tree, job, committed>>

AInit == tree = None /\ job = None /\ committed = FALSE

Begin(v) == job = None /\ job' = v /\ committed' = FALSE /\ UNCHANGED tree

Commit == job # None /\ ~committed /\ tree' = job /\ committed' = TRUE /\ UNCHANGED job

Finish == job # None /\ job' = None /\ UNCHANGED <<tree, committed>>

ANext == (\E v \in Versions : Begin(v)) \/ Commit \/ Finish

ASpec == AInit /\ [][ANext]_avars
=============================================================================
