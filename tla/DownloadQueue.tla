---------------------------- MODULE DownloadQueue ----------------------------
(* What the download manager promises to the rest of the launcher: requests are *)
(* served in order, one at a time; an install directory changes only for the    *)
(* task being served, to the package that task asked for; and a task is         *)
(* recorded as completed only after its own package is in place.                *)
EXTENDS Sequences

CONSTANTS Games, Versions, None

VARIABLES
    waiting,    \* requests not started yet, oldest first
    active,     \* the request being served, or None
    placed,     \* its package is in the install directory
    tree,       \* version in each game's install directory, or None
    recorded    \* version the library records, or None

qvars == <<waiting, active, placed, tree, recorded>>

Request == [game : Games, version : Versions]

QInit ==
    /\ waiting = <<>>
    /\ active = None
    /\ placed = FALSE
    /\ tree = [g \in Games |-> None]
    /\ recorded = [g \in Games |-> None]

Add(r) ==
    /\ \A i \in DOMAIN waiting : waiting[i].game # r.game
    /\ active # None => active.game # r.game
    /\ waiting' = Append(waiting, r)
    /\ UNCHANGED <<active, placed, tree, recorded>>

\* The place of the active request goes to nobody for now, or to the next one,
\* which may fail as soon as it starts.
Advance ==
    /\ placed' = FALSE
    /\ \/ active' = None /\ UNCHANGED waiting
       \/ waiting # <<>> /\ active' \in {Head(waiting), None} /\ waiting' = Tail(waiting)

Start == active = None /\ waiting # <<>> /\ Advance /\ UNCHANGED <<tree, recorded>>

\* The active request fails or is cancelled.
GiveUp == active # None /\ Advance /\ UNCHANGED <<tree, recorded>>

Place ==
    /\ active # None
    /\ placed' = TRUE
    /\ tree' = [tree EXCEPT ![active.game] = active.version]
    /\ UNCHANGED <<waiting, active, recorded>>

Complete ==
    /\ active # None /\ placed
    /\ recorded' = [recorded EXCEPT ![active.game] = active.version]
    /\ Advance
    /\ UNCHANGED tree

QNext ==
    \/ \E r \in Request : Add(r)
    \/ Start
    \/ GiveUp
    \/ Place
    \/ Complete

QSpec == QInit /\ [][QNext]_qvars
=============================================================================
