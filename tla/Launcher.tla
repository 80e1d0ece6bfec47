------------------------------ MODULE Launcher ------------------------------
(* The library page of MainWindow (src/src/ui/MainWindow.cpp): the update check *)
(* before a launch, the question it may ask, processes, play time, favourites   *)
(* and uninstallation, over GameLibrary.                                        *)
(*                                                                              *)
(* Each action is one event of the GUI thread.  The question is a modal box     *)
(* opened from onServerMessage: while it is open buttons wait, and so do        *)
(* further answers, because Qt does not emit readyRead inside readyRead; timers,*)
(* processes and downloads go on.  A download is two steps here: the package is *)
(* put in place, and its completion is handled; DownloadManager has the rest.   *)
EXTENDS GameLibrary, Sequences

CONSTANTS MaxClicks     \* bound: clicks on each game's play button

ASSUME ClicksAssumption == MaxClicks \in Nat

VARIABLES
    pendingUpdateCheck,  \* m_pendingUpdateCheck, None for 0
    timers,              \* timers[g]: 7 s timers of g that have not fired
    checks,              \* games of the checks the server has to answer, oldest first
    question,            \* the open question: what Yes would enqueue, or None
    downloads,           \* requests the download manager has
    served,              \* version the server has of each game (external)
    folder,              \* what is in each game's install directory, or None
    running,             \* running[g]: processes of g
    clicks,              \* clicks[g]: play clicks that sent a check
    outcomes             \* outcomes[g]: launches tried and updates accepted

gui  == <<pendingUpdateCheck, timers, checks, question>>
disk == <<folder, running, downloads>>
lib  == <<games, file, failed>>
vars == <<games, file, legacy, failed, pendingUpdateCheck, timers, checks, question, downloads, served,
          folder, running, clicks, outcomes>>

\* A request to install what the URL of game `package' serves.
Request == [game : Games, version : Versions, package : Games, placed : BOOLEAN]
Folder == [package : Games, version : Versions, marker : BOOLEAN]

ASSUME NoRequestAssumption == None \notin Request /\ None \notin Folder

TypeOK ==
    /\ LibraryTypeOK
    /\ pendingUpdateCheck \in Games \cup {None}
    /\ timers \in [Games -> 0 .. MaxClicks]
    /\ checks \in Seq(Games)
    /\ question \in Request \cup {None}
    /\ downloads \subseteq Request
    /\ served \in [Games -> Versions]
    /\ folder \in [Games -> Folder \cup {None}]
    /\ running \in [Games -> Nat]
    /\ clicks \in [Games -> 0 .. MaxClicks]
    /\ outcomes \in [Games -> Nat]

\* The first start after the old launcher: its games are imported, and saved if
\* that works.
Init ==
    /\ legacy \in {l \in Library : \A g \in Games : l[g] \in {None} \cup {NewEntry(v) : v \in Versions}}
    /\ games = legacy
    /\ failed \in BOOLEAN /\ (failed => legacy # Empty /\ MayFail("save_error"))
    /\ file = IF legacy = Empty \/ failed THEN None ELSE legacy
    /\ pendingUpdateCheck = None
    /\ timers = [g \in Games |-> 0]
    /\ checks = <<>>
    /\ question = None
    /\ downloads = {}
    /\ served \in [Games -> Versions]
    /\ folder = [g \in Games |-> IF legacy[g] = None THEN None
                                 ELSE [package |-> g, version |-> legacy[g].version, marker |-> FALSE]]
    /\ running = [g \in Games |-> 0]
    /\ clicks = [g \in Games |-> 0]
    /\ outcomes = [g \in Games |-> 0]

-----------------------------------------------------------------------------
\* launchGame(): a process is started when the executable is there; it may fail.
LaunchGame(g) ==
    /\ outcomes' = [outcomes EXCEPT ![g] = @ + 1]
    /\ \/ games[g] # None /\ folder[g] # None /\ running' = [running EXCEPT ![g] = @ + 1]
       \/ UNCHANGED running

\* checkAndLaunch() of an installed game.
CheckAndLaunch(g) ==
    /\ question = None
    /\ games[g] # None
    /\ clicks[g] < MaxClicks
    /\ pendingUpdateCheck' = g
    /\ checks' = Append(checks, g)
    /\ timers' = [timers EXCEPT ![g] = @ + 1]
    /\ clicks' = [clicks EXCEPT ![g] = @ + 1]
    /\ UNCHANGED <<lib, legacy, question, disk, served, outcomes>>

\* Mutant: the timer launches although the check was answered.
TimeoutAnyway(g) ==
    /\ timers[g] > 0
    /\ timers' = [timers EXCEPT ![g] = @ - 1]
    /\ pendingUpdateCheck' = None
    /\ LaunchGame(g)
    /\ UNCHANGED <<lib, legacy, checks, question, downloads, served, folder, clicks>>

\* Mutant: the timer does nothing.
TimeoutIgnored(g) ==
    /\ timers[g] > 0
    /\ timers' = [timers EXCEPT ![g] = @ - 1]
    /\ UNCHANGED <<lib, legacy, pendingUpdateCheck, checks, question, disk, served, clicks, outcomes>>

\* A 7 s timer fires.
Timeout(g) ==
    /\ timers[g] > 0
    /\ timers' = [timers EXCEPT ![g] = @ - 1]
    /\ \/ /\ pendingUpdateCheck = g
          /\ pendingUpdateCheck' = None
          /\ LaunchGame(g)
       \/ /\ pendingUpdateCheck # g
          /\ UNCHANGED <<pendingUpdateCheck, running, outcomes>>
    /\ UNCHANGED <<lib, legacy, checks, question, downloads, served, folder, clicks>>

\* onServerMessage() with the answer to the oldest check: the answer carries a
\* version and a URL, not the game it was asked for.
Answered ==
    LET asked == Head(checks)
        g     == pendingUpdateCheck
        known == g \in {h \in Games : games[h] # None}
    IN
    /\ checks # <<>> /\ question = None
    /\ checks' = Tail(checks)
    /\ pendingUpdateCheck' = None
    /\ \/ ~known /\ UNCHANGED <<question, running, outcomes>>
       \/ /\ known /\ games[g].version # served[asked]
          /\ question' = [game |-> g, version |-> served[asked], package |-> asked, placed |-> FALSE]
          /\ UNCHANGED <<running, outcomes>>
       \/ /\ known /\ games[g].version = served[asked]
          /\ LaunchGame(g)
          /\ UNCHANGED question
    /\ UNCHANGED <<lib, legacy, timers, downloads, served, folder, clicks>>

\* The answer never comes: the connection was lost.
AnswerLost ==
    /\ checks # <<>>
    /\ checks' = Tail(checks)
    /\ UNCHANGED <<lib, legacy, pendingUpdateCheck, timers, question, disk, served, clicks, outcomes>>

\* DownloadManager::enqueue(): one request of a game at a time.
Enqueue(r) ==
    downloads' = downloads \cup (IF \E d \in downloads : d.game = r.game THEN {} ELSE {r})

\* installCurrentGame(true): nothing is enqueued when the answer lacks a usable URL or
\* executable, which the user is told.
AnswerYes ==
    /\ question # None
    /\ question' = None
    /\ Enqueue(question) \/ UNCHANGED downloads
    /\ outcomes' = [outcomes EXCEPT ![question.game] = @ + 1]
    /\ UNCHANGED <<lib, legacy, pendingUpdateCheck, timers, checks, served, folder, running, clicks>>

AnswerNo ==
    /\ question # None
    /\ question' = None
    /\ LaunchGame(question.game)
    /\ UNCHANGED <<lib, legacy, pendingUpdateCheck, timers, checks, downloads, served, folder, clicks>>

\* The install button of the detail page.
Install(g) ==
    /\ question = None
    /\ games[g] = None
    /\ Enqueue([game |-> g, version |-> served[g], package |-> g, placed |-> FALSE])
    /\ UNCHANGED <<lib, legacy, gui, served, folder, running, clicks, outcomes>>

\* The package is renamed into place, which a running game prevents.
Place(r) ==
    /\ r \in downloads /\ ~r.placed
    /\ running[r.game] = 0
    /\ downloads' = (downloads \ {r}) \cup {[r EXCEPT !.placed = TRUE]}
    /\ folder' = [folder EXCEPT ![r.game] =
                    [package |-> r.package, version |-> r.version, marker |-> FALSE]]
    /\ UNCHANGED <<lib, legacy, gui, served, running, clicks, outcomes>>

\* onDownloadCompleted() and writeInstallMarker(), whose failure is ignored.
Completed(r) ==
    /\ r \in downloads /\ r.placed
    /\ downloads' = downloads \ {r}
    /\ Upsert(r.game, r.version)
    /\ \E marked \in {TRUE} \cup (IF "save_error" \in Env THEN {FALSE} ELSE {}) :
         folder' = [folder EXCEPT ![r.game] = IF @ = None THEN None ELSE [@ EXCEPT !.marker = marked]]
    /\ UNCHANGED <<legacy, gui, served, running, clicks, outcomes>>

\* A download fails or is cancelled.
GivenUp(r) ==
    /\ r \in downloads /\ ~r.placed
    /\ downloads' = downloads \ {r}
    /\ UNCHANGED <<lib, legacy, gui, served, folder, running, clicks, outcomes>>

\* finished() of a process.
Finished(g) ==
    /\ running[g] > 0
    /\ running' = [running EXCEPT ![g] = @ - 1]
    /\ \E elapsed \in 0 .. 1 : UpdatePlaytime(g, elapsed)
    /\ UNCHANGED <<legacy, gui, downloads, served, folder, clicks, outcomes>>

ToggleFavorite(g) ==
    /\ question = None
    /\ SetFavorite(g)
    /\ UNCHANGED <<legacy, gui, disk, served, clicks, outcomes>>

\* hasValidInstallMarker()
HasMarker(g) == folder[g] # None /\ folder[g].marker

\* Mutant: the entry goes before the directory.
UninstallEntryFirst(g) ==
    /\ question = None
    /\ Forget(g)
    /\ folder' \in {folder} \cup (IF HasMarker(g) THEN {[folder EXCEPT ![g] = None]} ELSE {})
    /\ UNCHANGED <<legacy, gui, downloads, served, running, clicks, outcomes>>

\* uninstallGame(), the user having agreed: without a marker only the entry goes.
Uninstall(g) ==
    /\ question = None
    /\ Forget(g)
    /\ \/ ~HasMarker(g) /\ UNCHANGED folder
       \/ HasMarker(g) /\ running[g] = 0 /\ folder' = [folder EXCEPT ![g] = None]
    /\ UNCHANGED <<legacy, gui, downloads, served, running, clicks, outcomes>>

\* The directory of a running game cannot be removed: the entry stays, and so does
\* what removeRecursively() could not delete, with or without the marker.
UninstallFails(g) ==
    /\ question = None
    /\ games[g] # None
    /\ HasMarker(g) /\ running[g] > 0
    /\ \E marked \in BOOLEAN : folder' = [folder EXCEPT ![g] = [@ EXCEPT !.marker = marked]]
    /\ UNCHANGED <<lib, legacy, gui, downloads, served, running, clicks, outcomes>>

\* The publisher changes a version.
Publish(g, v) ==
    /\ served' = [served EXCEPT ![g] = v]
    /\ UNCHANGED <<lib, legacy, gui, disk, clicks, outcomes>>

\* The launcher ends, with the processes it has started, and starts again.
Restart ==
    /\ MayFail("quit")
    /\ Load \/ LoadFails
    /\ pendingUpdateCheck' = None
    /\ timers' = [g \in Games |-> 0]
    /\ checks' = <<>>
    /\ question' = None
    /\ downloads' = {}
    /\ running' = [g \in Games |-> 0]
    /\ clicks' = [g \in Games |-> 0]
    /\ outcomes' = [g \in Games |-> 0]
    /\ UNCHANGED <<legacy, served, folder>>

Next ==
    \/ \E g \in Games :
         \/ CheckAndLaunch(g)
         \/ Timeout(g)
         \/ Install(g)
         \/ Finished(g)
         \/ ToggleFavorite(g)
         \/ Uninstall(g)
         \/ UninstallFails(g)
         \/ \E v \in Versions : Publish(g, v)
    \/ Answered
    \/ AnswerLost
    \/ AnswerYes
    \/ AnswerNo
    \/ \E r \in downloads : Place(r) \/ Completed(r) \/ GivenUp(r)
    \/ Restart

Spec == Init /\ [][Next]_vars

\* Timers fire.
FairSpec == Spec /\ \A g \in Games : WF_vars(Timeout(g))

-----------------------------------------------------------------------------
\* An update puts the package of the game itself into its directory.
UpdatesOwnGame == \A r \in downloads : r.package = r.game

\* A click on play leads to one launch or one update at most, whatever becomes of
\* its answer, its timer and the question.
EachClickOnce ==
    \A g \in Games :
        outcomes[g]
          + (IF pendingUpdateCheck = g THEN 1 ELSE 0)
          + (IF question # None /\ question.game = g THEN 1 ELSE 0) <= clicks[g]

\* A check does not stay pending: the game is launched, asked about or forgotten
\* even if the server never answers.
CheckEnds == \A g \in Games : pendingUpdateCheck = g ~> pendingUpdateCheck # g

\* A step that is no restart, or one after a save and with a load that worked.
Remembers == Restart => Load /\ ~failed

\* Play time and favourites survive updates, restarts and whatever else happens
\* to a game short of removing it; only the user's click changes a favourite.
PlayerDataKept ==
    [][Remembers => \A g \in Games : games[g] # None /\ games'[g] # None =>
          /\ games'[g].played >= games[g].played
          /\ games'[g].favorite # games[g].favorite => ToggleFavorite(g)]_vars

\* A game comes into the library by a completed download only: what was forgotten
\* does not come back with a restart, and the old library is imported once.
OnlyDownloadsAdd ==
    [][Remembers => \A g \in Games : games[g] = None /\ games'[g] # None =>
          \E r \in downloads : r.game = g /\ r.placed]_vars

\* A directory with the launcher's marker belongs to a game of the library and
\* holds the version recorded there.
OwnFoldersListed ==
    \A g \in Games : folder[g] # None /\ folder[g].marker =>
        games[g] # None /\ games[g].version = folder[g].version

\* Neither an update that ends half way, nor a removal that a running game
\* prevents, nor a restart leaves a directory the launcher does not know of.
FoldersStayListed == [][Remembers /\ OwnFoldersListed => OwnFoldersListed']_vars
=============================================================================
