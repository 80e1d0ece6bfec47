--------------------------- MODULE LauncherProofs ---------------------------
(* What the library page keeps, for any games, versions, clicks and failures.   *)
EXTENDS Launcher, TLAPS

\* A timer stands for a click of the same run of the launcher.
TimersCounted == \A g \in Games : timers[g] <= clicks[g]

TypeInv == TypeOK /\ TimersCounted

\* Unless a save or load has failed, library.json is the map in memory.
InSync == failed \/ file = games \/ (file = None /\ legacy = Empty /\ games = Empty)

-----------------------------------------------------------------------------
(* The library.                                                                 *)

LEMMA EntryType ==
    ASSUME NEW v \in Versions
    PROVE  NewEntry(v) \in Entry
  BY LibraryAssumption DEF NewEntry, Entry

\* Every operation of the library goes through Update().
LEMMA UpdateKeeps ==
    ASSUME LibraryTypeOK, NEW g \in Games, NEW entry \in Entry \cup {None},
           Update(g, entry), UNCHANGED legacy
    PROVE  LibraryTypeOK' /\ InSync'
  BY DEF LibraryTypeOK, Update, Save, Library, InSync

LEMMA UpsertKeeps ==
    ASSUME LibraryTypeOK, NEW g \in Games, NEW v \in Versions, Upsert(g, v), UNCHANGED legacy
    PROVE  LibraryTypeOK' /\ InSync'
  <1>1. (IF games[g] = None THEN NewEntry(v) ELSE [games[g] EXCEPT !.version = v]) \in Entry
    BY EntryType DEF LibraryTypeOK, Library, Entry
  <1> QED BY <1>1, UpdateKeeps DEF Upsert

LEMMA ForgetKeeps ==
    ASSUME LibraryTypeOK, NEW g \in Games, Forget(g), UNCHANGED legacy
    PROVE  LibraryTypeOK' /\ InSync'
  BY UpdateKeeps DEF Forget

LEMMA FavoriteKeeps ==
    ASSUME LibraryTypeOK, NEW g \in Games, SetFavorite(g), UNCHANGED legacy
    PROVE  LibraryTypeOK' /\ InSync'
  <1>1. [games[g] EXCEPT !.favorite = ~@] \in Entry
    BY DEF SetFavorite, LibraryTypeOK, Library, Entry
  <1> QED BY <1>1, UpdateKeeps DEF SetFavorite

LEMMA PlaytimeKeeps ==
    ASSUME LibraryTypeOK, InSync, NEW g \in Games, NEW elapsed \in 0 .. 1,
           UpdatePlaytime(g, elapsed), UNCHANGED legacy
    PROVE  LibraryTypeOK' /\ InSync'
  <1>1. CASE games[g] = None
    BY <1>1 DEF UpdatePlaytime, LibraryTypeOK, InSync
  <1>2. CASE games[g] # None
    <2> DEFINE longer == [games[g] EXCEPT !.played =
                            IF @ + elapsed > MaxPlay THEN MaxPlay ELSE @ + elapsed]
    <2>1. longer \in Entry
      BY <1>2, LibraryAssumption DEF LibraryTypeOK, Library, Entry
    <2>2. Update(g, longer)
      BY <1>2 DEF UpdatePlaytime
    <2> QED BY <2>1, <2>2, UpdateKeeps
  <1> QED BY <1>1, <1>2

LEMMA LoadKeeps ==
    ASSUME LibraryTypeOK, Load \/ LoadFails, UNCHANGED legacy
    PROVE  LibraryTypeOK' /\ InSync'
  <1>1. Empty \in Library
    BY DEF Empty, Library
  <1> QED BY <1>1 DEF Load, ImportLegacy, LoadFails, Save, LibraryTypeOK, InSync

\* While saves and loads work, a load brings back what was there.
LEMMA LoadRestores ==
    ASSUME LibraryTypeOK, InSync, Load, ~failed
    PROVE  games' = games
  BY NoneAssumption DEF Load, ImportLegacy, InSync, LibraryTypeOK, Empty

-----------------------------------------------------------------------------
(* Types.                                                                       *)

LEMMA InitType == Init => TypeInv /\ InSync
  <1> SUFFICES ASSUME Init PROVE TypeInv /\ InSync
    OBVIOUS
  <1>1. LibraryTypeOK /\ InSync
    BY DEF Init, LibraryTypeOK, InSync
  <1>2. folder \in [Games -> Folder \cup {None}]
    <2>1. ASSUME NEW g \in Games, legacy[g] # None PROVE legacy[g].version \in Versions
      BY <2>1 DEF Init, Library, Entry
    <2> QED BY <2>1 DEF Init, Folder
  <1> QED BY <1>1, <1>2, ClicksAssumption DEF Init, TypeInv, TypeOK, TimersCounted

LEMMA LaunchType ==
    ASSUME TypeOK, NEW g \in Games, LaunchGame(g)
    PROVE  running' \in [Games -> Nat] /\ outcomes' \in [Games -> Nat]
  BY DEF LaunchGame, TypeOK

\* The steps that leave the library alone.
LEMMA QuietType ==
    ASSUME TypeInv,
           \/ \E g \in Games : CheckAndLaunch(g) \/ Timeout(g) \/ Install(g) \/ UninstallFails(g)
           \/ \E g \in Games, v \in Versions : Publish(g, v)
           \/ Answered \/ AnswerLost \/ AnswerYes \/ AnswerNo
           \/ \E r \in downloads : Place(r) \/ GivenUp(r)
           \/ UNCHANGED vars
    PROVE  TypeInv' /\ UNCHANGED <<lib, legacy>>
  <1> USE DEF TypeInv, TypeOK, TimersCounted, LibraryTypeOK, lib, gui, disk
  <1>1. ASSUME NEW g \in Games, CheckAndLaunch(g) PROVE TypeInv' /\ UNCHANGED <<lib, legacy>>
    <2>1. timers[g] + 1 \in 0 .. MaxClicks /\ clicks[g] + 1 \in 0 .. MaxClicks
      <3>1. clicks[g] < MaxClicks
        BY <1>1 DEF CheckAndLaunch
      <3>2. timers[g] \in 0 .. MaxClicks /\ clicks[g] \in 0 .. MaxClicks /\ timers[g] <= clicks[g]
        OBVIOUS
      <3> HIDE DEF TypeInv
      <3> QED BY <3>1, <3>2, ClicksAssumption
    <2>2. timers' \in [Games -> 0 .. MaxClicks] /\ clicks' \in [Games -> 0 .. MaxClicks]
      BY <1>1, <2>1 DEF CheckAndLaunch
    <2>3. TimersCounted'
      BY <1>1, ClicksAssumption DEF CheckAndLaunch
    <2>4. checks' \in Seq(Games)
      BY <1>1 DEF CheckAndLaunch
    <2> QED BY <1>1, <2>2, <2>3, <2>4 DEF CheckAndLaunch
  <1>2. ASSUME NEW g \in Games, Timeout(g) PROVE TypeInv' /\ UNCHANGED <<lib, legacy>>
    <2>1. running' \in [Games -> Nat] /\ outcomes' \in [Games -> Nat]
      BY <1>2, LaunchType DEF Timeout
    <2>2. timers[g] - 1 \in 0 .. MaxClicks
      BY <1>2, ClicksAssumption DEF Timeout
    <2>3. timers' \in [Games -> 0 .. MaxClicks] /\ pendingUpdateCheck' \in Games \cup {None}
      BY <1>2, <2>2 DEF Timeout
    <2>4. TimersCounted'
      BY <1>2, ClicksAssumption DEF Timeout
    <2> QED BY <1>2, <2>1, <2>3, <2>4 DEF Timeout
  <1>3. ASSUME NEW g \in Games, Install(g) PROVE TypeInv' /\ UNCHANGED <<lib, legacy>>
    <2> DEFINE wanted == [game |-> g, version |-> served[g], package |-> g, placed |-> FALSE]
    <2>1. wanted \in Request
      BY DEF Request
    <2>2. downloads' \subseteq Request
      BY <1>3, <2>1 DEF Install, Enqueue
    <2> QED BY <1>3, <2>2 DEF Install
  <1>4. ASSUME NEW g \in Games, NEW v \in Versions, Publish(g, v)
        PROVE  TypeInv' /\ UNCHANGED <<lib, legacy>>
    BY <1>4 DEF Publish
  <1>5. CASE Answered
    <2>1. running' \in [Games -> Nat] /\ outcomes' \in [Games -> Nat]
      BY <1>5, LaunchType DEF Answered
    <2>2. Head(checks) \in Games /\ Tail(checks) \in Seq(Games)
      BY <1>5 DEF Answered
    <2>3. question' \in Request \cup {None}
      <3>1. CASE UNCHANGED question
        BY <3>1
      <3>2. CASE ~UNCHANGED question
        <4>1. pendingUpdateCheck \in Games /\ served[Head(checks)] \in Versions
          BY <1>5, <2>2, <3>2 DEF Answered
        <4>2. question' = [game |-> pendingUpdateCheck, version |-> served[Head(checks)],
                           package |-> Head(checks), placed |-> FALSE]
          BY <1>5, <3>2 DEF Answered
        <4> QED BY <2>2, <4>1, <4>2 DEF Request
      <3> QED BY <3>1, <3>2
    <2> QED BY <1>5, <2>1, <2>2, <2>3 DEF Answered
  <1>6. CASE AnswerLost
    BY <1>6 DEF AnswerLost
  <1>7. CASE AnswerYes
    <2>1. question \in Request
      BY <1>7 DEF AnswerYes
    <2>2. downloads' \subseteq Request
      BY <1>7, <2>1 DEF AnswerYes, Enqueue
    <2>3. outcomes' \in [Games -> Nat]
      BY <1>7, <2>1 DEF AnswerYes, Request
    <2> QED BY <1>7, <2>2, <2>3 DEF AnswerYes
  <1>8. CASE AnswerNo
    <2>1. question.game \in Games
      BY <1>8 DEF AnswerNo, Request
    <2>2. running' \in [Games -> Nat] /\ outcomes' \in [Games -> Nat]
      BY <1>8, <2>1, LaunchType DEF AnswerNo
    <2> QED BY <1>8, <2>2 DEF AnswerNo
  <1>9. ASSUME NEW r \in downloads, Place(r) PROVE TypeInv' /\ UNCHANGED <<lib, legacy>>
    <2>1. r \in Request
      OBVIOUS
    <2>2. [r EXCEPT !.placed = TRUE] \in Request
      BY <2>1 DEF Request
    <2>3. [package |-> r.package, version |-> r.version, marker |-> FALSE] \in Folder
      BY <2>1 DEF Request, Folder
    <2>4. downloads' \subseteq Request
      BY <1>9, <2>2 DEF Place
    <2>5. folder' \in [Games -> Folder \cup {None}]
      BY <1>9, <2>3 DEF Place
    <2> QED BY <1>9, <2>4, <2>5 DEF Place
  <1>10. ASSUME NEW r \in downloads, GivenUp(r) PROVE TypeInv' /\ UNCHANGED <<lib, legacy>>
    BY <1>10 DEF GivenUp
  <1>11. ASSUME NEW g \in Games, UninstallFails(g) PROVE TypeInv' /\ UNCHANGED <<lib, legacy>>
    <2>1. folder[g] \in Folder
      BY <1>11 DEF UninstallFails, HasMarker
    <2>2. folder' \in [Games -> Folder \cup {None}]
      <3>1. PICK marked \in BOOLEAN : folder' = [folder EXCEPT ![g] = [@ EXCEPT !.marker = marked]]
        BY <1>11 DEF UninstallFails
      <3>2. [folder[g] EXCEPT !.marker = marked] \in Folder
        BY <2>1 DEF Folder
      <3> QED BY <3>1, <3>2
    <2> QED BY <1>11, <2>2 DEF UninstallFails
  <1>12. CASE UNCHANGED vars
    BY <1>12 DEF vars
  <1> QED BY <1>1, <1>2, <1>3, <1>4, <1>5, <1>6, <1>7, <1>8, <1>9, <1>10, <1>11, <1>12

LEMMA NextType ==
    ASSUME TypeInv, InSync, [Next]_vars
    PROVE  TypeInv' /\ InSync'
  <1> USE DEF TypeInv, TypeOK, TimersCounted, gui, disk
  <1>1. CASE \/ \E g \in Games : CheckAndLaunch(g) \/ Timeout(g) \/ Install(g) \/ UninstallFails(g)
             \/ \E g \in Games, v \in Versions : Publish(g, v)
             \/ Answered \/ AnswerLost \/ AnswerYes \/ AnswerNo
             \/ \E r \in downloads : Place(r) \/ GivenUp(r)
             \/ UNCHANGED vars
    <2>1. TypeInv' /\ UNCHANGED <<lib, legacy>>
      BY <1>1, QuietType
    <2> QED BY <2>1 DEF lib, InSync
  <1>2. ASSUME NEW r \in downloads, Completed(r) PROVE TypeInv' /\ InSync'
    <2>1. r.game \in Games /\ r.version \in Versions
      BY DEF Request
    <2>2. LibraryTypeOK' /\ InSync'
      BY <1>2, <2>1, UpsertKeeps DEF Completed
    <2>3. folder' \in [Games -> Folder \cup {None}]
      <3>1. PICK marked \in BOOLEAN :
              folder' = [folder EXCEPT ![r.game] = IF @ = None THEN None ELSE [@ EXCEPT !.marker = marked]]
        BY <1>2 DEF Completed
      <3>2. folder[r.game] # None => [folder[r.game] EXCEPT !.marker = marked] \in Folder
        BY <2>1 DEF Folder
      <3> QED BY <2>1, <3>1, <3>2
    <2> QED BY <1>2, <2>2, <2>3 DEF Completed
  <1>3. ASSUME NEW g \in Games, Finished(g) PROVE TypeInv' /\ InSync'
    <2>1. LibraryTypeOK' /\ InSync'
      BY <1>3, PlaytimeKeeps DEF Finished
    <2> QED BY <1>3, <2>1 DEF Finished
  <1>4. ASSUME NEW g \in Games, ToggleFavorite(g) PROVE TypeInv' /\ InSync'
    <2>1. LibraryTypeOK' /\ InSync'
      BY <1>4, FavoriteKeeps DEF ToggleFavorite
    <2> QED BY <1>4, <2>1 DEF ToggleFavorite
  <1>5. ASSUME NEW g \in Games, Uninstall(g) PROVE TypeInv' /\ InSync'
    <2>1. LibraryTypeOK' /\ InSync'
      BY <1>5, ForgetKeeps DEF Uninstall
    <2> QED BY <1>5, <2>1 DEF Uninstall
  <1>6. CASE Restart
    <2>1. LibraryTypeOK' /\ InSync'
      BY <1>6, LoadKeeps DEF Restart
    <2> QED BY <1>6, <2>1, ClicksAssumption DEF Restart
  <1> QED BY <1>1, <1>2, <1>3, <1>4, <1>5, <1>6 DEF Next

\* Every variable keeps its type; the play time never passes its bound and no
\* more timers run than clicks were made.
THEOREM TypeCorrect == Spec => []TypeOK
  <1>1. TypeInv => TypeOK
    BY DEF TypeInv
  <1> QED BY <1>1, InitType, NextType, PTL DEF Spec

-----------------------------------------------------------------------------
(* Clicks.  Every step that takes a pending check or a question away turns it   *)
(* into the other or into one outcome.                                          *)

LEMMA NextClicks ==
    ASSUME TypeInv, EachClickOnce, [Next]_vars
    PROVE  EachClickOnce'
  <1> USE DEF EachClickOnce
  <1>t. /\ outcomes \in [Games -> Nat] /\ clicks \in [Games -> 0 .. MaxClicks]
        /\ pendingUpdateCheck \in Games \cup {None} /\ question \in Request \cup {None}
        /\ None \notin Games
    BY NoneAssumption DEF TypeInv, TypeOK
  <1>q. \A q \in Request : q # None /\ q.game \in Games
    BY NoRequestAssumption DEF Request
  <1>1. ASSUME NEW h \in Games, CheckAndLaunch(h) PROVE EachClickOnce'
    BY <1>1, <1>t, ClicksAssumption DEF CheckAndLaunch
  <1>2. ASSUME NEW h \in Games, Timeout(h) PROVE EachClickOnce'
    BY <1>2, <1>t, ClicksAssumption DEF Timeout, LaunchGame
  <1>3. ASSUME NEW h \in Games, Install(h) PROVE EachClickOnce'
    BY <1>3 DEF Install, gui
  <1>4. ASSUME NEW h \in Games, Finished(h) PROVE EachClickOnce'
    BY <1>4 DEF Finished, gui
  <1>5. ASSUME NEW h \in Games, ToggleFavorite(h) PROVE EachClickOnce'
    BY <1>5 DEF ToggleFavorite, gui
  <1>6. ASSUME NEW h \in Games, Uninstall(h) \/ UninstallFails(h) PROVE EachClickOnce'
    BY <1>6 DEF Uninstall, UninstallFails, gui
  <1>7. ASSUME NEW h \in Games, NEW v \in Versions, Publish(h, v) PROVE EachClickOnce'
    BY <1>7 DEF Publish, gui
  <1>8. CASE Answered
    <2> DEFINE h == pendingUpdateCheck
    <2>1. question = None /\ pendingUpdateCheck' = None /\ UNCHANGED clicks
      BY <1>8 DEF Answered
    <2>2. CASE UNCHANGED <<question, outcomes>>
      BY <1>t, <2>1, <2>2, ClicksAssumption
    <2>3. CASE h \in Games /\ LaunchGame(h) /\ UNCHANGED question
      BY <1>t, <2>1, <2>3, ClicksAssumption DEF LaunchGame
    <2>4. CASE h \in Games /\ question'.game = h /\ UNCHANGED outcomes
      BY <1>t, <2>1, <2>4, ClicksAssumption
    <2> QED BY <1>8, <2>2, <2>3, <2>4 DEF Answered
  <1>9. CASE AnswerLost
    BY <1>9 DEF AnswerLost
  <1>10. CASE AnswerYes
    BY <1>10, <1>t, <1>q, ClicksAssumption DEF AnswerYes
  <1>11. CASE AnswerNo
    BY <1>11, <1>t, <1>q, ClicksAssumption DEF AnswerNo, LaunchGame
  <1>12. ASSUME NEW r \in downloads, Place(r) \/ Completed(r) \/ GivenUp(r) PROVE EachClickOnce'
    BY <1>12 DEF Place, Completed, GivenUp, gui
  <1>13. CASE Restart
    BY <1>13, <1>t DEF Restart
  <1>14. CASE UNCHANGED vars
    BY <1>14 DEF vars
  <1> QED
    BY <1>1, <1>2, <1>3, <1>4, <1>5, <1>6, <1>7, <1>8, <1>9, <1>10, <1>11, <1>12, <1>13, <1>14
       DEF Next

\* Whatever becomes of its answer, its timer and the question, a click on play
\* leads to one launch or one update at most.
THEOREM OneOutcomePerClick == Spec => []EachClickOnce
  <1>1. Init => EachClickOnce
    <2> SUFFICES ASSUME Init, NEW g \in Games
                 PROVE  outcomes[g] + (IF pendingUpdateCheck = g THEN 1 ELSE 0)
                          + (IF question # None /\ question.game = g THEN 1 ELSE 0) <= clicks[g]
      BY DEF EachClickOnce
    <2>1. outcomes[g] = 0 /\ clicks[g] = 0 /\ pendingUpdateCheck # g /\ question = None
      BY NoneAssumption DEF Init
    <2> QED BY <2>1
  <1> QED BY <1>1, InitType, NextType, NextClicks, PTL DEF Spec

-----------------------------------------------------------------------------
(* Directories.                                                                 *)

\* A game has one request, and a package that is placed is the one its directory
\* holds, without a marker yet.  A question offers what is not placed.
PlacedIsThere ==
    /\ question # None => ~question.placed
    /\ \A r, s \in downloads : r.game = s.game => r = s
    /\ \A r \in downloads : r.placed =>
         folder[r.game] # None /\ ~folder[r.game].marker /\ folder[r.game].version = r.version

LEMMA NextPlaced ==
    ASSUME TypeInv, PlacedIsThere, [Next]_vars
    PROVE  PlacedIsThere'
  <1> USE DEF PlacedIsThere
  <1>t. downloads \subseteq Request /\ folder \in [Games -> Folder \cup {None}]
        /\ question \in Request \cup {None}
    BY DEF TypeInv, TypeOK
  <1>n. None \notin Folder /\ None \notin Request
    BY NoRequestAssumption
  <1>1. CASE UNCHANGED <<downloads, folder>> /\ question' \in {question, None}
    BY <1>1
  <1>2. ASSUME NEW q, ~q.placed, Enqueue(q), UNCHANGED folder, question' \in {question, None}
        PROVE  PlacedIsThere'
    BY <1>2 DEF Enqueue
  <1>3. ASSUME NEW r \in downloads, Place(r) PROVE PlacedIsThere'
    <2> DEFINE here == [r EXCEPT !.placed = TRUE]
    <2>1. here.game = r.game /\ here.version = r.version /\ r.game \in Games
      BY <1>t DEF Request
    <2>2. downloads' = (downloads \ {r}) \cup {here}
      BY <1>3 DEF Place
    <2>3. folder' = [folder EXCEPT ![r.game] =
                       [package |-> r.package, version |-> r.version, marker |-> FALSE]]
      BY <1>3 DEF Place
    <2>4. /\ folder'[r.game] = [package |-> r.package, version |-> r.version, marker |-> FALSE]
          /\ \A s \in downloads \ {r} : s.game \in Games /\ folder'[s.game] = folder[s.game]
      BY <1>t, <2>1, <2>3 DEF Request
    <2>5. folder'[r.game] \in Folder
      BY <1>t, <2>4 DEF Folder, Request
    <2>6. UNCHANGED question
      BY <1>3 DEF Place, gui
    <2>7. folder'[r.game] # None /\ ~folder'[r.game].marker /\ folder'[r.game].version = r.version
      <3>1. folder'[r.game] # None
        BY <1>n, <2>5
      <3>2. folder'[r.game].version = r.version
        BY <2>4
      <3>3. ~folder'[r.game].marker
        BY <2>4
      <3> QED BY <3>1, <3>2, <3>3
    <2>8. \A s \in downloads \ {r} : s.game # r.game
      OBVIOUS
    <2> HIDE DEF here
    <2> QED BY <2>1, <2>2, <2>4, <2>6, <2>7, <2>8
  <1>4. ASSUME NEW r \in downloads, Completed(r) PROVE PlacedIsThere'
    <2>1. downloads' = downloads \ {r}
      BY <1>4 DEF Completed
    <2>2. \A s \in downloads' : folder'[s.game] = folder[s.game]
      BY <1>4, <1>t, <2>1 DEF Completed, Request
    <2>3. UNCHANGED question
      BY <1>4 DEF Completed, gui
    <2> QED BY <2>1, <2>2, <2>3
  <1>5. ASSUME NEW r \in downloads, GivenUp(r) PROVE PlacedIsThere'
    BY <1>5 DEF GivenUp, gui
  <1>6. ASSUME NEW g \in Games, Uninstall(g) PROVE PlacedIsThere'
    BY <1>6, <1>t DEF Uninstall, HasMarker, Request, gui
  <1>7. CASE Restart
    BY <1>7 DEF Restart
  <1>12. ASSUME NEW g \in Games, UninstallFails(g) PROVE PlacedIsThere'
    <2>1. \A r \in downloads : r.placed => r.game # g
      BY <1>12 DEF UninstallFails, HasMarker
    <2> QED BY <1>12, <2>1, <1>t DEF UninstallFails, Request, gui
  <1>8. ASSUME NEW g \in Games, Install(g) PROVE PlacedIsThere'
    BY <1>2, <1>8 DEF Install, gui
  <1>9. CASE AnswerYes
    <2>1. CASE Enqueue(question)
      BY <1>2, <1>9, <2>1, <1>t DEF AnswerYes
    <2>2. CASE UNCHANGED downloads
      BY <1>9, <2>2 DEF AnswerYes, disk
    <2> QED BY <1>9, <2>1, <2>2 DEF AnswerYes
  <1>10. CASE Answered
    <2>1. question' \in {question, None} \/ (question' # None => ~question'.placed)
      BY <1>10 DEF Answered
    <2> QED BY <1>10, <2>1 DEF Answered, disk
  <1>11. CASE UNCHANGED <<downloads, folder, question>>
    BY <1>11
  <1> QED
    BY <1>3, <1>4, <1>5, <1>6, <1>7, <1>8, <1>9, <1>10, <1>11, <1>12, <1>1
       DEF Next, CheckAndLaunch, Timeout, Finished, ToggleFavorite, Publish, AnswerLost, AnswerNo,
           vars, gui, disk

-----------------------------------------------------------------------------
(* Steps of the library: what one of them may do to an entry.                   *)

\* Only a completed request changes a version or adds an entry, only a click a
\* favourite, and play time only grows.
EntryStep ==
    \A g \in Games :
        \/ games'[g] = games[g]
        \/ /\ games[g] # None /\ games'[g] # None
           /\ games'[g].version = games[g].version
           /\ games'[g].played >= games[g].played
           /\ games'[g].favorite # games[g].favorite => ToggleFavorite(g)
        \/ games'[g] = None /\ Uninstall(g)
        \/ \E r \in downloads :
             /\ Completed(r) /\ r.game = g
             /\ games'[g] # None /\ games'[g].version = r.version
             /\ games[g] # None =>
                  games'[g].played = games[g].played /\ games'[g].favorite = games[g].favorite

\* A completed request records its version and keeps what is known of the player.
LEMMA CompletedEntry ==
    ASSUME TypeInv, NEW r \in downloads, Completed(r)
    PROVE  /\ games'[r.game] # None /\ games'[r.game].version = r.version
           /\ games[r.game] # None => /\ games'[r.game].played = games[r.game].played
                                      /\ games'[r.game].favorite = games[r.game].favorite
           /\ \A h \in Games : h # r.game => games'[h] = games[h]
  <1> DEFINE g   == r.game
             new == IF games[g] = None THEN NewEntry(r.version)
                    ELSE [games[g] EXCEPT !.version = r.version]
  <1>1. g \in Games /\ r.version \in Versions /\ games \in Library
    BY DEF Request, TypeInv, TypeOK, LibraryTypeOK
  <1>2. games' = [games EXCEPT ![g] = new]
    BY DEF Completed, Upsert, Update
  <1>3. games[g] # None => games[g] \in Entry
    BY <1>1 DEF Library
  <1>4. new \in Entry /\ new.version = r.version
    BY <1>1, <1>3, EntryType DEF NewEntry, Entry
  <1>5. games[g] # None => new.played = games[g].played /\ new.favorite = games[g].favorite
    BY <1>3 DEF Entry
  <1> HIDE DEF new
  <1> QED BY <1>1, <1>2, <1>4, <1>5, NoneAssumption DEF Library

LEMMA NextEntries ==
    ASSUME TypeInv, InSync, Remembers, [Next]_vars
    PROVE  EntryStep
  <1>t. games \in Library /\ LibraryTypeOK /\ downloads \subseteq Request
    BY DEF TypeInv, TypeOK, LibraryTypeOK
  <1>e. \A g \in Games : games[g] # None => games[g] \in Entry
    BY <1>t DEF Library
  <1>n. None \notin Entry
    BY NoneAssumption
  <1>1. CASE UNCHANGED games
    BY <1>1 DEF EntryStep
  <1>2. ASSUME NEW h \in Games, Finished(h) PROVE EntryStep
    <2> PICK elapsed \in 0 .. 1 : UpdatePlaytime(h, elapsed)
      BY <1>2 DEF Finished
    <2>1. CASE games[h] = None
      BY <2>1, <1>1 DEF UpdatePlaytime
    <2>2. CASE games[h] # None
      <3> DEFINE longer == [games[h] EXCEPT !.played =
                              IF @ + elapsed > MaxPlay THEN MaxPlay ELSE @ + elapsed]
      <3>1. games' = [games EXCEPT ![h] = longer]
        BY <2>2 DEF UpdatePlaytime, Update
      <3>2. longer \in Entry /\ longer.version = games[h].version
            /\ longer.favorite = games[h].favorite /\ longer.played >= games[h].played
        BY <1>e, <2>2, LibraryAssumption DEF Entry
      <3> HIDE DEF longer
      <3> QED BY <1>t, <1>n, <2>2, <3>1, <3>2 DEF EntryStep, Library
    <2> QED BY <2>1, <2>2
  <1>3. ASSUME NEW h \in Games, ToggleFavorite(h) PROVE EntryStep
    <2> DEFINE marked == [games[h] EXCEPT !.favorite = ~@]
    <2>1. games[h] # None /\ games' = [games EXCEPT ![h] = marked]
      BY <1>3 DEF ToggleFavorite, SetFavorite, Update
    <2>2. marked \in Entry /\ marked.version = games[h].version /\ marked.played >= games[h].played
      <3>1. games[h] \in Entry /\ games[h].played \in Nat
        BY <1>e, <2>1, LibraryAssumption DEF Entry
      <3>2. marked \in Entry
        BY <3>1 DEF Entry
      <3>3. marked.version = games[h].version /\ marked.played = games[h].played
        BY <3>1 DEF Entry
      <3> HIDE DEF marked
      <3> QED BY <3>1, <3>2, <3>3
    <2> HIDE DEF marked
    <2> QED BY <1>3, <1>t, <1>n, <2>1, <2>2 DEF EntryStep, Library
  <1>4. ASSUME NEW h \in Games, Uninstall(h) PROVE EntryStep
    <2>1. games' = [games EXCEPT ![h] = None]
      BY <1>4 DEF Uninstall, Forget, Update
    <2> QED BY <1>4, <1>t, <2>1 DEF EntryStep, Library
  <1>5. ASSUME NEW r \in downloads, Completed(r) PROVE EntryStep
    BY <1>5, CompletedEntry DEF EntryStep
  <1>6. CASE Restart
    <2>1. Load /\ ~failed
      BY <1>6 DEF Remembers
    <2> QED BY <1>1, <1>t, <2>1, LoadRestores
  <1> QED
    BY <1>1, <1>2, <1>3, <1>4, <1>5, <1>6
       DEF Next, CheckAndLaunch, Timeout, Install, Publish, Answered, AnswerLost, AnswerYes,
           AnswerNo, Place, GivenUp, UninstallFails, vars, lib

\* Play time and favourites survive updates, restarts and whatever else happens
\* to a game short of removing it, as long as saves and loads work.
THEOREM PlayerDataStays == Spec => PlayerDataKept
  <1> DEFINE Kept == Remembers => \A g \in Games : games[g] # None /\ games'[g] # None =>
                       /\ games'[g].played >= games[g].played
                       /\ games'[g].favorite # games[g].favorite => ToggleFavorite(g)
  <1>1. TypeInv /\ InSync /\ [Next]_vars => Kept
    <2> SUFFICES ASSUME TypeInv, InSync, [Next]_vars, Remembers,
                        NEW g \in Games, games[g] # None, games'[g] # None
                 PROVE  /\ games'[g].played >= games[g].played
                        /\ games'[g].favorite # games[g].favorite => ToggleFavorite(g)
      OBVIOUS
    <2>1. games[g].played \in Nat
      BY LibraryAssumption DEF TypeInv, TypeOK, LibraryTypeOK, Library, Entry
    <2> QED BY <2>1, NextEntries DEF EntryStep
  <1>2. TypeInv /\ InSync /\ [Next]_vars => [Kept]_vars
    BY <1>1
  <1> QED BY <1>2, InitType, NextType, PTL DEF Spec, PlayerDataKept

\* A forgotten game does not come back but by a new installation, as long as
\* saves and loads work; that the launcher starts again is not enough.
THEOREM ForgottenStaysAway == Spec => OnlyDownloadsAdd
  <1> DEFINE Added == Remembers => \A g \in Games : games[g] = None /\ games'[g] # None =>
                        \E r \in downloads : r.game = g /\ r.placed
  <1>1. TypeInv /\ InSync /\ [Next]_vars => [Added]_vars
    BY NextEntries DEF EntryStep, Completed
  <1> QED BY <1>1, InitType, NextType, PTL DEF Spec, OnlyDownloadsAdd

\* No update, removal or restart leaves a directory with the launcher's marker
\* that the library does not know, or knows with another version, as long as
\* saves and loads work.
THEOREM NoStrayFolder == Spec => FoldersStayListed
  <1> DEFINE Listed == Remembers /\ OwnFoldersListed => OwnFoldersListed'
  <1>1. TypeInv /\ InSync /\ PlacedIsThere /\ [Next]_vars => Listed
    <2> SUFFICES ASSUME TypeInv, InSync, PlacedIsThere, [Next]_vars, Remembers, OwnFoldersListed,
                        NEW g \in Games, folder'[g] # None, folder'[g].marker
                 PROVE  games'[g] # None /\ games'[g].version = folder'[g].version
      BY DEF OwnFoldersListed
    <2> USE DEF OwnFoldersListed
    <2>t. downloads \subseteq Request /\ folder \in [Games -> Folder \cup {None}]
      BY DEF TypeInv, TypeOK
    <2>1. ASSUME NEW r \in downloads, Completed(r), r.game = g
          PROVE  games'[g] # None /\ games'[g].version = folder'[g].version
      <3>1. games'[g] # None /\ games'[g].version = r.version
        BY <2>1, CompletedEntry
      <3>2. folder[g] # None /\ folder[g].version = r.version
        BY <2>1 DEF PlacedIsThere, Completed
      <3>3. folder[g] \in Folder
        BY <2>t, <3>2
      <3>4. folder'[g].version = folder[g].version
        BY <2>1, <2>t, <3>2, <3>3 DEF Completed, Folder
      <3> QED BY <3>1, <3>2, <3>4
    <2>2. ASSUME NEW r \in downloads, Place(r), r.game = g PROVE FALSE
      <3>1. folder'[g] = [package |-> r.package, version |-> r.version, marker |-> FALSE]
        BY <2>2, <2>t DEF Place
      <3> QED BY <3>1
    <2>3. ASSUME Uninstall(g) PROVE FALSE
      BY <2>3, <2>t DEF Uninstall, HasMarker
    <2>5. CASE UninstallFails(g)
      <3>1. folder[g] \in Folder /\ folder[g].marker
        BY <2>5, <2>t DEF UninstallFails, HasMarker
      <3>2. folder[g] # None
        BY <3>1, NoRequestAssumption
      <3>3. folder'[g].version = folder[g].version /\ UNCHANGED games
        BY <2>5, <2>t, <3>1 DEF UninstallFails, Folder, lib
      <3> QED BY <3>1, <3>2, <3>3
    <2>4. CASE folder'[g] = folder[g]
      BY <2>1, <2>3, <2>4, NextEntries DEF EntryStep
    <2> QED
      BY <2>1, <2>2, <2>3, <2>4, <2>5, <2>t
         DEF Next, CheckAndLaunch, Timeout, Install, Finished, ToggleFavorite, Uninstall,
             UninstallFails, Publish,
             Answered, AnswerLost, AnswerYes, AnswerNo, Place, Completed, GivenUp, Restart, vars,
             disk
  <1>2. TypeInv /\ InSync /\ PlacedIsThere /\ [Next]_vars => [Listed]_vars
    BY <1>1
  <1>3. Init => PlacedIsThere
    BY DEF Init, PlacedIsThere
  <1> QED BY <1>2, <1>3, InitType, NextType, NextPlaced, PTL DEF Spec, FoldersStayListed
=============================================================================
