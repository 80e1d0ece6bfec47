----------------------------- MODULE AdminPanel -----------------------------
(* The administration page: the list of games, the form that edits one of them, *)
(* the question before a deletion, and the requests that follow a change: for   *)
(* the list always, for the store after a publication, not after a deletion.    *)
(* The list and the form are two things: a new list clears the former and       *)
(* leaves the latter, and m_editingGameId says whose the form is.               *)
(*                                                                              *)
(* An administrator is logged in all the time, and nobody else publishes.       *)
EXTENDS Connection

CONSTANTS
    Games,
    Contents,       \* what the form holds of a game: name, version, URL, ...
    Icons,          \* icons and banners
    None,           \* no game, no icon
    MaxIssued       \* bound: visits of the page, publications and deletions

ASSUME AdminAssumption ==
    /\ None \notin Games /\ None \notin Contents /\ None \notin Icons
    /\ MaxPending \in Nat \ {0} /\ MaxIssued \in Nat

Game == [content : Contents, icon : Icons \cup {None}]
Catalogue == UNION {[S -> Game] : S \in SUBSET Games}

Request ==
    [cmd : {"login", "get_games", "get_dev_games", "delete_game"},
     game : Games \cup {None}, content : {None}, icon : {None}]
PublishRequest ==
    [cmd : {"publish_game"}, game : Games \cup {None}, content : Contents, icon : Icons \cup {None}]
Command == Request \cup PublishRequest

Plain(cmd) == [cmd |-> cmd, game |-> None, content |-> None, icon |-> None]

ASSUME FramesAssumption == Frames = Command

Answer == [kind : {"user"}] \cup [kind : {"games", "dev_games"}, games : Catalogue]

VARIABLES
    catalogue,  \* the server's games (external)
    inflight,   \* answers on their way (external)
    store,      \* m_games
    opened,     \* the page has been opened
    list,       \* the data of the items of m_adminGames
    item,       \* its current item
    editing,    \* m_editingGameId
    icon,       \* m_adminIconPath and m_adminBannerPath
    question,   \* the question before a deletion is open
    timers,     \* single shots running
    issued,     \* visits, publications and deletions so far
    lost,       \* history: something was lost since the page was last opened
    asked,      \* history: the game the question was opened for
    chosenFor   \* history: m_editingGameId when the icon was chosen

editor == <<item, editing, icon>>
vars == <<link, catalogue, inflight, store, opened, list, editor, question, timers, issued, lost, asked, chosenFor>>

TypeOK ==
    /\ LinkTypeOK
    /\ catalogue \in Catalogue
    /\ inflight \in Seq(Answer)
    /\ store \in Catalogue
    /\ opened \in BOOLEAN
    /\ list \in Catalogue
    /\ item \in Games \cup {None}
    /\ editing \in Games \cup {None}
    /\ icon \in Icons \cup {None}
    /\ question \in BOOLEAN
    /\ timers \in [{"publish", "delete"} -> 0 .. MaxIssued]
    /\ issued \in 0 .. MaxIssued
    /\ lost \in BOOLEAN
    /\ asked \in Games \cup {None}
    /\ chosenFor \in Games \cup {None}

-----------------------------------------------------------------------------
\* Several calls of sendCommand() in one handler.
Latest(frames) ==
    IF Len(frames) > MaxPending
    THEN SubSeq(frames, Len(frames) - MaxPending + 1, Len(frames))
    ELSE frames

SendAll(frames) ==
    /\ UNCHANGED online
    /\ wire' = IF online THEN wire \o frames ELSE wire
    /\ pending' = IF online THEN pending ELSE Latest(pending \o frames)

\* The same, and what it pushes out of the queue is lost.
SendCommands(frames) ==
    /\ SendAll(frames)
    /\ lost' = (lost \/ (~online /\ Len(pending) + Len(frames) > MaxPending))

\* clearAdminForm(): the list loses its selection, not its current item.
ClearAdminForm ==
    /\ editing' = None
    /\ icon' = None
    /\ chosenFor' = None
    /\ UNCHANGED item

Init ==
    /\ LinkInit
    /\ \E S \in SUBSET Games, c \in Contents :
          catalogue = [g \in S |-> [content |-> c, icon |-> None]]
    /\ inflight = <<>>
    /\ store = catalogue
    /\ opened = FALSE
    /\ list = [g \in {} |-> None]
    /\ item = None /\ editing = None /\ icon = None
    /\ question = FALSE
    /\ timers = [t \in {"publish", "delete"} |-> 0]
    /\ issued = 0
    /\ lost = FALSE
    /\ asked = None
    /\ chosenFor = None

-----------------------------------------------------------------------------
(* Clicks.  The question is modal.                                              *)

Click == opened /\ ~question

Issue == issued < MaxIssued /\ issued' = issued + 1

\* setCurrentPage(AdminPage), from the navigation.
OpenPage ==
    /\ ~question
    /\ Issue
    /\ opened' = TRUE
    /\ SendAll(<<Plain("get_dev_games")>>)
    /\ lost' = FALSE
    /\ UNCHANGED <<catalogue, inflight, store, list, editor, question, timers, asked, chosenFor>>

\* currentItemChanged() loads the other fields; a click on the current item is
\* none.
Select(g) ==
    /\ Click
    /\ g \in DOMAIN list
    /\ item # g
    /\ item' = g
    /\ editing' = g
    /\ UNCHANGED <<link, catalogue, inflight, store, opened, list, icon, question, timers, issued, lost, asked, chosenFor>>

\* The buttons that browse for an icon or a banner.
Browse(i) ==
    /\ Click
    /\ icon' = i
    /\ chosenFor' = editing
    /\ UNCHANGED <<link, catalogue, inflight, store, opened, list, item, editing, question, timers, issued, lost, asked>>

NewGame ==
    /\ Click
    /\ ClearAdminForm
    /\ UNCHANGED <<link, catalogue, inflight, store, opened, list, question, timers, issued, lost, asked>>

\* publishAdminGame(), with the fields as they were loaded and edited.  Without an
\* id the server makes a new game of it.
Publication(c) == [cmd |-> "publish_game", game |-> editing, content |-> c, icon |-> icon]

\* Mutant: nothing is asked for afterwards.
PublishAdminGameOnly(c) ==
    /\ Click
    /\ Issue
    /\ SendCommands(<<Publication(c)>>)
    /\ UNCHANGED <<catalogue, inflight, store, opened, list, editor, question, timers, asked, chosenFor>>

PublishAdminGame(c) ==
    /\ Click
    /\ Issue
    /\ SendCommands(<<Publication(c)>>)
    /\ timers' = [timers EXCEPT !["publish"] = @ + 1]
    /\ UNCHANGED <<catalogue, inflight, store, opened, list, editor, question, asked, chosenFor>>

Ask ==
    /\ Click
    /\ editing # None
    /\ question' = TRUE
    /\ asked' = editing
    /\ UNCHANGED <<link, catalogue, inflight, store, opened, list, editor, timers, issued, lost, chosenFor>>

Refuse ==
    /\ question
    /\ question' = FALSE
    /\ asked' = None
    /\ UNCHANGED <<link, catalogue, inflight, store, opened, list, editor, timers, issued, lost, chosenFor>>

\* The id is that of the moment of the answer.
Confirm ==
    /\ question
    /\ Issue
    /\ question' = FALSE
    /\ asked' = None
    /\ SendCommands(<<[Plain("delete_game") EXCEPT !.game = editing]>>)
    /\ timers' = [timers EXCEPT !["delete"] = @ + 1]
    /\ ClearAdminForm
    /\ UNCHANGED <<catalogue, inflight, store, opened, list>>

-----------------------------------------------------------------------------
(* Events.  They come while the question is open, too.                          *)

\* What the timers of a deletion (500 ms) and a publication (700 ms) ask for.
Refresh(t) ==
    IF t = "delete" THEN <<Plain("get_dev_games")>> ELSE <<Plain("get_dev_games"), Plain("get_games")>>

Timer(t) ==
    /\ timers[t] > 0
    /\ timers' = [timers EXCEPT ![t] = @ - 1]
    /\ SendCommands(Refresh(t))
    /\ UNCHANGED <<catalogue, inflight, store, opened, list, editor, question, issued, asked, chosenFor>>

\* The login of onConnectionState() goes first.
Connected ==
    /\ Connect(<<Plain("login")>>)
    /\ UNCHANGED <<catalogue, inflight, store, opened, list, editor, question, timers, issued, lost, asked, chosenFor>>

Disconnected ==
    /\ Lose
    /\ inflight' = <<>>
    /\ lost' = (lost \/ wire # <<>> \/ inflight # <<>>)
    /\ UNCHANGED <<catalogue, store, opened, list, editor, question, timers, issued, asked, chosenFor>>

\* The server keeps the icon when a publication has none, and changes only games
\* that it has.
Published(p, g) ==
    [h \in DOMAIN catalogue \cup {g} |->
        IF h # g THEN catalogue[h]
        ELSE [content |-> p.content,
              icon |-> IF p.icon = None /\ g \in DOMAIN catalogue THEN catalogue[g].icon ELSE p.icon]]

ServerTakes ==
    LET f == Head(wire) IN
    /\ Take
    /\ CASE f.cmd = "login" -> inflight' = Append(inflight, [kind |-> "user"]) /\ UNCHANGED catalogue
         [] f.cmd = "get_games" ->
              inflight' = Append(inflight, [kind |-> "games", games |-> catalogue]) /\ UNCHANGED catalogue
         [] f.cmd = "get_dev_games" ->
              inflight' = Append(inflight, [kind |-> "dev_games", games |-> catalogue]) /\ UNCHANGED catalogue
         [] f.cmd = "delete_game" ->
              catalogue' = [g \in DOMAIN catalogue \ {f.game} |-> catalogue[g]] /\ UNCHANGED inflight
         [] f.cmd = "publish_game" ->
              /\ UNCHANGED inflight
              /\ \/ \E g \in Games :
                       /\ IF f.game = None THEN g \notin DOMAIN catalogue ELSE g = f.game /\ g \in DOMAIN catalogue
                       /\ catalogue' = Published(f, g)
                 \/ UNCHANGED catalogue
    /\ UNCHANGED <<store, opened, list, editor, question, timers, issued, lost, asked, chosenFor>>

\* Mutant: the item that is current no more is read all the same.
RefreshAdminGamesUnchecked ==
    /\ list' = Head(inflight).games
    /\ item' = None
    /\ editing' = None
    /\ UNCHANGED <<link, store, icon, lost>>

\* refreshAdminGames(): the form stays as it is.
RefreshAdminGames ==
    /\ list' = Head(inflight).games
    /\ item' = None
    /\ UNCHANGED <<link, store, editing, icon, lost>>

RenderStore ==
    /\ store' = Head(inflight).games
    /\ UNCHANGED <<link, list, editor, lost>>

\* Mutant: nothing is asked for after a login.
RequestNothing == UNCHANGED <<link, store, list, editor, lost>>

RequestInitialData ==
    /\ SendCommands(<<Plain("get_games")>>)
    /\ UNCHANGED <<store, list, editor>>

OnServerMessage ==
    /\ inflight # <<>>
    /\ inflight' = Tail(inflight)
    /\ CASE Head(inflight).kind = "dev_games" -> RefreshAdminGames
         [] Head(inflight).kind = "games" -> RenderStore
         [] Head(inflight).kind = "user" -> RequestInitialData
    /\ UNCHANGED <<catalogue, opened, question, timers, issued, asked, chosenFor>>

Next ==
    \/ OpenPage
    \/ \E g \in Games : Select(g)
    \/ \E i \in Icons : Browse(i)
    \/ NewGame
    \/ \E c \in Contents : PublishAdminGame(c)
    \/ Ask
    \/ Refuse
    \/ Confirm
    \/ \E t \in {"publish", "delete"} : Timer(t)
    \/ Connected
    \/ Disconnected
    \/ ServerTakes
    \/ OnServerMessage

Spec == Init /\ [][Next]_vars

-----------------------------------------------------------------------------
\* Nothing is on its way, and nothing will be asked for.
Quiet == pending = <<>> /\ wire = <<>> /\ inflight = <<>> /\ \A t \in DOMAIN timers : timers[t] = 0

\* However publications, deletions, their timers and the answers overlap, the
\* list ends as what the server has, unless something was lost since the page was
\* opened: after a reconnection nobody asks for the list.
ListCatchesUp == opened /\ Quiet /\ ~lost => list = catalogue

\* The store has every game of the server as it is there whenever a connection
\* has nothing left to bring, whatever earlier connections lost.
StoreCatchesUp == online /\ Quiet => \A g \in DOMAIN catalogue : g \in DOMAIN store /\ store[g] = catalogue[g]

\* A list that comes while the question is open does not change what it is about.
DeletesWhatWasAsked == question => editing = asked /\ editing # None

\* An icon is published with the game it was chosen for.
IconOfItsGame == [][\A c \in Contents : PublishAdminGame(c) /\ icon # None => chosenFor = editing]_vars
=============================================================================
