----------------------------- MODULE DetailPage -----------------------------
(* The page of a game: m_currentGameId, the record m_currentGame behind the     *)
(* install button, what the page shows, and the answers, timers and messages    *)
(* that move all three to another game.  An answer with details moves the page  *)
(* to the game it names, whichever game was opened since.                       *)
(*                                                                              *)
(* A user is logged in all the time.  An error, and the version of a game to be *)
(* launched, open a box inside onServerMessage(): clicks and further answers    *)
(* wait, timers go on.                                                          *)
EXTENDS Connection

CONSTANTS
    Games,
    None,           \* no game
    Lists,          \* what the list of the store may be: some of the sets of games
    MaxOpened,      \* bound: games opened by the user
    MaxReviews      \* bound: reviews sent

Details(g) == [cmd |-> "get_game_details", game |-> g]
Review(g) == [cmd |-> "submit_review", game |-> g]

ASSUME DetailAssumption ==
    /\ None \notin Games
    /\ Lists \subseteq SUBSET Games
    /\ Frames = [cmd : {"get_game_details", "submit_review"}, game : Games]
    /\ MaxPending \in Nat \ {0} /\ MaxOpened \in Nat /\ MaxReviews \in Nat

\* own: the user's review is among those that come with the details.
Answer ==
    [kind : {"details"}, game : Games, own : BOOLEAN]
        \cup [kind : {"review", "msg", "error"}, game : {None}, own : {FALSE}]

VARIABLES
    reviewed,   \* games the server has a review of the user for (external)
    inflight,   \* answers on their way (external)
    games,      \* the keys of m_games
    library,    \* installed games
    installing, \* games enqueued for download
    page,       \* the page is shown
    current,    \* m_currentGameId
    record,     \* the game m_currentGame is the record of
    shown,      \* the game whose name, pictures and reviews are displayed
    own,        \* the user's review is displayed
    unstarted,  \* history: the page is as an update left it that could not start
    box,        \* a box is open inside onServerMessage()
    timers,     \* 600 ms single shots running
    visits,     \* games opened so far
    sent,       \* reviews sent so far
    opened,     \* history: the game the user opened last, unless an update came since
    strayed,    \* history: details of another game were asked for since, by no click
    failed      \* history: games whose last request for details was lost or refused

answers == <<reviewed, inflight>>
store == <<games, library, installing>>
display == <<current, record, shown, own, unstarted>>
vars == <<link, answers, store, page, display, box, timers, visits, sent, opened, strayed, failed>>

TypeOK ==
    /\ LinkTypeOK
    /\ reviewed \subseteq Games
    /\ inflight \in Seq(Answer)
    /\ games \subseteq Games /\ library \subseteq Games /\ installing \subseteq Games
    /\ page \in BOOLEAN
    /\ {current, record, shown, opened} \subseteq Games \cup {None}
    /\ own \in BOOLEAN /\ unstarted \in BOOLEAN
    /\ box \in BOOLEAN
    /\ timers \in 0 .. MaxReviews /\ sent \in 0 .. MaxReviews /\ visits \in 0 .. MaxOpened
    /\ strayed \in BOOLEAN
    /\ failed \subseteq Games
    /\ page => current # None

-----------------------------------------------------------------------------
\* Details of the game are among the requests.
Asked(g, requests) == \E i \in DOMAIN requests : requests[i] = Details(g)

\* ... or answered, and not handled yet.
Answered(g, received) == \E i \in DOMAIN received : received[i].game = g

Awaited(g) == Asked(g, pending) \/ Asked(g, wire) \/ Answered(g, inflight)

\* Games whose last request leaves the queue, or the connection, in this step.
PushedOut == {g \in Games : Asked(g, pending) /\ ~Asked(g, pending')}
Taken == {g \in Games : Asked(g, wire) /\ ~Asked(g, wire')}

\* updateDetail()
Update(g, withOwn) ==
    /\ current' = g
    /\ record' = g
    /\ shown' = g
    /\ own' = withOwn
    /\ unstarted' = FALSE

\* Mutant: what the store knows is not asked for.
ShowGameDetailsCached(g) ==
    /\ page' = TRUE
    /\ \/ g \in games /\ Update(g, FALSE) /\ UNCHANGED link
       \/ g \notin games /\ current' = g /\ unstarted' = FALSE /\ UNCHANGED <<record, shown, own>> /\ Send(Details(g))
    /\ failed' = (failed \ {g}) \cup PushedOut

\* Mutant: only what the store does not know is displayed at once.
ShowGameDetailsQuietly(g) ==
    /\ page' = TRUE
    /\ \/ g \in games /\ Update(g, FALSE)
       \/ g \notin games /\ current' = g /\ unstarted' = FALSE /\ UNCHANGED <<record, shown, own>>
    /\ UNCHANGED link
    /\ failed' = failed \ {g}

\* showGameDetails(): of a game the store does not know, only the id changes.
ShowGameDetails(g) ==
    /\ page' = TRUE
    /\ \/ g \in games /\ Update(g, FALSE)
       \/ g \notin games /\ current' = g /\ unstarted' = FALSE /\ UNCHANGED <<record, shown, own>>
    /\ Send(Details(g))
    /\ failed' = (failed \ {g}) \cup PushedOut

Init ==
    /\ LinkInit
    /\ reviewed = {} /\ inflight = <<>>
    /\ games = {}
    /\ library \in SUBSET Games
    /\ installing = {}
    /\ page = FALSE
    /\ current = None /\ record = None /\ shown = None /\ own = FALSE
    /\ unstarted = FALSE
    /\ box = FALSE
    /\ timers = 0
    /\ visits = 0 /\ sent = 0
    /\ opened = None /\ strayed = FALSE /\ failed = {}

-----------------------------------------------------------------------------
(* Clicks.                                                                      *)

\* From the store, where a game that is not installed is shown, or from the menu
\* of the library.
Open(g) ==
    /\ ~box /\ ~page
    /\ g \in library \/ g \in games
    /\ visits < MaxOpened
    /\ visits' = visits + 1
    /\ ShowGameDetails(g)
    /\ opened' = g /\ strayed' = FALSE
    /\ UNCHANGED <<answers, store, box, timers, sent>>

\* Another page is chosen.
Leave ==
    /\ ~box /\ page
    /\ page' = FALSE /\ unstarted' = FALSE
    /\ UNCHANGED <<link, answers, store, current, record, shown, own, box, timers, visits, sent, opened, strayed, failed>>

\* The button of a game that is not installed: installCurrentGame(); without a
\* record, or with one that cannot be installed, there is only a message.
Install ==
    /\ ~box /\ page
    /\ current \notin library
    /\ record # None
    /\ installing' = installing \cup {current}
    /\ page' = FALSE /\ unstarted' = FALSE
    /\ UNCHANGED <<link, answers, games, library, current, record, shown, own, box, timers, visits, sent, opened, strayed, failed>>

\* Mutant: the page is not asked for again.
SubmitReviewOnly ==
    /\ ~box /\ page
    /\ sent < MaxReviews
    /\ sent' = sent + 1
    /\ Send(Review(current))
    /\ failed' = failed \cup PushedOut
    /\ UNCHANGED <<answers, store, page, display, box, timers, visits, opened, strayed>>

SubmitReview ==
    /\ ~box /\ page
    /\ sent < MaxReviews
    /\ sent' = sent + 1
    /\ Send(Review(current))
    /\ timers' = timers + 1
    /\ failed' = failed \cup PushedOut
    /\ UNCHANGED <<answers, store, page, display, box, visits, opened, strayed>>

\* Yes to the question of an update, the box of which OnVersion has opened.  If the
\* answer has no package or no program to start, installCurrentGame(true) only warns:
\* the page, if it is shown, still shows what it showed, and nothing asks for the game
\* that is current now.
AcceptUpdate(g) ==
    /\ ~box
    /\ g \in library
    /\ current' = g /\ record' = g
    /\ \/ /\ installing' = installing \cup {g}
          /\ page' = FALSE
          /\ unstarted' = FALSE /\ UNCHANGED box
       \/ /\ box' = TRUE /\ unstarted' = page
          /\ UNCHANGED <<installing, page>>
    /\ opened' = None
    /\ UNCHANGED <<link, answers, games, library, shown, own, timers, visits, sent, strayed, failed>>

\* Removal, from the menu of the library.
Uninstall(g) ==
    /\ ~box /\ ~page
    /\ g \in library
    /\ library' = library \ {g}
    /\ UNCHANGED <<link, answers, games, installing, page, display, box, timers, visits, sent, opened, strayed, failed>>

CloseBox ==
    /\ box
    /\ box' = FALSE
    /\ UNCHANGED <<link, answers, store, page, display, timers, visits, sent, opened, strayed, failed>>

-----------------------------------------------------------------------------
(* Events.                                                                      *)

\* A review brings the page of the game that is current by now.
ShowAgain ==
    /\ ShowGameDetails(current)
    /\ strayed' = (strayed \/ current # opened)

\* The 600 ms timer of submitReview().
Timer ==
    /\ timers > 0
    /\ timers' = timers - 1
    /\ ShowAgain
    /\ UNCHANGED <<answers, store, box, visits, sent, opened>>

Completed(g) ==
    /\ g \in installing
    /\ installing' = installing \ {g}
    /\ \/ library' = library \cup {g}
       \/ UNCHANGED library
    /\ UNCHANGED <<link, answers, games, page, display, box, timers, visits, sent, opened, strayed, failed>>

Connected ==
    /\ Connect(<<>>)
    /\ UNCHANGED <<answers, store, page, display, box, timers, visits, sent, opened, strayed, failed>>

\* What was read before a box was opened is not lost.
Disconnected ==
    /\ Lose
    /\ \E n \in 0 .. Len(inflight) :
          /\ n > 0 => box
          /\ inflight' = SubSeq(inflight, 1, n)
          /\ failed' = failed \cup Taken \cup
                {g \in Games : Answered(g, SubSeq(inflight, n + 1, Len(inflight)))}
    /\ UNCHANGED <<reviewed, store, page, display, box, timers, visits, sent, opened, strayed>>

\* The server has the details or not, takes the review or not, and its message
\* about it has the word Review or not.
ServerTakes ==
    LET f == Head(wire)
        reply(kind) == [kind |-> kind, game |-> None, own |-> FALSE]
    IN
    /\ Take
    /\ \/ f.cmd = "get_game_details" /\ UNCHANGED <<reviewed, failed>>
          /\ inflight' = Append(inflight, [kind |-> "details", game |-> f.game, own |-> f.game \in reviewed])
       \/ f.cmd = "submit_review" /\ reviewed' = reviewed \cup {f.game} /\ UNCHANGED failed
          /\ \E kind \in {"review", "msg"} : inflight' = Append(inflight, reply(kind))
       \/ UNCHANGED reviewed /\ failed' = failed \cup Taken
          /\ inflight' = Append(inflight, reply("error"))
    /\ UNCHANGED <<store, page, display, box, timers, visits, sent, opened, strayed>>

\* The list of the store comes, asked for by a login or a publication.
OnGames(listed) ==
    /\ online /\ ~box
    /\ games' = listed
    /\ UNCHANGED <<link, answers, library, installing, page, display, box, timers, visits, sent, opened, strayed, failed>>

\* The version of an installed game comes, asked for by checkAndLaunch(): the box is
\* the question of an update, or a warning of launchGame().
OnVersion ==
    /\ ~box
    /\ library # {}
    /\ box' = TRUE
    /\ UNCHANGED <<link, answers, store, page, display, timers, visits, sent, opened, strayed, failed>>

OnDetails ==
    /\ games' = games \cup {Head(inflight).game}
    /\ Update(Head(inflight).game, Head(inflight).own)
    /\ UNCHANGED <<link, page, box, strayed, failed>>

OnReview ==
    /\ \/ current # None /\ ShowAgain
       \/ current = None /\ UNCHANGED <<link, page, display, strayed, failed>>
    /\ UNCHANGED <<games, box>>

OnError ==
    /\ box' = TRUE
    /\ UNCHANGED <<link, games, page, display, strayed, failed>>

OnServerMessage ==
    /\ ~box
    /\ inflight # <<>>
    /\ inflight' = Tail(inflight)
    /\ CASE Head(inflight).kind = "details" -> OnDetails
         [] Head(inflight).kind = "review" -> OnReview
         [] Head(inflight).kind = "error" -> OnError
         [] Head(inflight).kind = "msg" -> UNCHANGED <<link, games, page, display, box, strayed, failed>>
    /\ UNCHANGED <<reviewed, library, installing, timers, visits, sent, opened>>

Next ==
    \/ \E g \in Games : Open(g)
    \/ Leave
    \/ Install
    \/ SubmitReview
    \/ \E g \in Games : AcceptUpdate(g)
    \/ \E g \in Games : Uninstall(g)
    \/ CloseBox
    \/ Timer
    \/ \E g \in Games : Completed(g)
    \/ Connected
    \/ Disconnected
    \/ ServerTakes
    \/ \E listed \in Lists : OnGames(listed)
    \/ OnVersion
    \/ OnServerMessage

Spec == Init /\ [][Next]_vars

-----------------------------------------------------------------------------
\* Nothing is on its way, and nothing will be asked for.
Quiet == pending = <<>> /\ wire = <<>> /\ inflight = <<>> /\ timers = 0

\* If the page shows another game than the one its buttons act on, or the install
\* button has another game's package, then the details that put it right are on
\* their way, or the last request for them was lost or refused.  Nothing puts the
\* page right after an accepted update that could not start.
MismatchIsAwaited ==
    /\ page /\ shown # current => Awaited(current) \/ current \in failed \/ unstarted
    /\ current # record => Awaited(current) \/ current \in failed

\* Late answers may move the page to games opened before, but it comes to rest at
\* the one opened last, unless a review has asked for another in between.
SettlesOnOpened ==
    page /\ Quiet /\ opened # None /\ ~strayed /\ opened \notin failed => current = opened

\* A page that has come to rest displays the user's own review.
SeesOwnReview == page /\ Quiet /\ failed = {} /\ shown \in reviewed => own
=============================================================================
