------------------------------- MODULE Session -------------------------------
(* Who is logged in, and what is kept of it: MainWindow's m_user, session and   *)
(* showLogin(), the login dialog and the stored credentials, with the requests  *)
(* and answers on their way.  Answers come in the order of the requests and     *)
(* name none of them.                                                           *)
(*                                                                              *)
(* An error, and the version of a game to be launched, open a box inside        *)
(* onServerMessage(), which is inside onReadyRead(): while the box is open      *)
(* buttons wait, the rest of what was read waits in held, and what arrives      *)
(* waits in unread until something else arrives, because Qt emits no readyRead  *)
(* inside readyRead.  Timers, the tray and the connection go on.                *)
EXTENDS Connection

CONSTANTS
    Users,          \* accounts
    Credentials,    \* user names with passwords; good: the server accepts them
    None,           \* no user, no credentials
    MaxIssued       \* bound: submissions and commands between two restarts

\* Every other command is Data, and so are the three of requestInitialData() together:
\* a full queue loses one frame to them where the code loses up to three.
Data == [cmd |-> "data", by |-> None]
Request == [cmd : {"login", "register"}, by : Credentials] \cup {Data}

\* An answer, and whose login or registration it answers.
Answer ==
    [kind : {"user", "error", "msg"}, to : Credentials]
        \cup [kind : {"data", "version", "error", "msg"}, to : {None}]

Login(c) == [cmd |-> "login", by |-> c]

ASSUME SessionAssumption ==
    /\ Credentials \subseteq [user : Users, good : BOOLEAN]
    /\ None \notin Users /\ None \notin Credentials
    /\ Frames = Request
    /\ MaxPending \in Nat \ {0} /\ MaxIssued \in Nat

VARIABLES
    inflight,   \* answers on their way (external)
    unread,     \* answers in the socket's buffer
    held,       \* answers read and not handled yet
    box,        \* a box is open inside onServerMessage()
    user,       \* m_user
    session,    \* m_sessionUsername and m_sessionPassword
    remember,   \* m_rememberSession
    stored,     \* the credentials in the registry
    dialog,     \* the login dialog is shown
    busy,       \* its controls are disabled
    window,     \* the main window is shown
    auto,       \* credentials of the running 250 ms timer
    issued,     \* submissions and commands so far
    lost,       \* history: the last login on its way was lost, and none followed
    accepted,   \* history: credentials of the last answer with a user
    saved,      \* history: the last credentials to be stored were
    loggedOut   \* history: logged out, and no login asked for since

answers == <<inflight, unread, held>>
login == <<user, session, remember, stored>>
windows == <<dialog, busy, window>>
history == <<lost, accepted, saved, loggedOut>>
vars == <<link, answers, box, login, windows, auto, issued, history>>

TypeOK ==
    /\ LinkTypeOK
    /\ inflight \in Seq(Answer) /\ unread \in Seq(Answer) /\ held \in Seq(Answer)
    /\ box \in BOOLEAN
    /\ user \in Users \cup {None}
    /\ session \in Credentials \cup {None}
    /\ remember \in BOOLEAN
    /\ stored \in Credentials \cup {None}
    /\ dialog \in BOOLEAN /\ busy \in BOOLEAN /\ window \in BOOLEAN
    /\ auto \in Credentials \cup {None}
    /\ issued \in 0 .. MaxIssued
    /\ lost \in BOOLEAN
    /\ accepted \in Credentials \cup {None}
    /\ saved \in BOOLEAN
    /\ loggedOut \in BOOLEAN

-----------------------------------------------------------------------------
\* A login or registration is waiting, sent, or answered and not handled.
Asks(requests) == \E i \in DOMAIN requests : requests[i].by # None
Replies(received) == \E i \in DOMAIN received : received[i].to # None
Checking == Asks(pending) \/ Asks(wire) \/ Replies(inflight) \/ Replies(unread) \/ Replies(held)

\* What a step that can lose requests or answers does to the history.
Losing == lost' = (lost \/ (Checking /\ ~Checking'))

\* No handler is running, or the running one is inside a box.
EventLoop == box \/ held = <<>>

\* The user can click.
Clickable == ~box /\ held = <<>>

\* SecureStore::loadCredentials(): nothing if Windows does not decrypt.
Loaded == {stored, None}

\* Mutant: what is not to be kept is not cleared either.
SaveRemembered(c) == stored' = (IF remember THEN c ELSE stored) /\ saved' = TRUE

\* saveCredentials() or clearCredentials(); None stands for the empty strings,
\* which are stored as such and load as nothing.
Save(c) ==
    \/ stored' = (IF remember THEN c ELSE None) /\ saved' = TRUE
    \/ remember /\ c # None /\ UNCHANGED stored /\ saved' = FALSE

\* showLogin() when there are no stored credentials, as after clearCredentials().
ShowLogin ==
    /\ dialog' = TRUE
    /\ busy' = FALSE
    /\ window' = FALSE

-----------------------------------------------------------------------------
\* The constructor: showLogin(), then connectToServer().
Init ==
    /\ LinkInit
    /\ inflight = <<>> /\ unread = <<>> /\ held = <<>>
    /\ box = FALSE
    /\ user = None
    /\ session = None
    /\ stored \in Credentials \cup {None}
    /\ auto \in Loaded
    /\ remember = (auto # None)
    /\ dialog = TRUE /\ busy = FALSE /\ window = FALSE
    /\ issued = 0
    /\ lost = FALSE
    /\ accepted = None
    /\ saved = TRUE
    /\ loggedOut = FALSE

-----------------------------------------------------------------------------
\* LoginDialog::submit(), then onLoginRequested() or onRegisterRequested().
Submit(cmd, c, keep) ==
    /\ Clickable
    /\ dialog /\ ~busy
    /\ issued < MaxIssued
    /\ issued' = issued + 1
    /\ busy' = TRUE
    /\ session' = c
    /\ remember' = keep
    /\ Send([cmd |-> cmd, by |-> c])
    /\ lost' = FALSE
    /\ loggedOut' = FALSE
    /\ UNCHANGED <<answers, box, user, stored, dialog, window, auto, accepted, saved>>

\* The 250 ms timer of showLogin().
AutoLogin ==
    /\ EventLoop
    /\ auto # None
    /\ auto' = None
    /\ IF user = None
       THEN /\ session' = auto
            /\ remember' = TRUE
            /\ Send(Login(auto))
            /\ lost' = FALSE
            /\ loggedOut' = FALSE
       ELSE UNCHANGED <<session, remember, link, lost, loggedOut>>
    /\ UNCHANGED <<answers, box, user, stored, windows, issued, accepted, saved>>

\* Mutant: the session's credentials survive.
LogoutKeepsSession ==
    /\ Clickable
    /\ window
    /\ stored' = None
    /\ user' = None
    /\ ShowLogin
    /\ accepted' = None
    /\ saved' = TRUE
    /\ loggedOut' = TRUE
    /\ UNCHANGED <<link, answers, box, session, remember, auto, issued, lost>>

\* MainWindow::logout(), a button of the main window.
Logout ==
    /\ Clickable
    /\ window
    /\ stored' = None
    /\ user' = None
    /\ session' = None
    /\ ShowLogin
    /\ accepted' = None
    /\ saved' = TRUE
    /\ loggedOut' = TRUE
    /\ UNCHANGED <<link, answers, box, remember, auto, issued, lost>>

\* Every other command: a click in the main window, or the announcement timer.
Command ==
    /\ EventLoop
    /\ (Clickable /\ window) \/ (user # None /\ online)
    /\ issued < MaxIssued
    /\ issued' = issued + 1
    /\ Send(Data)
    /\ UNCHANGED <<answers, box, login, windows, auto, accepted, saved, loggedOut>>
    /\ Losing

\* Mutant: pending frames wait for the next command.
ConnectedUnflushed ==
    /\ EventLoop
    /\ ~online
    /\ online' = TRUE
    /\ wire' = IF user # None /\ session # None THEN <<Login(session)>> ELSE <<>>
    /\ UNCHANGED pending
    /\ UNCHANGED <<answers, box, login, windows, auto, issued, history>>

\* onConnectionState(true), then the pending frames.
Connected ==
    /\ EventLoop
    /\ Connect(IF user # None /\ session # None THEN <<Login(session)>> ELSE <<>>)
    /\ UNCHANGED <<answers, box, login, windows, auto, issued, history>>

\* What was on its way in either direction is lost; what was read is not.
Disconnected ==
    /\ EventLoop
    /\ Lose
    /\ inflight' = <<>> /\ unread' = <<>>
    /\ UNCHANGED <<held, box, login, windows, auto, issued, accepted, saved, loggedOut>>
    /\ Losing

\* The server: a login by good credentials brings the user, a registration may,
\* and other commands, of which one may ask for the version of an installed game, are
\* answered as the server likes.
Kinds(r) ==
    CASE r.cmd = "login" -> IF r.by.good THEN {"user"} ELSE {"error"}
      [] r.cmd = "register" -> {"msg", "error"} \cup (IF r.by.good THEN {"user"} ELSE {})
      [] r.cmd = "data" -> {"data", "version", "msg", "error"}

ServerAnswers ==
    /\ EventLoop
    /\ Take
    /\ \E kind \in Kinds(Head(wire)) :
          inflight' = Append(inflight, [kind |-> kind, to |-> Head(wire).by])
    /\ UNCHANGED <<unread, held, box, login, windows, auto, issued, history>>

\* The first n answers arrive; onReadyRead() takes everything that is there.
Arrive(n) ==
    LET arrived == unread \o SubSeq(inflight, 1, n) IN
    /\ EventLoop
    /\ inflight' = SubSeq(inflight, n + 1, Len(inflight))
    /\ \/ box /\ unread' = arrived /\ UNCHANGED held
       \/ ~box /\ unread' = <<>> /\ held' = arrived
    /\ UNCHANGED <<link, box, login, windows, auto, issued, history>>

-----------------------------------------------------------------------------
(* onServerMessage(), by the kind of message.                                   *)

OnError ==
    /\ busy' = FALSE
    /\ box' = TRUE
    /\ accepted' = IF Head(held).to = None THEN accepted ELSE None
    /\ UNCHANGED <<link, login, dialog, window, lost, saved>>

\* The user is shown and requestInitialData() is sent.
OnUser ==
    /\ user' = Head(held).to.user
    /\ Save(session)
    /\ busy' = FALSE
    /\ dialog' = FALSE
    /\ window' = TRUE
    /\ Send(Data)
    /\ accepted' = Head(held).to
    /\ lost' = (lost \/ (Asks(pending) /\ ~Checking'))
    /\ UNCHANGED <<box, session, remember>>

\* Mutant: only errors and users free the dialog.
OnMsgBusy ==
    /\ accepted' = IF Head(held).to = None THEN accepted ELSE None
    /\ UNCHANGED <<link, box, login, dialog, busy, window, lost, saved>>

OnMsg ==
    /\ busy' = FALSE
    /\ accepted' = IF Head(held).to = None THEN accepted ELSE None
    /\ UNCHANGED <<link, box, login, dialog, window, lost, saved>>

\* The version that checkAndLaunch() asked for: the question of an update, or a warning
\* of launchGame() or installCurrentGame(), none of which frees the dialog; or the game
\* starts.  The launcher's own state is Launcher's.
OnVersion ==
    /\ box' \in BOOLEAN
    /\ UNCHANGED <<link, login, windows, lost, accepted, saved>>

\* Games, friends, announcements and the rest: other pages.
OnData == UNCHANGED <<link, box, login, windows, lost, accepted, saved>>

OnServerMessage ==
    /\ ~box
    /\ held # <<>>
    /\ held' = Tail(held)
    /\ UNCHANGED <<inflight, unread, auto, issued, loggedOut>>
    /\ CASE Head(held).kind = "error" -> OnError
         [] Head(held).kind = "user" -> OnUser
         [] Head(held).kind = "msg" -> OnMsg
         [] Head(held).kind = "version" -> OnVersion
         [] Head(held).kind = "data" -> OnData

\* Mutant: what was read with the box's message is dropped.
CloseBoxDrops ==
    /\ box
    /\ box' = FALSE
    /\ held' = <<>>
    /\ UNCHANGED <<link, inflight, unread, login, windows, auto, issued, history>>

\* The user closes the box: the handler returns.
CloseBox ==
    /\ box
    /\ box' = FALSE
    /\ UNCHANGED <<link, answers, login, windows, auto, issued, history>>

-----------------------------------------------------------------------------
\* The tray shows the main window whoever is logged in.
ShowWindow ==
    /\ EventLoop
    /\ ~window
    /\ window' = TRUE
    /\ UNCHANGED <<link, answers, box, login, dialog, busy, auto, issued, history>>

\* closeEvent(), with the tray.
CloseWindow ==
    /\ Clickable
    /\ window
    /\ window' = FALSE
    /\ UNCHANGED <<link, answers, box, login, dialog, busy, auto, issued, history>>

\* The dialog is closed while the main window is shown; otherwise that ends the
\* program.
CloseDialog ==
    /\ Clickable
    /\ dialog /\ window
    /\ dialog' = FALSE
    /\ UNCHANGED <<link, answers, box, login, busy, window, auto, issued, history>>

\* The program ends, by the tray, by closing its last window or otherwise, and
\* is started again.
Restart ==
    /\ online' = FALSE /\ pending' = <<>> /\ wire' = <<>>
    /\ inflight' = <<>> /\ unread' = <<>> /\ held' = <<>>
    /\ box' = FALSE
    /\ user' = None
    /\ session' = None
    /\ auto' \in Loaded
    /\ remember' = (auto' # None)
    /\ dialog' = TRUE /\ busy' = FALSE /\ window' = FALSE
    /\ issued' = 0
    /\ lost' = FALSE
    /\ accepted' = None
    /\ saved' = TRUE
    /\ loggedOut' = FALSE
    /\ UNCHANGED stored

Next ==
    \/ \E cmd \in {"login", "register"}, c \in Credentials, keep \in BOOLEAN : Submit(cmd, c, keep)
    \/ AutoLogin
    \/ Logout
    \/ Command
    \/ Connected
    \/ Disconnected
    \/ ServerAnswers
    \/ \E n \in 1 .. Len(inflight) : Arrive(n)
    \/ OnServerMessage
    \/ CloseBox
    \/ ShowWindow
    \/ CloseWindow
    \/ CloseDialog
    \/ Restart

Spec == Init /\ [][Next]_vars

\* The event loop runs, the user closes boxes, and the server answers.
FairSpec ==
    /\ Spec
    /\ WF_vars(OnServerMessage)
    /\ WF_vars(CloseBox)
    /\ WF_vars(ServerAnswers)
    /\ WF_vars(\E n \in 1 .. Len(inflight) : Arrive(n))

-----------------------------------------------------------------------------
\* While the dialog is busy the answer that will free it is on its way, unless it
\* was lost with a connection or pushed out of the full queue.
BusyHasCause == busy => Checking \/ lost

\* However automatic and submitted logins overlap: if the last of them that was
\* answered was accepted and is the session's, its user is logged in, and what is
\* stored is its credentials or nothing, as asked, unless storing failed.
AcceptedIsKept ==
    accepted # None /\ accepted = session =>
        /\ user = session.user
        /\ saved => stored = (IF remember THEN session ELSE None)

\* After a logout no credentials are stored until a login is asked for, whatever
\* answers to earlier requests come in.
LogoutForgets == loggedOut => stored = None

\* The answer came while the box of an update was open, and waits in the socket's buffer
\* until something else arrives: nothing else is due.
Stranded == ~box /\ held = <<>> /\ wire = <<>> /\ inflight = <<>> /\ Replies(unread)

\* A submission is answered while the connection lasts, also when boxes hold other
\* answers back, unless the answer is the last to come and came under such a box.
LoginEnds == (busy /\ online /\ ~lost) ~> (~busy \/ ~online \/ lost \/ Stranded)
=============================================================================
