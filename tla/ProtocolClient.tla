--------------------------- MODULE ProtocolClient ---------------------------
(* ProtocolClient (src/src/core/ProtocolClient.cpp) with what MainWindow does   *)
(* inside its signals: the login sent again when a connection is announced, and *)
(* the user taken from a message.  Command "login" is the login or registration *)
(* of a user, which keeps the name that the next login is sent with.            *)
(*                                                                              *)
(* abort() of a connected socket emits disconnected() before it returns; of a   *)
(* connecting one it emits nothing, and a refused connection emits only         *)
(* errorOccurred().  connectToServer() runs at the start, so m_wantConnection   *)
(* is TRUE from then on: disconnectFromServer() has no caller.  How long the    *)
(* timer runs (m_reconnectAttempt) is left out, and so is the return on an      *)
(* empty host or port 0: setServer() keeps the old host, the port is at least 1.*)
EXTENDS MessageCodec, FiniteSets

CONSTANTS
    MaxPending,     \* frames kept while off line (100)
    Answers,        \* payloads the server sends
    UserAnswer,     \* the one of them that carries the user
    Env,            \* what the surroundings may do, see Events
    MaxIssued,      \* bound: commands issued
    MaxAnswers      \* bound: answers on one connection

Events == {"refuse", "settings_online", "logout_offline"}

ASSUME ClientAssumption ==
    /\ MaxPending \in Nat \ {0} /\ MaxIssued \in Nat /\ MaxAnswers \in Nat
    /\ Answers \subseteq Bytes /\ UserAnswer \in Answers
    /\ Env \subseteq Events

\* The server sends no empty payload and none that is too large.
ASSUME AnswerAssumption == \A a \in Answers : Len(a) \in 1 .. MaxFrameSize

VARIABLES
    sock,       \* m_socket.state()
    timer,      \* m_reconnectTimer.isActive()
    pending,    \* m_pendingFrames
    buffer,     \* m_codec's m_buffer
    user,       \* MainWindow::m_user is not empty
    session,    \* MainWindow::m_sessionUsername is not empty
    issued,     \* commands issued so far
    wire,       \* frames written on the last connection
    said,       \* answers the server has sent on it (external)
    inflight,   \* bytes of them that have not been read
    got         \* messages emitted on it

outgoing == <<pending, issued, wire>>
incoming == <<buffer, said, inflight, got>>
account == <<user, session>>
vars == <<sock, timer, pending, buffer, user, session, issued, wire, said, inflight, got>>

\* Signed in, with a name to sign in again: after a log-out, a late answer brings
\* the user back without one.
SignedIn == user /\ session

\* The no-th command, and whether the user was signed in when it was issued.
Frame == [no : Nat, cmd : {"login", "other"}, signedIn : BOOLEAN]

\* The login that onConnectionState() sends by itself.
Relogin == [no |-> 0, cmd |-> "login", signedIn |-> FALSE]

TypeOK ==
    /\ sock \in {"unconnected", "connecting", "connected"}
    /\ timer \in BOOLEAN
    /\ pending \in Seq(Frame) /\ Len(pending) <= MaxPending
    /\ buffer \in Bytes
    /\ user \in BOOLEAN /\ session \in BOOLEAN
    /\ issued \in Nat
    /\ wire \in Seq(Frame)
    /\ said \in Seq(Answers)
    /\ inflight \in Bytes
    /\ got \in Seq(Bytes)

\* MainWindow's constructor has called connectToServer().
Init ==
    /\ sock = "connecting"
    /\ timer = FALSE
    /\ pending = <<>>
    /\ buffer = <<>>
    /\ user = FALSE /\ session = FALSE
    /\ issued = 0
    /\ wire = <<>>
    /\ said = <<>>
    /\ inflight = <<>>
    /\ got = <<>>

-----------------------------------------------------------------------------
\* Mutant: the codec keeps the end of the old connection.
OnDisconnectedUncleared == timer' = TRUE /\ UNCHANGED buffer

\* onDisconnected(), ending in scheduleReconnect().
OnDisconnected == timer' = TRUE /\ buffer' = <<>>

\* abort() and connectToHost(), while the timer is stopped.
Reopen ==
    /\ sock' = "connecting"
    /\ IF sock = "connected" THEN OnDisconnected ELSE timer' = FALSE /\ UNCHANGED buffer

\* Settings are saved.
ConnectToServer ==
    /\ sock = "connected" => "settings_online" \in Env
    /\ Reopen
    /\ UNCHANGED <<account, outgoing, said, inflight, got>>

\* reconnect(), when the single-shot timer has run out.
Reconnect ==
    /\ timer
    /\ Reopen
    /\ UNCHANGED <<account, outgoing, said, inflight, got>>

\* Mutant: the bound is forgotten.
EnqueueAlways(f) == Append(pending, f)

\* Mutant: the newest frame is dropped when the queue is full.
EnqueueUnlessFull(f) == IF Len(pending) >= MaxPending THEN pending ELSE Append(pending, f)

\* The oldest frame makes room for the newest.
Enqueue(f) == Append(IF Len(pending) >= MaxPending THEN Tail(pending) ELSE pending, f)

\* Mutant: the timer is armed without looking at the socket.
SendCommandArms(cmd) ==
    LET f == [no |-> issued + 1, cmd |-> cmd, signedIn |-> SignedIn] IN
    /\ issued < MaxIssued
    /\ issued' = issued + 1
    /\ session' = (session \/ cmd = "login")
    /\ \/ sock = "connected" /\ wire' = Append(wire, f) /\ UNCHANGED <<pending, timer>>
       \/ sock # "connected" /\ pending' = Enqueue(f) /\ timer' = TRUE /\ UNCHANGED wire
    /\ UNCHANGED <<sock, user, incoming>>

\* Mutant: a command sent off line waits for a connection to come by itself.
SendCommandQuietly(cmd) ==
    LET f == [no |-> issued + 1, cmd |-> cmd, signedIn |-> SignedIn] IN
    /\ issued < MaxIssued
    /\ issued' = issued + 1
    /\ session' = (session \/ cmd = "login")
    /\ \/ sock = "connected" /\ wire' = Append(wire, f) /\ UNCHANGED pending
       \/ sock # "connected" /\ pending' = Enqueue(f) /\ UNCHANGED wire
    /\ UNCHANGED <<sock, timer, user, incoming>>

SendCommand(cmd) ==
    LET f == [no |-> issued + 1, cmd |-> cmd, signedIn |-> SignedIn] IN
    /\ issued < MaxIssued
    /\ issued' = issued + 1
    /\ session' = (session \/ cmd = "login")
    /\ \/ /\ sock = "connected"
          /\ wire' = Append(wire, f)
          /\ UNCHANGED <<pending, timer>>
       \/ /\ sock # "connected"
          /\ pending' = Enqueue(f)
          /\ timer' = (timer \/ sock = "unconnected")
          /\ UNCHANGED wire
    /\ UNCHANGED <<sock, user, incoming>>

\* Mutant: the pending frames go out before the connection is announced.
FirstFramesFlushed == pending \o (IF SignedIn THEN <<Relogin>> ELSE <<>>)

\* What onConnected() writes: connectionStateChanged(true) comes first.
FirstFrames == (IF SignedIn THEN <<Relogin>> ELSE <<>>) \o pending

\* Mutant: pending frames wait for the next command.
OnConnectedUnflushed ==
    /\ sock = "connecting"
    /\ sock' = "connected"
    /\ wire' = FirstFrames
    /\ said' = <<>> /\ inflight' = <<>> /\ got' = <<>>
    /\ UNCHANGED <<timer, buffer, account, issued, pending>>

OnConnected ==
    /\ sock = "connecting"
    /\ sock' = "connected"
    /\ wire' = FirstFrames
    /\ pending' = <<>>
    /\ said' = <<>> /\ inflight' = <<>> /\ got' = <<>>
    /\ UNCHANGED <<timer, buffer, account, issued>>

\* errorOccurred() of a connection that was refused or timed out.
OnSocketError ==
    /\ "refuse" \in Env
    /\ sock = "connecting"
    /\ sock' = "unconnected"
    /\ UNCHANGED <<timer, account, outgoing, incoming>>

\* The server or the network ends the connection.
ConnectionLost ==
    /\ sock = "connected"
    /\ sock' = "unconnected"
    /\ OnDisconnected
    /\ UNCHANGED <<account, outgoing, said, inflight, got>>

\* The server answers; a user only to a login.
ServerSends(a) ==
    /\ sock = "connected"
    /\ Len(said) < MaxAnswers
    /\ a = UserAnswer => \E i \in DOMAIN wire : wire[i].cmd = "login"
    /\ said' = Append(said, a)
    /\ inflight' = inflight \o Encode(a)
    /\ UNCHANGED <<sock, timer, buffer, account, outgoing, got>>

\* onReadyRead() with the first n bytes of what is on its way.
OnReadyRead(n) ==
    LET result == Parse[buffer \o SubSeq(inflight, 1, n)] IN
    /\ sock = "connected"
    /\ inflight' = SubSeq(inflight, n + 1, Len(inflight))
    /\ buffer' = result.rest
    /\ got' = got \o result.messages
    /\ user' = (user \/ Contains(result.messages, UserAnswer))
    /\ UNCHANGED <<sock, timer, session, outgoing, said>>

\* MainWindow::logout().
Logout ==
    /\ user
    /\ sock = "connected" \/ "logout_offline" \in Env
    /\ user' = FALSE /\ session' = FALSE
    /\ UNCHANGED <<sock, timer, outgoing, incoming>>

Next ==
    \/ ConnectToServer
    \/ Reconnect
    \/ \E cmd \in {"login", "other"} : SendCommand(cmd)
    \/ OnConnected
    \/ OnSocketError
    \/ ConnectionLost
    \/ \E a \in Answers : ServerSends(a)
    \/ \E n \in 1 .. Len(inflight) : OnReadyRead(n)
    \/ Logout

Spec == Init /\ [][Next]_vars

\* The timer runs out, and a connection attempt ends: Qt gives it up by itself.
FairSpec == Spec /\ WF_vars(Reconnect) /\ WF_vars(OnConnected \/ OnSocketError)

-----------------------------------------------------------------------------
\* Commands are written in the order they were issued, each at most once,
\* and the ones kept while off line are the latest: none is overtaken by a
\* command written directly, and a full queue gives up the oldest.
CommandsInOrder ==
    LET sent == wire \o pending IN
    /\ \A i, j \in DOMAIN sent :
           i < j /\ sent[i] # Relogin /\ sent[j] # Relogin => sent[i].no < sent[j].no
    /\ \A i \in DOMAIN pending : pending[i].no = issued - Len(pending) + i

\* A command issued by a signed-in user goes out on a connection on which a login
\* went out before it, also after the connection was lost and made again.  A user
\* whom a late answer brought back after a log-out has no name to sign in with, and
\* onConnectionState() sends nothing for it: its commands may follow no login.
CommandsFollowLogin ==
    \A i \in DOMAIN wire : wire[i].signedIn =>
        \E j \in 1 .. i - 1 : wire[j].cmd = "login"

\* However TCP cuts the stream and whenever connections end, what was emitted is
\* the objects among the server's complete frames, and the codec has the rest.
MessagesInOrder ==
    sock = "connected" =>
        \E n \in 0 .. Len(said) :
            LET unread == SubSeq(said, n + 1, Len(said)) IN
            /\ got = Objects(SubSeq(said, 1, n))
            /\ buffer \o inflight = Stream(unread)
            /\ unread # <<>> => Len(buffer) < Len(Encode(Head(unread)))

\* Once the client has announced that it is on line, only the network, the server
\* or the user end the connection: no reconnection is due.
OnlineIsKept == sock = "connected" => ~timer

\* Nothing will reconnect by itself.
Idle == sock = "unconnected" /\ ~timer

\* Only a refused attempt leaves the client idle, and a command sent while it is
\* idle makes it try again.
IdleOnlyWhenRefused == [][Idle' => OnSocketError \/ (Idle /\ UNCHANGED issued)]_vars

\* What was sent off line goes out, or an attempt was refused after it.
PendingGoesOutOrIdle == pending # <<>> ~> (pending = <<>> \/ Idle)

\* What the rest of the launcher relies on: one connection at a time, a queue of
\* the latest commands while there is none, and the login first on a new one.
Promised == INSTANCE Connection WITH
    Frames <- [no : 1 .. MaxIssued, cmd : {"login", "other"}, signedIn : BOOLEAN] \cup {Relogin},
    Greetings <- {<<>>, <<Relogin>>},
    online <- sock = "connected",
    wire <- IF sock = "connected" THEN wire ELSE <<>>

\* The client implements it, however sockets and timers behave.
KeepsPromise == Promised!LinkSpec
=============================================================================
