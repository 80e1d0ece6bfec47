------------------------ MODULE ProtocolClientProofs ------------------------
(* When the client reconnects, in which order commands are written, and that    *)
(* what is emitted is what the server has sent, for any bounds, answers and     *)
(* surroundings.                                                                *)
EXTENDS ProtocolClient, SequenceTheorems, WellFoundedInduction, TLAPS

\* The timer runs only while nothing is open.
TimerOffLine == timer => sock = "unconnected"

LEMMA InitTimer == Init => TimerOffLine
  BY DEF Init, TimerOffLine

LEMMA NextTimer ==
    ASSUME "settings_online" \notin Env, TimerOffLine, [Next]_vars
    PROVE  TimerOffLine'
  <1> USE DEF TimerOffLine
  <1>1. CASE ConnectToServer
    BY <1>1 DEF ConnectToServer, Reopen
  <1>2. CASE Reconnect
    BY <1>2 DEF Reconnect, Reopen
  <1>3. ASSUME NEW cmd \in {"login", "other"}, SendCommand(cmd) PROVE TimerOffLine'
    BY <1>3 DEF SendCommand
  <1>4. CASE OnConnected
    BY <1>4 DEF OnConnected
  <1>5. CASE OnSocketError
    BY <1>5 DEF OnSocketError
  <1>6. CASE ConnectionLost
    BY <1>6 DEF ConnectionLost
  <1>7. ASSUME NEW a \in Answers, ServerSends(a) PROVE TimerOffLine'
    BY <1>7 DEF ServerSends
  <1>8. ASSUME NEW n \in 1 .. Len(inflight), OnReadyRead(n) PROVE TimerOffLine'
    BY <1>8 DEF OnReadyRead
  <1>9. CASE Logout
    BY <1>9 DEF Logout
  <1>10. CASE UNCHANGED vars
    BY <1>10 DEF vars
  <1> QED
    BY <1>1, <1>2, <1>3, <1>4, <1>5, <1>6, <1>7, <1>8, <1>9, <1>10 DEF Next

\* Unless settings are saved on line no reconnection is due while connected,
\* whatever is sent and however connections fail.
THEOREM KeepsOnline ==
    ASSUME "settings_online" \notin Env
    PROVE  Spec => []OnlineIsKept
  <1>1. Init => TimerOffLine
    BY InitTimer
  <1>2. TimerOffLine /\ [Next]_vars => TimerOffLine'
    BY NextTimer
  <1>3. TimerOffLine => OnlineIsKept
    BY DEF TimerOffLine, OnlineIsKept
  <1> QED BY <1>1, <1>2, <1>3, PTL DEF Spec

\* Only a refused attempt leaves the client with nothing that will reconnect,
\* and the next command ends that, whatever the surroundings do.
THEOREM IdleNeedsRefusal == Spec => IdleOnlyWhenRefused
  <1> DEFINE Allowed == Idle' => OnSocketError \/ (Idle /\ UNCHANGED issued)
  <1>1. Next => Allowed
    <2>1. ConnectToServer \/ Reconnect => Allowed
      BY DEF ConnectToServer, Reconnect, Reopen, Idle
    <2>2. ASSUME NEW cmd \in {"login", "other"}, SendCommand(cmd) PROVE Allowed
      BY <2>2 DEF SendCommand, Idle
    <2>3. OnConnected => Allowed
      BY DEF OnConnected, Idle
    <2>4. ConnectionLost => Allowed
      BY DEF ConnectionLost, OnDisconnected, Idle
    <2>5. ASSUME NEW a \in Answers, ServerSends(a) PROVE Allowed
      BY <2>5 DEF ServerSends, Idle
    <2>6. ASSUME NEW n \in 1 .. Len(inflight), OnReadyRead(n) PROVE Allowed
      BY <2>6 DEF OnReadyRead, Idle
    <2>7. Logout => Allowed
      BY DEF Logout, Idle, outgoing
    <2> QED BY <2>1, <2>2, <2>3, <2>4, <2>5, <2>6, <2>7 DEF Next
  <1>2. [Next]_vars => [Allowed]_vars
    BY <1>1
  <1> QED BY <1>2, PTL DEF Spec, IdleOnlyWhenRefused

-----------------------------------------------------------------------------
(* The state that commands pass through.                                        *)

\* The state that commands pass through has its type.
OutgoingInv ==
    /\ sock \in {"unconnected", "connecting", "connected"}
    /\ timer \in BOOLEAN
    /\ user \in BOOLEAN /\ session \in BOOLEAN
    /\ issued \in Nat
    /\ pending \in Seq(Frame) /\ Len(pending) <= MaxPending
    /\ wire \in Seq(Frame)
    /\ sock = "connected" => pending = <<>>

LEMMA InitOutgoing == Init => OutgoingInv
  <1>1. <<>> \in Seq(Frame) /\ Len(<<>>) = 0 /\ 0 <= MaxPending
    BY ClientAssumption
  <1> SUFFICES ASSUME Init PROVE OutgoingInv
    OBVIOUS
  <1>2. pending = <<>> /\ wire = <<>>
    BY DEF Init
  <1>3. pending \in Seq(Frame) /\ Len(pending) <= MaxPending /\ wire \in Seq(Frame)
    BY <1>1, <1>2
  <1> QED BY <1>2, <1>3 DEF Init, OutgoingInv

LEMMA ReloginType == Relogin \in Frame
  BY DEF Relogin, Frame

LEMMA EnqueueType ==
    ASSUME OutgoingInv, NEW f \in Frame
    PROVE  Enqueue(f) \in Seq(Frame) /\ Len(Enqueue(f)) <= MaxPending
  <1>1. CASE Len(pending) >= MaxPending
    <2>1. pending # <<>> /\ Len(pending) = MaxPending
      BY <1>1, ClientAssumption DEF OutgoingInv
    <2>2. Tail(pending) \in Seq(Frame) /\ Len(Tail(pending)) = MaxPending - 1
      BY <2>1, HeadTailProperties DEF OutgoingInv
    <2>3. Enqueue(f) = Append(Tail(pending), f)
      BY <1>1 DEF Enqueue
    <2> QED BY <2>2, <2>3, ClientAssumption
  <1>2. CASE ~(Len(pending) >= MaxPending)
    <2>1. Enqueue(f) = Append(pending, f)
      BY <1>2 DEF Enqueue
    <2> QED BY <1>2, <2>1, ClientAssumption DEF OutgoingInv
  <1> QED BY <1>1, <1>2

LEMMA NextOutgoing ==
    ASSUME OutgoingInv, [Next]_vars
    PROVE  OutgoingInv'
  <1> USE DEF OutgoingInv
  <1>1. CASE ConnectToServer \/ Reconnect
    BY <1>1 DEF ConnectToServer, Reconnect, Reopen, OnDisconnected, outgoing, account
  <1>2. ASSUME NEW cmd \in {"login", "other"}, SendCommand(cmd) PROVE OutgoingInv'
    <2> DEFINE f == [no |-> issued + 1, cmd |-> cmd, signedIn |-> SignedIn]
    <2>1. f \in Frame
      BY DEF Frame, SignedIn
    <2> HIDE DEF f
    <2>4. session' \in BOOLEAN
      BY <1>2 DEF SendCommand
    <2>2. CASE sock = "connected"
      <3>1. /\ wire' = Append(wire, f) /\ issued' = issued + 1
            /\ UNCHANGED <<sock, timer, user, pending>>
        BY <1>2, <2>2 DEF SendCommand, f
      <3> QED BY <2>1, <2>4, <3>1
    <2>3. CASE sock # "connected"
      <3>1. pending' = Enqueue(f) /\ UNCHANGED <<sock, user, wire>> /\ issued' = issued + 1
            /\ timer' \in BOOLEAN
        BY <1>2, <2>3 DEF SendCommand, f
      <3> QED BY <2>1, <2>3, <2>4, <3>1, EnqueueType
    <2> QED BY <2>2, <2>3
  <1>3. CASE OnConnected
    <2>1. FirstFrames \in Seq(Frame)
      BY ReloginType DEF FirstFrames
    <2> QED BY <1>3, <2>1, ClientAssumption DEF OnConnected, account
  <1>4. CASE OnSocketError \/ ConnectionLost
    BY <1>4 DEF OnSocketError, ConnectionLost, OnDisconnected, outgoing, account
  <1>5. ASSUME NEW a \in Answers, ServerSends(a) PROVE OutgoingInv'
    BY <1>5 DEF ServerSends, outgoing, account
  <1>6. ASSUME NEW n \in 1 .. Len(inflight), OnReadyRead(n) PROVE OutgoingInv'
    BY <1>6 DEF OnReadyRead, outgoing
  <1>7. CASE Logout
    BY <1>7 DEF Logout, outgoing
  <1>8. CASE UNCHANGED vars
    BY <1>8 DEF vars
  <1> QED BY <1>1, <1>2, <1>3, <1>4, <1>5, <1>6, <1>7, <1>8 DEF Next

-----------------------------------------------------------------------------
(* The client implements Connection.                                            *)

CountInv == issued \in 0 .. MaxIssued

LEMMA InitCount == Init => CountInv
  BY ClientAssumption DEF Init, CountInv

LEMMA NextCount ==
    ASSUME CountInv, [Next]_vars
    PROVE  CountInv'
  <1>1. ASSUME NEW cmd \in {"login", "other"}, SendCommand(cmd) PROVE CountInv'
    BY <1>1, ClientAssumption DEF SendCommand, CountInv
  <1>2. CASE UNCHANGED issued
    BY <1>2 DEF CountInv
  <1>3. Next => UNCHANGED issued \/ \E cmd \in {"login", "other"} : SendCommand(cmd)
    BY DEF Next, ConnectToServer, Reconnect, OnConnected, OnSocketError, ConnectionLost,
           ServerSends, OnReadyRead, Logout, outgoing
  <1> QED BY <1>1, <1>2, <1>3 DEF vars

\* A step that neither opens nor ends a connection, sends nothing.
LEMMA QuietStep ==
    ASSUME UNCHANGED <<pending, wire>>, (sock = "connected") = (sock' = "connected")
    PROVE  UNCHANGED Promised!link
  BY DEF Promised!link

\* Giving up a connection, if there is one, loses what was written on it.
LEMMA LeavingStep ==
    ASSUME UNCHANGED <<pending, wire>>, sock' # "connected"
    PROVE  [Promised!LinkNext]_(Promised!link)
  <1>1. CASE sock = "connected"
    <2>1. Promised!Lose
      BY <1>1 DEF Promised!Lose
    <2> QED BY <2>1 DEF Promised!LinkNext
  <1>2. CASE sock # "connected"
    BY <1>2, QuietStep
  <1> QED BY <1>1, <1>2

LEMMA SendStep ==
    ASSUME CountInv, NEW cmd \in {"login", "other"}, SendCommand(cmd)
    PROVE  Promised!LinkNext
  <1> DEFINE f == [no |-> issued + 1, cmd |-> cmd, signedIn |-> SignedIn]
  <1>1. f \in [no : 1 .. MaxIssued, cmd : {"login", "other"}, signedIn : BOOLEAN] \cup {Relogin}
    BY ClientAssumption DEF SendCommand, CountInv, SignedIn
  <1>2. Promised!Send(f)
    BY DEF SendCommand, Enqueue, Promised!Send
  <1> QED BY <1>1, <1>2 DEF Promised!LinkNext

LEMMA ConnectStep == OnConnected => Promised!LinkNext
  <1> SUFFICES ASSUME OnConnected PROVE Promised!LinkNext
    OBVIOUS
  <1> DEFINE greeting == IF SignedIn THEN <<Relogin>> ELSE <<>>
  <1>1. Promised!Connect(greeting)
    BY DEF OnConnected, FirstFrames, Promised!Connect
  <1>2. greeting \in {<<>>, <<Relogin>>}
    OBVIOUS
  <1> QED BY <1>1, <1>2 DEF Promised!LinkNext

LEMMA PromiseStep ==
    ASSUME CountInv, OutgoingInv, [Next]_vars
    PROVE  [Promised!LinkNext]_(Promised!link)
  <1>1. CASE ConnectToServer \/ Reconnect
    BY <1>1, LeavingStep DEF ConnectToServer, Reconnect, Reopen, outgoing
  <1>2. ASSUME NEW cmd \in {"login", "other"}, SendCommand(cmd)
        PROVE  [Promised!LinkNext]_(Promised!link)
    BY <1>2, SendStep
  <1>3. CASE OnConnected
    BY <1>3, ConnectStep
  <1>4. CASE OnSocketError \/ ConnectionLost
    BY <1>4, LeavingStep DEF OnSocketError, ConnectionLost, outgoing
  <1>5. CASE UNCHANGED <<sock, outgoing>>
    BY <1>5, QuietStep DEF outgoing
  <1>6. Next => \/ ConnectToServer \/ Reconnect \/ OnConnected \/ OnSocketError \/ ConnectionLost
                \/ \E cmd \in {"login", "other"} : SendCommand(cmd)
                \/ UNCHANGED <<sock, outgoing>>
    BY DEF Next, ServerSends, OnReadyRead, Logout
  <1>7. UNCHANGED vars => UNCHANGED <<sock, outgoing>>
    BY DEF vars, outgoing
  <1> QED BY <1>1, <1>2, <1>3, <1>4, <1>5, <1>6, <1>7

\* However sockets and timers behave, and whatever the surroundings do, the client
\* is a connection with a queue: what the rest of the launcher relies on.
THEOREM ImplementsConnection == Spec => KeepsPromise
  <1>1. Init => CountInv /\ OutgoingInv /\ Promised!LinkInit
    BY InitCount, InitOutgoing DEF Init, Promised!LinkInit
  <1>2. CountInv /\ OutgoingInv /\ [Next]_vars => CountInv' /\ OutgoingInv'
    BY NextCount, NextOutgoing
  <1>3. CountInv /\ OutgoingInv /\ [Next]_vars => [Promised!LinkNext]_(Promised!link)
    BY PromiseStep
  <1> QED BY <1>1, <1>2, <1>3, PTL DEF Spec, KeepsPromise, Promised!LinkSpec

-----------------------------------------------------------------------------
(* The order of commands.                                                       *)

\* What is kept are the latest commands, and what was written is older.
PendingNumbered ==
    /\ Len(pending) <= issued
    /\ \A i \in 1 .. Len(pending) : pending[i].no = issued - Len(pending) + i

WireOlder ==
    \A i \in 1 .. Len(wire) : wire[i] = Relogin \/ wire[i].no \in 1 .. issued - Len(pending)

WireRising ==
    \A i, j \in 1 .. Len(wire) :
        i < j /\ wire[i] # Relogin /\ wire[j] # Relogin => wire[i].no < wire[j].no

OrderInv == PendingNumbered /\ WireOlder /\ WireRising

LEMMA InitOrder == Init => OrderInv
  BY DEF Init, OrderInv, PendingNumbered, WireOlder, WireRising

LEMMA NextOrder ==
    ASSUME OutgoingInv, OrderInv, [Next]_vars
    PROVE  OrderInv'
  <1>1. ASSUME NEW cmd \in {"login", "other"}, SendCommand(cmd) PROVE OrderInv'
    <2> DEFINE f == [no |-> issued + 1, cmd |-> cmd, signedIn |-> SignedIn]
    <2>1. f \in Frame /\ f.no = issued + 1 /\ issued' = issued + 1
      BY <1>1 DEF Frame, SendCommand, OutgoingInv, SignedIn
    <2> HIDE DEF f
    <2>2. CASE sock = "connected"
      <3>1. wire' = Append(wire, f) /\ pending' = <<>> /\ pending = <<>>
        BY <1>1, <2>2 DEF SendCommand, f, OutgoingInv
      <3>2. /\ wire \in Seq(Frame)
            /\ Len(wire') = Len(wire) + 1 /\ wire'[Len(wire) + 1] = f
            /\ \A i \in 1 .. Len(wire) : wire'[i] = wire[i]
        BY <3>1, <2>1, AppendProperties DEF OutgoingInv
      <3>3. PendingNumbered'
        BY <2>1, <3>1 DEF PendingNumbered, OutgoingInv
      <3>4. WireOlder' /\ WireRising'
        BY <2>1, <3>1, <3>2 DEF OrderInv, WireOlder, WireRising, OutgoingInv
      <3> QED BY <3>3, <3>4 DEF OrderInv
    <2>3. CASE sock # "connected"
      <3>1. pending' = Enqueue(f) /\ wire' = wire
        BY <1>1, <2>3 DEF SendCommand, f
      <3>2. CASE Len(pending) >= MaxPending
        <4> DEFINE t == Tail(pending)
        <4>1. pending # <<>> /\ pending' = Append(t, f)
          BY <3>1, <3>2, ClientAssumption DEF Enqueue, OutgoingInv
        <4>2. /\ t \in Seq(Frame) /\ Len(t) = Len(pending) - 1
              /\ \A i \in 1 .. Len(t) : t[i] = pending[i + 1]
          BY <4>1, HeadTailProperties DEF OutgoingInv
        <4> HIDE DEF t
        <4>3. /\ Len(pending') = Len(pending) /\ pending'[Len(pending)] = f
              /\ \A i \in 1 .. Len(pending) - 1 : pending'[i] = pending[i + 1]
          BY <4>1, <4>2, <2>1, AppendProperties DEF OutgoingInv
        <4>4. Len(pending) \in Nat
          BY DEF OutgoingInv
        <4>5. PendingNumbered'
          <5>1. Len(pending) <= issued /\ issued \in Nat
            BY DEF OrderInv, PendingNumbered, OutgoingInv
          <5>2. \A i \in 1 .. Len(pending) - 1 : pending'[i].no = issued - Len(pending) + (i + 1)
            BY <4>3, <4>4 DEF OrderInv, PendingNumbered
          <5>3. ASSUME NEW i \in 1 .. Len(pending')
                PROVE  pending'[i].no = issued' - Len(pending') + i
            <6>1. CASE i = Len(pending)
              BY <6>1, <2>1, <4>3, <4>4, <5>1
            <6>2. CASE i # Len(pending)
              <7>1. i \in 1 .. Len(pending) - 1
                BY <6>2, <4>3, <4>4
              <7> QED BY <7>1, <2>1, <4>3, <4>4, <5>1, <5>2
            <6> QED BY <6>1, <6>2
          <5> QED BY <2>1, <4>3, <4>4, <5>1, <5>3 DEF PendingNumbered
        <4>6. WireOlder' /\ WireRising'
          BY <2>1, <3>1, <4>3, <4>4 DEF OrderInv, WireOlder, WireRising, OutgoingInv
        <4> QED BY <4>5, <4>6 DEF OrderInv
      <3>3. CASE ~(Len(pending) >= MaxPending)
        <4>1. pending' = Append(pending, f)
          BY <3>1, <3>3 DEF Enqueue
        <4>2. /\ Len(pending') = Len(pending) + 1 /\ pending'[Len(pending) + 1] = f
              /\ \A i \in 1 .. Len(pending) : pending'[i] = pending[i]
          BY <4>1, <2>1, AppendProperties DEF OutgoingInv
        <4>3. Len(pending) \in Nat
          BY DEF OutgoingInv
        <4>4. PendingNumbered'
          <5>1. Len(pending) <= issued /\ issued \in Nat
            BY DEF OrderInv, PendingNumbered, OutgoingInv
          <5>2. \A i \in 1 .. Len(pending) : pending'[i].no = issued - Len(pending) + i
            BY <4>2 DEF OrderInv, PendingNumbered
          <5> QED BY <2>1, <4>2, <4>3, <5>1, <5>2 DEF PendingNumbered
        <4>5. WireOlder' /\ WireRising'
          BY <2>1, <3>1, <4>2, <4>3 DEF OrderInv, WireOlder, WireRising, OutgoingInv
        <4> QED BY <4>4, <4>5 DEF OrderInv
      <3> QED BY <3>2, <3>3
    <2> QED BY <2>2, <2>3
  <1>2. CASE OnConnected
    <2> DEFINE greeting == IF SignedIn THEN <<Relogin>> ELSE <<>>
    <2>1. wire' = greeting \o pending /\ pending' = <<>> /\ issued' = issued
      BY <1>2 DEF OnConnected, FirstFrames
    <2>2. /\ greeting \in Seq(Frame) /\ Len(greeting) \in Nat
          /\ \A i \in 1 .. Len(greeting) : greeting[i] = Relogin
      BY ReloginType
    <2> HIDE DEF greeting
    <2>3. /\ Len(wire') = Len(greeting) + Len(pending)
          /\ \A i \in 1 .. Len(wire') :
                 wire'[i] = IF i <= Len(greeting) THEN greeting[i] ELSE pending[i - Len(greeting)]
      BY <2>1, <2>2, ConcatProperties DEF OutgoingInv
    <2>4. Len(pending) \in Nat /\ issued \in Nat
      BY DEF OutgoingInv
    <2>5. \A i \in 1 .. Len(wire') :
              \/ wire'[i] = Relogin
              \/ /\ i - Len(greeting) \in 1 .. Len(pending)
                 /\ wire'[i].no = issued - Len(pending) + (i - Len(greeting))
      <3> SUFFICES ASSUME NEW i \in 1 .. Len(wire'), i > Len(greeting)
                   PROVE  /\ i - Len(greeting) \in 1 .. Len(pending)
                          /\ wire'[i].no = issued - Len(pending) + (i - Len(greeting))
        BY <2>2, <2>3
      <3>1. i - Len(greeting) \in 1 .. Len(pending) /\ wire'[i] = pending[i - Len(greeting)]
        BY <2>2, <2>3, <2>4
      <3> QED BY <3>1 DEF OrderInv, PendingNumbered
    <2>6. Len(pending) <= issued
      BY DEF OrderInv, PendingNumbered
    <2>7. PendingNumbered'
      BY <2>1, <2>4 DEF PendingNumbered
    <2>8. WireOlder'
      BY <2>1, <2>4, <2>5, <2>6 DEF WireOlder
    <2>9. WireRising'
      BY <2>2, <2>3, <2>4, <2>5 DEF WireRising
    <2> QED BY <2>7, <2>8, <2>9 DEF OrderInv
  <1>3. CASE UNCHANGED outgoing
    BY <1>3 DEF outgoing, OrderInv, PendingNumbered, WireOlder, WireRising
  <1>4. Next => \/ OnConnected \/ UNCHANGED outgoing
                \/ \E cmd \in {"login", "other"} : SendCommand(cmd)
    BY DEF Next, ConnectToServer, Reconnect, OnSocketError, ConnectionLost, ServerSends,
           OnReadyRead, Logout
  <1>5. UNCHANGED vars => UNCHANGED outgoing
    BY DEF vars, outgoing
  <1> QED BY <1>1, <1>2, <1>3, <1>4, <1>5

\* For any bounds, and however connections end: frames leave in the order in which
\* sendCommand() was called, each at most once, and a full m_pendingFrames keeps the
\* latest of them.
THEOREM OrderIsKept == Spec => []CommandsInOrder
  <1>1. Init => OutgoingInv /\ OrderInv
    BY InitOutgoing, InitOrder
  <1>2. OutgoingInv /\ OrderInv /\ [Next]_vars => OutgoingInv' /\ OrderInv'
    BY NextOutgoing, NextOrder
  <1>3. OutgoingInv /\ OrderInv => CommandsInOrder
    <2> SUFFICES ASSUME OutgoingInv, OrderInv PROVE CommandsInOrder
      OBVIOUS
    <2> DEFINE sent == wire \o pending
    <2>1. wire \in Seq(Frame) /\ pending \in Seq(Frame) /\ issued \in Nat
          /\ DOMAIN pending = 1 .. Len(pending) /\ Len(pending) \in Nat /\ Len(wire) \in Nat
      BY DEF OutgoingInv
    <2>2. /\ DOMAIN sent = 1 .. Len(wire) + Len(pending)
          /\ \A i \in DOMAIN sent :
                 sent[i] = IF i <= Len(wire) THEN wire[i] ELSE pending[i - Len(wire)]
      BY <2>1, ConcatProperties, LenProperties
    <2> HIDE DEF sent
    <2>3. ASSUME NEW i \in DOMAIN sent, NEW j \in DOMAIN sent,
                 i < j, sent[i] # Relogin, sent[j] # Relogin
          PROVE  sent[i].no < sent[j].no
      <3>1. CASE j <= Len(wire)
        BY <2>1, <2>2, <2>3, <3>1 DEF OrderInv, WireRising
      <3>2. CASE i <= Len(wire) /\ j > Len(wire)
        <4>1. sent[i].no \in 1 .. issued - Len(pending)
          BY <2>1, <2>2, <2>3, <3>2 DEF OrderInv, WireOlder
        <4>2. j - Len(wire) \in 1 .. Len(pending) /\ sent[j] = pending[j - Len(wire)]
          BY <2>1, <2>2, <3>2
        <4>3. sent[j].no = issued - Len(pending) + (j - Len(wire))
          BY <4>2 DEF OrderInv, PendingNumbered
        <4> QED BY <4>1, <4>2, <4>3, <2>1, <2>2
      <3>3. CASE i > Len(wire)
        <4>1. /\ i - Len(wire) \in 1 .. Len(pending) /\ sent[i] = pending[i - Len(wire)]
              /\ j - Len(wire) \in 1 .. Len(pending) /\ sent[j] = pending[j - Len(wire)]
          BY <2>1, <2>2, <2>3, <3>3
        <4>2. /\ sent[i].no = issued - Len(pending) + (i - Len(wire))
              /\ sent[j].no = issued - Len(pending) + (j - Len(wire))
          BY <4>1 DEF OrderInv, PendingNumbered
        <4> QED BY <4>1, <4>2, <2>1, <2>2, <2>3
      <3> QED BY <3>1, <3>2, <3>3, <2>1, <2>2
    <2> QED BY <2>1, <2>3 DEF CommandsInOrder, OrderInv, PendingNumbered, sent
  <1> QED BY <1>1, <1>2, <1>3, PTL DEF Spec

-----------------------------------------------------------------------------
(* Induction over the naturals from their well-foundedness, and that a function *)
(* is defined by a recursion whose calls have a smaller measure.                *)

Below == OpToRel(<, Nat)

\* A set of naturals that is not empty has a least element.
LEMMA Least ==
    ASSUME NEW N \in SUBSET Nat, N # {}
    PROVE  \E n \in N : \A k \in N : n <= k
  <1>1. IsWellFoundedOn(Below, Nat)
    BY NatLessThanWellFounded DEF Below
  <1>2. PICK n \in N : \A k \in N : <<k, n>> \notin Below
    BY <1>1, WFMin
  <1>3. \A k \in N : ~(k < n)
    BY <1>2 DEF Below, OpToRel
  <1> QED BY <1>2, <1>3

\* A set of naturals with 0 and the successor of each element is Nat.
LEMMA Induction ==
    ASSUME NEW N \in SUBSET Nat, 0 \in N, \A n \in N : n + 1 \in N
    PROVE  N = Nat
  <1> SUFFICES ASSUME Nat \ N # {} PROVE FALSE
    OBVIOUS
  <1>1. PICK n \in Nat \ N : \A k \in Nat \ N : n <= k
    BY Least
  <1>2. n # 0 /\ n - 1 \in Nat /\ n - 1 \in N
    BY <1>1
  <1> QED BY <1>1, <1>2

\* The value of G[x] depends on smaller arguments than x only.
Descends(D, V, m, G) ==
    \A x \in D : \A g, h \in [D -> V] :
        (\A y \in D : m[y] < m[x] => g[y] = h[y]) => G[x][g] = G[x][h]

\* f satisfies the equation below n
Solves(f, n, D, m, G) == \A x \in D : m[x] < n => f[x] = G[x][f]

\* Solutions below two bounds agree below both.
Agree(D, V, m, G) ==
    \A f, g \in [D -> V], k, n \in Nat, x \in D :
        /\ Solves(f, k, D, m, G) /\ Solves(g, n, D, m, G)
        /\ m[x] < k /\ m[x] < n
        => f[x] = g[x]

\* Two solutions agree below the bounds of both.
LEMMA SolvesUnique ==
    ASSUME NEW D, NEW V, NEW m \in [D -> Nat], NEW G \in [D -> [[D -> V] -> V]],
           Descends(D, V, m, G)
    PROVE  Agree(D, V, m, G)
  <1> SUFFICES ASSUME NEW f \in [D -> V], NEW g \in [D -> V], NEW k \in Nat, NEW n \in Nat,
                      Solves(f, k, D, m, G), Solves(g, n, D, m, G),
                      NEW x \in D, m[x] < k, m[x] < n
               PROVE  f[x] = g[x]
    BY DEF Agree
  <1> DEFINE Bad == {y \in D : m[y] < k /\ m[y] < n /\ f[y] # g[y]}
             At == {i \in Nat : \E y \in Bad : m[y] = i}
  <1> SUFFICES ASSUME At # {} PROVE FALSE
    <2>1. ASSUME f[x] # g[x] PROVE m[x] \in At
      BY <2>1
    <2> QED BY <2>1
  <1>1. PICK i \in At : \A j \in At : i <= j
    BY Least, At \in SUBSET Nat
  <1>2. PICK y \in Bad : m[y] = i
    OBVIOUS
  <1>3. ASSUME NEW z \in D, m[z] < m[y] PROVE f[z] = g[z]
    <2>1. m[z] \in Nat /\ ~(i <= m[z])
      BY <1>2, <1>3
    <2>2. z \notin Bad
      BY <1>1, <2>1
    <2> QED BY <2>2, <1>2, <1>3
  <1>4. G[y][f] = G[y][g]
    BY <1>3, <1>2 DEF Descends
  <1> QED BY <1>4, <1>2 DEF Solves

\* A solution below n gives one below n + 1.
LEMMA SolvesNext ==
    ASSUME NEW D, NEW V, NEW m \in [D -> Nat], NEW G \in [D -> [[D -> V] -> V]],
           Descends(D, V, m, G),
           NEW f \in [D -> V], NEW n \in Nat, Solves(f, n, D, m, G)
    PROVE  \E g \in [D -> V] : Solves(g, n + 1, D, m, G)
  <1> DEFINE g == [x \in D |-> G[x][f]]
  <1>1. g \in [D -> V]
    OBVIOUS
  <1>2. ASSUME NEW x \in D, m[x] < n + 1 PROVE g[x] = G[x][g]
    <2>1. \A y \in D : m[y] < m[x] => f[y] = g[y]
      BY <1>2 DEF Solves
    <2> HIDE DEF g
    <2>2. G[x][f] = G[x][g]
      BY <2>1, <1>1 DEF Descends
    <2> QED BY <2>2 DEF g
  <1> HIDE DEF g
  <1> QED BY <1>1, <1>2 DEF Solves

\* f satisfies the equation everywhere.
Meets(f, D, G) == f = [x \in D |-> G[x][f]]

\* An equation whose right-hand side looks only at arguments of a smaller measure,
\* such as that of Parse, the loop of MessageCodec::append, has a solution.
THEOREM Recursion ==
    ASSUME NEW D, NEW V, NEW m \in [D -> Nat], NEW G \in [D -> [[D -> V] -> V]], V # {},
           Descends(D, V, m, G)
    PROVE  \E f \in [D -> V] : Meets(f, D, G)
  <1>0. Agree(D, V, m, G)
    BY SolvesUnique
  <1> DEFINE N == {n \in Nat : \E f \in [D -> V] : Solves(f, n, D, m, G)}
  <1>1. N = Nat
    <2>1. 0 \in N
      <3>1. PICK v \in V : TRUE
        OBVIOUS
      <3>2. [x \in D |-> v] \in [D -> V]
        OBVIOUS
      <3>3. Solves([x \in D |-> v], 0, D, m, G)
        BY DEF Solves
      <3> QED BY <3>2, <3>3
    <2>2. \A n \in N : n + 1 \in N
      <3> SUFFICES ASSUME NEW n \in Nat, NEW f \in [D -> V], Solves(f, n, D, m, G)
                   PROVE  n + 1 \in N
        OBVIOUS
      <3>1. \E g \in [D -> V] : Solves(g, n + 1, D, m, G)
        BY SolvesNext
      <3> QED BY <3>1
    <2> HIDE DEF N
    <2>3. N \in SUBSET Nat
      BY DEF N
    <2> QED BY <2>1, <2>2, <2>3, Induction
  <1> HIDE DEF N
  <1>2. PICK s : \A n \in Nat : s[n] \in [D -> V] /\ Solves(s[n], n, D, m, G)
    <2> DEFINE t == [n \in Nat |-> CHOOSE f \in [D -> V] : Solves(f, n, D, m, G)]
    <2>1. \A n \in Nat : t[n] \in [D -> V] /\ Solves(t[n], n, D, m, G)
      BY <1>1 DEF N
    <2> QED BY <2>1
  <1>3. \A i, j \in Nat, x \in D : m[x] < i /\ m[x] < j => s[i][x] = s[j][x]
    <2> SUFFICES ASSUME NEW i \in Nat, NEW j \in Nat, NEW x \in D, m[x] < i, m[x] < j
                 PROVE  s[i][x] = s[j][x]
      OBVIOUS
    <2>1. /\ s[i] \in [D -> V] /\ Solves(s[i], i, D, m, G)
          /\ s[j] \in [D -> V] /\ Solves(s[j], j, D, m, G)
      BY <1>2
    <2> QED BY <1>0, <2>1, ZenonT(60) DEF Agree
  <1> DEFINE h == [x \in D |-> s[m[x] + 1][x]]
  <1>4. h \in [D -> V]
    BY <1>2
  <1>5. ASSUME NEW x \in D PROVE h[x] = G[x][h]
    <2>1. m[x] \in Nat /\ m[x] + 1 \in Nat
      OBVIOUS
    <2>2. ASSUME NEW y \in D, m[y] < m[x] PROVE s[m[x] + 1][y] = h[y]
      <3>1. m[y] \in Nat /\ m[y] + 1 \in Nat /\ m[y] < m[y] + 1 /\ m[y] < m[x] + 1
        BY <2>1, <2>2
      <3> QED BY <3>1, <2>1, <1>3
    <2> HIDE DEF h
    <2>3. G[x][s[m[x] + 1]] = G[x][h]
      BY <2>1, <2>2, <1>2, <1>4 DEF Descends
    <2>4. s[m[x] + 1][x] = G[x][s[m[x] + 1]]
      BY <2>1, <1>2 DEF Solves
    <2> QED BY <2>3, <2>4 DEF h
  <1> HIDE DEF h
  <1>6. h = [x \in D |-> G[x][h]]
    BY <1>4, <1>5
  <1> QED BY <1>4, <1>6 DEF Meets

-----------------------------------------------------------------------------
(* FlattenSeq, and a function applied to each element of a sequence.            *)

\* FlattenSeq is what its recursion says.
Flattens(f, s, X) ==
    /\ f \in [1 .. Len(s) -> Seq(X)]
    /\ f = [i \in 1 .. Len(s) |-> IF i = 1 THEN s[i] ELSE f[i - 1] \o s[i]]
    /\ FlattenSeq(s) = f[Len(s)]

LEMMA FlattenEquation ==
    ASSUME NEW X, NEW s \in Seq(Seq(X)), s # <<>>
    PROVE  \E f : Flattens(f, s, X)
  <1> DEFINE D == 1 .. Len(s)
             V == Seq(X)
             Body(i, g) == IF i = 1 THEN s[i] ELSE g[i - 1] \o s[i]
             m == [i \in D |-> i]
             G == [i \in D |-> [g \in [D -> V] |-> Body(i, g)]]
  <1>1. m \in [D -> Nat] /\ V # {} /\ Len(s) \in Nat /\ Len(s) # 0
    <2>1. <<>> \in V
      OBVIOUS
    <2> QED BY <2>1
  <1>2. \A i \in D : \A g \in [D -> V] : Body(i, g) \in V
    <2> SUFFICES ASSUME NEW i \in D, NEW g \in [D -> V] PROVE Body(i, g) \in V
      OBVIOUS
    <2>1. s[i] \in Seq(X)
      OBVIOUS
    <2>2. CASE i # 1
      <3>1. i - 1 \in D
        BY <2>2
      <3>2. g[i - 1] \in Seq(X)
        BY <3>1
      <3> QED BY <3>2, <2>1, <2>2
    <2> QED BY <2>1, <2>2
  <1>3. G \in [D -> [[D -> V] -> V]]
    BY <1>2
  <1>4. Descends(D, V, m, G)
    <2> SUFFICES ASSUME NEW i \in D, NEW g \in [D -> V], NEW h \in [D -> V],
                        \A j \in D : m[j] < m[i] => g[j] = h[j]
                 PROVE  G[i][g] = G[i][h]
      BY DEF Descends
    <2>1. ASSUME i # 1 PROVE g[i - 1] = h[i - 1]
      <3>1. i - 1 \in D /\ m[i - 1] < m[i]
        BY <2>1
      <3> QED BY <3>1
    <2>2. Body(i, g) = Body(i, h)
      BY <2>1
    <2> QED BY <2>2
  <1> HIDE DEF D, V, m, G
  <1>5. PICK f0 \in [D -> V] : Meets(f0, D, G)
    BY <1>1, <1>3, <1>4, Recursion
  <1> USE DEF D, V
  <1>6. f0 = [i \in D |-> Body(i, f0)]
    BY <1>5 DEF G, Meets
  <1> DEFINE f == CHOOSE e : e = [i \in D |-> Body(i, e)]
  <1>7. f = [i \in D |-> Body(i, f)]
    BY <1>6, Zenon
  <1>8. FlattenSeq(s) = f[Len(s)]
    BY <1>1 DEF FlattenSeq
  <1> HIDE DEF f
  <1>9. \A i \in D : f[i] \in V
    <2> DEFINE Bad == {i \in D : f[i] \notin V}
    <2> SUFFICES ASSUME Bad # {} PROVE FALSE
      OBVIOUS
    <2>1. PICK i \in Bad : \A j \in Bad : i <= j
      BY Least, Bad \in SUBSET Nat
    <2>2. CASE i = 1
      BY <2>2, <1>7
    <2>3. CASE i # 1
      <3>1. i - 1 \in D /\ i - 1 \notin Bad
        BY <2>1, <2>3
      <3>2. f[i] = f[i - 1] \o s[i]
        BY <1>7, <2>3
      <3>3. f[i - 1] \in Seq(X) /\ s[i] \in Seq(X)
        BY <3>1
      <3>4. f[i] \in Seq(X)
        BY <3>2, <3>3
      <3> QED BY <3>4, <2>1
    <2> QED BY <2>2, <2>3
  <1>10. f \in [D -> V]
    BY <1>7, <1>9
  <1> QED BY <1>7, <1>8, <1>10 DEF Flattens

LEMMA FlattenEmpty == FlattenSeq(<<>>) = <<>>
  BY DEF FlattenSeq

LEMMA FlattenOne ==
    ASSUME NEW X, NEW x \in Seq(X)
    PROVE  FlattenSeq(<<x>>) = x
  <1>1. <<x>> \in Seq(Seq(X)) /\ <<x>> # <<>> /\ Len(<<x>>) = 1 /\ <<x>>[1] = x
    OBVIOUS
  <1>2. PICK f : Flattens(f, <<x>>, X)
    BY <1>1, FlattenEquation
  <1>3. f[1] = <<x>>[1]
    BY <1>1, <1>2 DEF Flattens
  <1> QED BY <1>1, <1>2, <1>3 DEF Flattens

LEMMA FlattenType ==
    ASSUME NEW X, NEW s \in Seq(Seq(X))
    PROVE  FlattenSeq(s) \in Seq(X)
  <1>1. CASE s = <<>>
    <2>1. <<>> \in Seq(X)
      OBVIOUS
    <2> QED BY <2>1, <1>1, FlattenEmpty
  <1>2. CASE s # <<>>
    <2>1. Len(s) \in 1 .. Len(s)
      BY <1>2
    <2>2. PICK f : Flattens(f, s, X)
      BY <1>2, FlattenEquation
    <2> QED BY <2>1, <2>2 DEF Flattens
  <1> QED BY <1>1, <1>2

\* An element more adds itself at the end.
LEMMA FlattenAppend ==
    ASSUME NEW X, NEW s \in Seq(Seq(X)), NEW x \in Seq(X)
    PROVE  FlattenSeq(Append(s, x)) = FlattenSeq(s) \o x
  <1>1. CASE s = <<>>
    <2>1. Append(s, x) = <<x>> /\ <<>> \o x = x
      BY <1>1
    <2>2. FlattenSeq(<<x>>) = x
      BY FlattenOne
    <2>3. FlattenSeq(s) = <<>>
      BY <1>1, FlattenEmpty, Zenon
    <2> QED BY <2>1, <2>2, <2>3
  <1>2. CASE s # <<>>
    <2> DEFINE t == Append(s, x)
    <2>1. /\ t \in Seq(Seq(X)) /\ t # <<>> /\ Len(t) = Len(s) + 1 /\ t[Len(t)] = x
          /\ \A i \in 1 .. Len(s) : t[i] = s[i]
          /\ Len(s) \in Nat \ {0}
      <3> DEFINE W == Seq(X)
      <3>1. s \in Seq(W) /\ x \in W
        OBVIOUS
      <3> HIDE DEF W
      <3>2. /\ t \in Seq(W) /\ t # <<>> /\ Len(t) = Len(s) + 1 /\ t[Len(s) + 1] = x
            /\ \A i \in 1 .. Len(s) : t[i] = s[i]
            /\ Len(s) \in Nat \ {0}
        BY <3>1, <1>2, AppendProperties, EmptySeq
      <3> QED BY <3>2 DEF W
    <2> HIDE DEF t
    <2>2. PICK f : Flattens(f, s, X)
      BY <1>2, FlattenEquation
    <2>3. PICK g : Flattens(g, t, X)
      BY <2>1, FlattenEquation
    <2>4. \A i \in 1 .. Len(s) : f[i] = g[i]
      <3> DEFINE Bad == {i \in 1 .. Len(s) : f[i] # g[i]}
      <3> SUFFICES ASSUME Bad # {} PROVE FALSE
        OBVIOUS
      <3>1. PICK i \in Bad : \A j \in Bad : i <= j
        BY Least, Bad \in SUBSET Nat
      <3>2. i \in 1 .. Len(t) /\ t[i] = s[i]
        BY <2>1
      <3>3. CASE i = 1
        BY <3>2, <3>3, <2>2, <2>3 DEF Flattens
      <3>4. CASE i # 1
        <4>1. i - 1 \in 1 .. Len(s) /\ ~(i <= i - 1)
          BY <3>4, <2>1
        <4>2. i - 1 \notin Bad
          BY <4>1, <3>1
        <4>3. f[i - 1] = g[i - 1]
          BY <4>1, <4>2, SMTT(40)
        <4>4. f[i] = f[i - 1] \o s[i] /\ g[i] = g[i - 1] \o t[i]
          BY <3>2, <3>4, <2>2, <2>3, Zenon DEF Flattens
        <4> QED BY <4>3, <4>4, <3>2
      <3> QED BY <3>3, <3>4
    <2>5. g[Len(t)] = g[Len(s)] \o x
      <3>1. Len(t) \in 1 .. Len(t) /\ Len(t) # 1 /\ Len(t) - 1 = Len(s)
        BY <2>1
      <3> QED BY <3>1, <2>1, <2>3 DEF Flattens
    <2>6. f[Len(s)] = g[Len(s)]
      BY <2>1, <2>4
    <2> QED BY <2>2, <2>3, <2>5, <2>6, Zenon DEF t, Flattens
  <1> QED BY <1>1, <1>2

\* FlattenSeq of a concatenation.
Splits(s, t) == FlattenSeq(s \o t) = FlattenSeq(s) \o FlattenSeq(t)

LEMMA FlattenLonger ==
    ASSUME NEW X, NEW s \in Seq(Seq(X)), NEW v \in Seq(Seq(X)), NEW x \in Seq(X),
           Splits(s, v)
    PROVE  Splits(s, Append(v, x))
  <1>1. s \o Append(v, x) = Append(s \o v, x) /\ s \o v \in Seq(Seq(X))
    OBVIOUS
  <1>2. FlattenSeq(s \o Append(v, x)) = (FlattenSeq(s) \o FlattenSeq(v)) \o x
    BY <1>1, FlattenAppend DEF Splits
  <1>3. FlattenSeq(Append(v, x)) = FlattenSeq(v) \o x
    BY FlattenAppend
  <1>4. FlattenSeq(s) \in Seq(X) /\ FlattenSeq(v) \in Seq(X)
    BY FlattenType
  <1>5. (FlattenSeq(s) \o FlattenSeq(v)) \o x = FlattenSeq(s) \o (FlattenSeq(v) \o x)
    BY <1>4, ConcatAssociative, SMTT(40)
  <1> QED BY <1>2, <1>3, <1>5 DEF Splits

LEMMA FlattenConcat ==
    ASSUME NEW X, NEW s \in Seq(Seq(X)), NEW t \in Seq(Seq(X))
    PROVE  FlattenSeq(s \o t) = FlattenSeq(s) \o FlattenSeq(t)
  <1> DEFINE N == {n \in Nat : \A u \in Seq(Seq(X)) : Len(u) = n => Splits(s, u)}
  <1>1. 0 \in N
    <2>1. \A u \in Seq(Seq(X)) : Len(u) = 0 => u = <<>>
      OBVIOUS
    <2>2. s \o <<>> = s /\ FlattenSeq(s) \o <<>> = FlattenSeq(s)
      BY FlattenType
    <2> QED BY <2>1, <2>2, FlattenEmpty DEF Splits
  <1>2. ASSUME NEW n \in N PROVE n + 1 \in N
    <2> SUFFICES ASSUME NEW u \in Seq(Seq(X)), Len(u) = n + 1
                 PROVE  Splits(s, u)
      OBVIOUS
    <2>1. PICK v \in Seq(Seq(X)), x \in Seq(X) : u = Append(v, x)
      <3> DEFINE W == Seq(X)
      <3>1. u \in Seq(W) /\ u # <<>>
        OBVIOUS
      <3> HIDE DEF W
      <3>2. \E v \in Seq(W), x \in W : u = Append(v, x)
        BY <3>1, SequenceEmptyOrAppend
      <3> QED BY <3>2 DEF W
    <2>2. Len(v) = n
      BY <2>1
    <2>3. Splits(s, v)
      BY <2>2
    <2>4. Splits(s, Append(v, x))
      BY <2>3, FlattenLonger
    <2> QED BY <2>1, <2>4
  <1>3. N = Nat
    <2> HIDE DEF N
    <2>1. N \in SUBSET Nat
      BY DEF N
    <2> QED BY <1>1, <1>2, <2>1, Induction
  <1>4. Len(t) \in N
    BY <1>3
  <1> QED BY <1>4 DEF Splits

\* A function applied to each element of a sequence.
Mapped(s, e) == [i \in DOMAIN s |-> e[s[i]]]

\* Kept folded, so that the lemmas below match.
Takes(e, S, T) == e \in [S -> T]
Images(u, s, e, T) ==
    u \in Seq(T) /\ Len(u) = Len(s) /\ \A i \in 1 .. Len(s) : u[i] = e[s[i]]

LEMMA MappedType ==
    ASSUME NEW S, NEW T, NEW e, Takes(e, S, T), NEW s \in Seq(S)
    PROVE  Images(Mapped(s, e), s, e, T)
  <1>1. Len(s) \in Nat /\ \A i \in 1 .. Len(s) : e[s[i]] \in T
    BY ElementOfSeq DEF Takes
  <1>2. Mapped(s, e) = [i \in 1 .. Len(s) |-> e[s[i]]]
    BY DEF Mapped
  <1> QED BY <1>1, <1>2 DEF Images

LEMMA MappedConcat ==
    ASSUME NEW S, NEW T, NEW e, Takes(e, S, T), NEW s \in Seq(S), NEW t \in Seq(S)
    PROVE  Mapped(s \o t, e) = Mapped(s, e) \o Mapped(t, e)
  <1>1. Images(Mapped(s, e), s, e, T) /\ Images(Mapped(t, e), t, e, T)
    BY MappedType
  <1>2. /\ s \o t \in Seq(S) /\ Len(s \o t) = Len(s) + Len(t)
        /\ \A i \in 1 .. Len(s) + Len(t) : (s \o t)[i] = IF i <= Len(s) THEN s[i] ELSE t[i - Len(s)]
        /\ Len(s) \in Nat /\ Len(t) \in Nat
    BY ConcatProperties
  <1> DEFINE a == Mapped(s, e)
             b == Mapped(t, e)
             c == Mapped(s \o t, e)
  <1>3. /\ c \in Seq(T) /\ Len(c) = Len(s) + Len(t)
        /\ \A i \in 1 .. Len(s) + Len(t) : c[i] = e[(s \o t)[i]]
    <2>1. s \o t \in Seq(S)
      BY <1>2
    <2>2. Images(c, s \o t, e, T)
      BY <2>1, MappedType
    <2> HIDE DEF c
    <2> QED BY <2>2, <1>2 DEF Images
  <1> HIDE DEF a, b, c
  <1>4. /\ a \in Seq(T) /\ Len(a) = Len(s) /\ \A i \in 1 .. Len(s) : a[i] = e[s[i]]
        /\ b \in Seq(T) /\ Len(b) = Len(t) /\ \A i \in 1 .. Len(t) : b[i] = e[t[i]]
    BY <1>1 DEF a, b, Images
  <1>5. /\ a \o b \in Seq(T) /\ Len(a \o b) = Len(s) + Len(t)
        /\ \A i \in 1 .. Len(s) + Len(t) : (a \o b)[i] = IF i <= Len(s) THEN a[i] ELSE b[i - Len(s)]
    <2>1. a \in Seq(T) /\ b \in Seq(T)
      BY <1>4
    <2>2. /\ a \o b \in Seq(T) /\ Len(a \o b) = Len(a) + Len(b)
          /\ \A i \in 1 .. Len(a) + Len(b) : (a \o b)[i] = IF i <= Len(a) THEN a[i] ELSE b[i - Len(a)]
      BY <2>1, ConcatProperties
    <2>3. Len(a) = Len(s) /\ Len(b) = Len(t)
      BY <1>4
    <2> QED BY <2>2, <2>3
  <1>6. ASSUME NEW i \in 1 .. Len(s) + Len(t) PROVE c[i] = (a \o b)[i]
    <2>1. CASE i <= Len(s)
      <3>1. i \in 1 .. Len(s)
        BY <2>1, <1>2
      <3>2. c[i] = e[s[i]] /\ (a \o b)[i] = a[i] /\ a[i] = e[s[i]]
        BY <3>1, <2>1, <1>2, <1>3, <1>4, <1>5
      <3> QED BY <3>2
    <2>2. CASE ~(i <= Len(s))
      <3>1. i - Len(s) \in 1 .. Len(t)
        BY <2>2, <1>2
      <3>2. /\ c[i] = e[t[i - Len(s)]] /\ (a \o b)[i] = b[i - Len(s)]
            /\ b[i - Len(s)] = e[t[i - Len(s)]]
        BY <3>1, <2>2, <1>2, <1>3, <1>4, <1>5
      <3> QED BY <3>2
    <2> QED BY <2>1, <2>2
  <1>7. c = a \o b
    BY <1>3, <1>5, <1>6, SeqEqual
  <1> QED BY <1>7 DEF a, b, c

LEMMA FlattenMapped ==
    ASSUME NEW S, NEW X, NEW e, Takes(e, S, Seq(X)), NEW s \in Seq(S), NEW t \in Seq(S)
    PROVE  /\ FlattenSeq(Mapped(s, e)) \in Seq(X)
           /\ FlattenSeq(Mapped(s \o t, e)) = FlattenSeq(Mapped(s, e)) \o FlattenSeq(Mapped(t, e))
  <1>1. Mapped(s, e) \in Seq(Seq(X)) /\ Mapped(t, e) \in Seq(Seq(X))
    BY MappedType DEF Images
  <1>2. Mapped(s \o t, e) = Mapped(s, e) \o Mapped(t, e)
    BY MappedConcat
  <1> QED BY <1>1, <1>2, FlattenType, FlattenConcat

LEMMA FlattenMappedOne ==
    ASSUME NEW S, NEW X, NEW e, Takes(e, S, Seq(X)), NEW a \in S
    PROVE  FlattenSeq(Mapped(<<a>>, e)) = e[a]
  <1>1. <<a>> \in Seq(S) /\ Len(<<a>>) = 1 /\ <<a>>[1] = a /\ e[a] \in Seq(X)
    BY DEF Takes
  <1>2. Mapped(<<a>>, e) \in Seq(Seq(X)) /\ Len(Mapped(<<a>>, e)) = 1 /\ Mapped(<<a>>, e)[1] = e[a]
    <2> DEFINE u == <<a>>
               W == Seq(X)
    <2>1. u \in Seq(S)
      BY <1>1
    <2>2. Takes(e, S, W)
      OBVIOUS
    <2> HIDE DEF u, W
    <2>3. Images(Mapped(u, e), u, e, W)
      BY <2>1, <2>2, MappedType
    <2>4. Len(u) = 1 /\ u[1] = a
      BY <1>1 DEF u
    <2>5. Mapped(u, e) \in Seq(W) /\ Len(Mapped(u, e)) = 1 /\ Mapped(u, e)[1] = e[a]
      BY <2>3, <2>4 DEF Images
    <2> QED BY <2>5 DEF u, W
  <1>3. Mapped(<<a>>, e) = <<e[a]>>
    BY <1>2
  <1> QED BY <1>1, <1>3, FlattenOne

-----------------------------------------------------------------------------
(* The codec: what a call of append() returns.                                  *)

\* What append() may return.
Results == [rest : Bytes, messages : Seq(Bytes), error : BOOLEAN]

\* The first frame of a buffer that has all of it, and what follows.
FirstPayload(b) == SubSeq(b, HeaderSize + 1, HeaderSize + PayloadSize(b))
AfterFirst(b) == SubSeq(b, HeaderSize + PayloadSize(b) + 1, Len(b))

InvalidSize(b) == PayloadSize(b) = 0 \/ PayloadSize(b) > MaxFrameSize

\* One turn of the loop, f being the ones after it.
Turn(b, f) ==
    IF Len(b) < HeaderSize
    THEN Result(b, <<>>, FALSE)
    ELSE IF InvalidSize(b)
    THEN Result(<<>>, <<>>, TRUE)
    ELSE IF Len(b) < HeaderSize + PayloadSize(b)
    THEN Result(b, <<>>, FALSE)
    ELSE IF f[AfterFirst(b)].error
    THEN f[AfterFirst(b)]
    ELSE Result(f[AfterFirst(b)].rest,
                Emitted(FirstPayload(b)) \o f[AfterFirst(b)].messages, FALSE)

LEMMA BytesOf ==
    ASSUME NEW b \in Bytes
    PROVE  Len(b) \in Nat /\ \A i \in 1 .. Len(b) : b[i] \in 0 .. Base - 1
  <1> DEFINE S == 0 .. Base - 1
  <1>1. b \in Seq(S)
    BY DEF Bytes
  <1> HIDE DEF S
  <1>2. Len(b) \in Nat /\ \A i \in 1 .. Len(b) : b[i] \in S
    BY <1>1, ElementOfSeq, LenProperties
  <1> QED BY <1>2 DEF S

LEMMA SizeIsNat ==
    ASSUME NEW b \in Bytes, ~(Len(b) < HeaderSize)
    PROVE  PayloadSize(b) \in Nat
  <1>1. b[1] \in 0 .. Base - 1 /\ b[2] \in 0 .. Base - 1
    <2>1. 1 \in 1 .. Len(b) /\ 2 \in 1 .. Len(b)
      BY BytesOf DEF HeaderSize
    <2> QED BY <2>1, BytesOf
  <1>2. b[1] \in Nat /\ b[2] \in Nat /\ Base \in Nat
    BY <1>1, CodecAssumption
  <1>3. \A x, y, z \in Nat : x * y + z \in Nat
    OBVIOUS
  <1> QED BY <1>2, <1>3 DEF PayloadSize

\* Cutting a complete frame off a buffer.
LEMMA FrameSplits ==
    ASSUME NEW b \in Bytes, ~(Len(b) < HeaderSize), ~(Len(b) < HeaderSize + PayloadSize(b))
    PROVE  /\ FirstPayload(b) \in Bytes /\ Len(FirstPayload(b)) = PayloadSize(b)
           /\ \A i \in 1 .. PayloadSize(b) : FirstPayload(b)[i] = b[HeaderSize + i]
           /\ AfterFirst(b) \in Bytes
           /\ Len(AfterFirst(b)) = Len(b) - HeaderSize - PayloadSize(b)
           /\ \A i \in 1 .. Len(AfterFirst(b)) :
                  AfterFirst(b)[i] = b[HeaderSize + PayloadSize(b) + i]
  <1> DEFINE n == PayloadSize(b)
  <1>1. n \in Nat /\ Len(b) \in Nat
    BY SizeIsNat DEF Bytes
  <1>2. ~(Len(b) < 2 + n)
    BY DEF HeaderSize
  <1> HIDE DEF n
  <1>3. \A i \in 1 .. Len(b) : b[i] \in 0 .. Base - 1
    BY BytesOf
  <1>4. /\ SubSeq(b, 3, 2 + n) \in Bytes /\ Len(SubSeq(b, 3, 2 + n)) = n
        /\ \A i \in 1 .. n : SubSeq(b, 3, 2 + n)[i] = b[2 + i]
    <2>1. 3 \in Int /\ 2 + n \in Int /\ \A i \in 3 .. 2 + n : b[i] \in 0 .. Base - 1
      BY <1>1, <1>2, <1>3
    <2> QED BY <2>1, <1>1, SubSeqProperties DEF Bytes
  <1>5. /\ SubSeq(b, 3 + n, Len(b)) \in Bytes /\ Len(SubSeq(b, 3 + n, Len(b))) = Len(b) - 2 - n
        /\ \A i \in 1 .. Len(b) - 2 - n : SubSeq(b, 3 + n, Len(b))[i] = b[2 + n + i]
    <2>1. 3 + n \in Int /\ Len(b) \in Int /\ \A i \in 3 + n .. Len(b) : b[i] \in 0 .. Base - 1
      BY <1>1, <1>2, <1>3
    <2> QED BY <2>1, <1>1, <1>2, SubSeqProperties DEF Bytes
  <1>6. FirstPayload(b) = SubSeq(b, 3, 2 + n) /\ AfterFirst(b) = SubSeq(b, 3 + n, Len(b))
    BY <1>1, SMTT(40) DEF FirstPayload, AfterFirst, HeaderSize, n
  <1> QED BY <1>1, <1>4, <1>5, <1>6 DEF n, HeaderSize

LEMMA ResultType ==
    ASSUME NEW r \in Bytes, NEW m \in Seq(Bytes), NEW e \in BOOLEAN
    PROVE  /\ Result(r, m, e) \in Results
           /\ Result(r, m, e).rest = r /\ Result(r, m, e).messages = m /\ Result(r, m, e).error = e
  BY DEF Result, Results

LEMMA EmittedType ==
    ASSUME NEW p \in Bytes
    PROVE  Emitted(p) \in Seq(Bytes)
  BY DEF Emitted

LEMMA EmptyTypes == <<>> \in Bytes /\ <<>> \in Seq(Bytes)
  BY DEF Bytes

LEMMA TurnType ==
    ASSUME NEW b \in Bytes, NEW f \in [Bytes -> Results]
    PROVE  Turn(b, f) \in Results
  <1>1. CASE Len(b) < HeaderSize
    BY <1>1, ResultType, EmptyTypes DEF Turn
  <1>2. CASE ~(Len(b) < HeaderSize) /\ InvalidSize(b)
    BY <1>2, ResultType, EmptyTypes DEF Turn
  <1>3. CASE ~(Len(b) < HeaderSize) /\ ~InvalidSize(b) /\ Len(b) < HeaderSize + PayloadSize(b)
    BY <1>3, ResultType, EmptyTypes DEF Turn
  <1>4. CASE /\ ~(Len(b) < HeaderSize) /\ ~InvalidSize(b) /\ ~(Len(b) < HeaderSize + PayloadSize(b))
    <2> DEFINE later == f[AfterFirst(b)]
    <2>1. FirstPayload(b) \in Bytes /\ AfterFirst(b) \in Bytes
      BY <1>4, FrameSplits
    <2>2. later \in Results
      BY <2>1
    <2>3. later.rest \in Bytes /\ later.messages \in Seq(Bytes)
      BY <2>2 DEF Results
    <2>4. Emitted(FirstPayload(b)) \in Seq(Bytes)
      BY <2>1, EmittedType
    <2>5. Turn(b, f) = IF later.error THEN later
                       ELSE Result(later.rest, Emitted(FirstPayload(b)) \o later.messages, FALSE)
      BY <1>4 DEF Turn
    <2> HIDE DEF later
    <2>6. Emitted(FirstPayload(b)) \o later.messages \in Seq(Bytes)
      BY <2>3, <2>4, ConcatProperties
    <2>7. Result(later.rest, Emitted(FirstPayload(b)) \o later.messages, FALSE) \in Results
      BY <2>3, <2>6, ResultType
    <2> QED BY <2>2, <2>5, <2>7
  <1> QED BY <1>1, <1>2, <1>3, <1>4

\* Parse is its own equation: every turn but the last shortens the buffer.
LEMMA ParseEquation == Parse = [b \in Bytes |-> Turn(b, Parse)]
  <1> DEFINE D == Bytes
             V == Results
             m == [b \in D |-> Len(b)]
             G == [b \in D |-> [f \in [D -> V] |-> Turn(b, f)]]
  <1>1. m \in [D -> Nat]
    BY DEF Bytes
  <1>2. V # {}
    BY ResultType, EmptyTypes
  <1>3. G \in [D -> [[D -> V] -> V]]
    BY TurnType
  <1>4. Descends(D, V, m, G)
    <2> SUFFICES ASSUME NEW b \in D, NEW g \in [D -> V], NEW h \in [D -> V],
                        \A c \in D : m[c] < m[b] => g[c] = h[c]
                 PROVE  G[b][g] = G[b][h]
      BY DEF Descends
    <2>1. ASSUME ~(Len(b) < HeaderSize), ~(Len(b) < HeaderSize + PayloadSize(b))
          PROVE  g[AfterFirst(b)] = h[AfterFirst(b)]
      <3>1. AfterFirst(b) \in D /\ Len(AfterFirst(b)) < Len(b)
        BY <2>1, SizeIsNat, FrameSplits DEF HeaderSize, Bytes
      <3> QED BY <3>1
    <2>2. Turn(b, g) = Turn(b, h)
      BY <2>1 DEF Turn
    <2> QED BY <2>2
  <1> HIDE DEF D, V, m, G
  <1>5. PICK f0 \in [D -> V] : Meets(f0, D, G)
    BY <1>1, <1>2, <1>3, <1>4, Recursion
  <1>6. f0 = [b \in Bytes |-> Turn(b, f0)]
    BY <1>5 DEF G, Meets, D, V
  <1>7. Parse = CHOOSE f : f = [b \in Bytes |-> Turn(b, f)]
    BY DEF Parse, Turn, AfterFirst, FirstPayload, InvalidSize
  <1> QED BY <1>6, <1>7

\* Whatever the buffer holds, append() returns bytes and messages.
LEMMA ParseType == Parse \in [Bytes -> Results]
  <1> DEFINE At == {n \in Nat : \E b \in Bytes : Len(b) = n /\ Parse[b] \notin Results}
  <1>1. At = {}
    <2> SUFFICES ASSUME At # {} PROVE FALSE
      OBVIOUS
    <2>1. PICK n \in At : \A k \in At : n <= k
      BY Least, At \in SUBSET Nat
    <2>2. PICK b \in Bytes : Len(b) = n /\ Parse[b] \notin Results
      OBVIOUS
    <2>3. Parse[b] = Turn(b, Parse)
      BY ParseEquation
    <2>4. \A c \in Bytes : Len(c) < Len(b) => Parse[c] \in Results
      BY <2>1, <2>2, BytesOf
    <2> DEFINE g == [c \in Bytes |-> IF Len(c) < Len(b) THEN Parse[c] ELSE Result(<<>>, <<>>, TRUE)]
    <2>5. g \in [Bytes -> Results]
      BY <2>4, ResultType, EmptyTypes
    <2>6. Turn(b, Parse) = Turn(b, g)
      <3>1. ASSUME ~(Len(b) < HeaderSize), ~(Len(b) < HeaderSize + PayloadSize(b))
            PROVE  g[AfterFirst(b)] = Parse[AfterFirst(b)]
        <4>1. AfterFirst(b) \in Bytes /\ Len(AfterFirst(b)) < Len(b)
          BY <3>1, SizeIsNat, FrameSplits, BytesOf DEF HeaderSize
        <4> QED BY <4>1
      <3> HIDE DEF g
      <3> QED BY <3>1 DEF Turn
    <2>7. Turn(b, g) \in Results
      <3> HIDE DEF g
      <3> QED BY <2>5, TurnType
    <2> QED BY <2>2, <2>3, <2>6, <2>7
  <1>2. \A b \in Bytes : Parse[b] \in Results
    BY <1>1, BytesOf
  <1> HIDE DEF At
  <1> QED BY <1>2, ParseEquation

-----------------------------------------------------------------------------
(* What a server sends, and what the codec makes of it.                         *)

\* What a server may send.
Payloads == {p \in Bytes : Len(p) \in 1 .. MaxFrameSize}

LEMMA DivMod ==
    ASSUME NEW b \in Nat \ {0, 1}, NEW n \in Nat, n < b * b
    PROVE  /\ n \div b \in 0 .. b - 1 /\ n % b \in 0 .. b - 1
           /\ (n \div b) * b + (n % b) = n
  <1>1. n % b \in 0 .. b - 1 /\ n \div b \in Nat
    OBVIOUS
  <1>2. (n \div b) * b + (n % b) = n
    OBVIOUS
  <1>3. n \div b < b
    BY <1>1, <1>2
  <1> QED BY <1>1, <1>2, <1>3

LEMMA PayloadLength ==
    ASSUME NEW a \in Payloads
    PROVE  /\ a \in Bytes /\ Len(a) \in Nat /\ Len(a) \in 1 .. MaxFrameSize
           /\ Len(a) \div Base \in 0 .. Base - 1 /\ Len(a) % Base \in 0 .. Base - 1
           /\ (Len(a) \div Base) * Base + (Len(a) % Base) = Len(a)
  <1>1. a \in Bytes /\ Len(a) \in Nat /\ Len(a) \in 1 .. MaxFrameSize
    BY BytesOf DEF Payloads
  <1>2. /\ Base \in Nat \ {0, 1} /\ MaxFrameSize \in Nat
        /\ MaxFrameSize < Base * Base /\ Base * Base \in Nat
    BY CodecAssumption
  <1>3. Len(a) < Base * Base
    BY <1>1, <1>2
  <1> QED BY <1>1, <1>2, <1>3, DivMod

\* A frame is its size and the payload.
LEMMA EncodeType ==
    ASSUME NEW a \in Payloads
    PROVE  /\ Encode(a) \in Bytes /\ Len(Encode(a)) = 2 + Len(a)
           /\ Encode(a)[1] = Len(a) \div Base /\ Encode(a)[2] = Len(a) % Base
           /\ \A i \in 1 .. Len(a) : Encode(a)[2 + i] = a[i]
  <1> DEFINE S == 0 .. Base - 1
             x == Len(a) \div Base
             y == Len(a) % Base
  <1>1. x \in S /\ y \in S /\ a \in Seq(S)
    BY PayloadLength DEF Bytes
  <1>2. Encode(a) = <<x, y>> \o a
    BY DEF Encode
  <1> HIDE DEF S, x, y
  <1>3. <<x, y>> \in Seq(S) /\ Len(<<x, y>>) = 2 /\ <<x, y>>[1] = x /\ <<x, y>>[2] = y
    BY <1>1
  <1>4. /\ Encode(a) \in Seq(S) /\ Len(Encode(a)) = 2 + Len(a)
        /\ \A i \in 1 .. 2 + Len(a) : Encode(a)[i] = IF i <= 2 THEN <<x, y>>[i] ELSE a[i - 2]
    BY <1>1, <1>2, <1>3, ConcatProperties
  <1>5. Len(a) \in Nat
    BY <1>1
  <1>6. Encode(a)[1] = x /\ Encode(a)[2] = y
    BY <1>3, <1>4, <1>5
  <1>7. \A i \in 1 .. Len(a) : Encode(a)[2 + i] = a[i]
    BY <1>4, <1>5
  <1> QED BY <1>4, <1>6, <1>7 DEF S, x, y, Bytes

\* The functions Stream and Objects apply.
Wrap == [p \in Payloads |-> Encode(p)]
Keep == [p \in Payloads |-> Emitted(p)]

LEMMA WrapKeepTypes ==
    Takes(Wrap, Payloads, Seq(0 .. Base - 1)) /\ Takes(Keep, Payloads, Seq(Bytes))
  BY EncodeType, EmittedType DEF Takes, Wrap, Keep, Bytes, Payloads

LEMMA StreamIsMapped ==
    ASSUME NEW s \in Seq(Payloads)
    PROVE  Stream(s) = FlattenSeq(Mapped(s, Wrap)) /\ Objects(s) = FlattenSeq(Mapped(s, Keep))
  <1>1. \A i \in DOMAIN s : s[i] \in Payloads
    OBVIOUS
  <1>2. [i \in DOMAIN s |-> Encode(s[i])] = Mapped(s, Wrap)
    BY <1>1 DEF Mapped, Wrap
  <1>3. [i \in DOMAIN s |-> Emitted(s[i])] = Mapped(s, Keep)
    BY <1>1 DEF Mapped, Keep
  <1> QED BY <1>2, <1>3 DEF Stream, Objects

\* Streams and messages of a concatenation.
LEMMA StreamFacts ==
    ASSUME NEW s \in Seq(Payloads), NEW t \in Seq(Payloads)
    PROVE  /\ Stream(s) \in Bytes /\ Stream(s \o t) = Stream(s) \o Stream(t)
           /\ Objects(s) \in Seq(Bytes) /\ Objects(s \o t) = Objects(s) \o Objects(t)
  <1>1. s \o t \in Seq(Payloads)
    OBVIOUS
  <1> DEFINE S == 0 .. Base - 1
  <1>2. Takes(Wrap, Payloads, Seq(S)) /\ Takes(Keep, Payloads, Seq(Bytes))
    BY WrapKeepTypes
  <1> HIDE DEF S
  <1>3. /\ FlattenSeq(Mapped(s, Wrap)) \in Seq(S)
        /\ FlattenSeq(Mapped(s \o t, Wrap)) =
               FlattenSeq(Mapped(s, Wrap)) \o FlattenSeq(Mapped(t, Wrap))
    BY <1>2, FlattenMapped
  <1>4. /\ FlattenSeq(Mapped(s, Keep)) \in Seq(Bytes)
        /\ FlattenSeq(Mapped(s \o t, Keep)) =
               FlattenSeq(Mapped(s, Keep)) \o FlattenSeq(Mapped(t, Keep))
    BY <1>2, FlattenMapped
  <1> QED BY <1>1, <1>3, <1>4, StreamIsMapped DEF S, Bytes

LEMMA StreamOne ==
    ASSUME NEW a \in Payloads
    PROVE  Stream(<<a>>) = Encode(a) /\ Objects(<<a>>) = Emitted(a)
  <1> DEFINE S == 0 .. Base - 1
  <1>1. Takes(Wrap, Payloads, Seq(S)) /\ Takes(Keep, Payloads, Seq(Bytes)) /\ <<a>> \in Seq(Payloads)
    BY WrapKeepTypes
  <1> HIDE DEF S
  <1>2. FlattenSeq(Mapped(<<a>>, Wrap)) = Wrap[a] /\ FlattenSeq(Mapped(<<a>>, Keep)) = Keep[a]
    BY <1>1, FlattenMappedOne
  <1>3. Wrap[a] = Encode(a) /\ Keep[a] = Emitted(a)
    BY DEF Wrap, Keep
  <1> QED BY <1>1, <1>2, <1>3, StreamIsMapped

LEMMA StreamEmpty == Stream(<<>>) = <<>> /\ Objects(<<>>) = <<>>
  <1>1. /\ [i \in DOMAIN <<>> |-> Encode(<<>>[i])] = <<>>
        /\ [i \in DOMAIN <<>> |-> Emitted(<<>>[i])] = <<>>
    OBVIOUS
  <1> QED BY <1>1, FlattenEmpty DEF Stream, Objects

LEMMA ConcatBytes ==
    ASSUME NEW b \in Bytes, NEW z \in Bytes
    PROVE  /\ b \o z \in Bytes /\ Len(b) \in Nat /\ Len(z) \in Nat
           /\ Len(b \o z) = Len(b) + Len(z)
           /\ \A i \in 1 .. Len(b) : (b \o z)[i] = b[i]
           /\ \A i \in 1 .. Len(z) : (b \o z)[Len(b) + i] = z[i]
  <1> DEFINE S == 0 .. Base - 1
  <1>1. b \in Seq(S) /\ z \in Seq(S) /\ Len(b) \in Nat /\ Len(z) \in Nat
    BY BytesOf DEF Bytes
  <1> HIDE DEF S
  <1>2. /\ b \o z \in Seq(S) /\ Len(b \o z) = Len(b) + Len(z)
        /\ \A i \in 1 .. Len(b) + Len(z) : (b \o z)[i] = IF i <= Len(b) THEN b[i] ELSE z[i - Len(b)]
    BY <1>1, ConcatProperties
  <1>3. \A i \in 1 .. Len(b) : (b \o z)[i] = b[i]
    BY <1>1, <1>2
  <1>4. ASSUME NEW i \in 1 .. Len(z) PROVE (b \o z)[Len(b) + i] = z[i]
    <2>1. Len(b) + i \in 1 .. Len(b) + Len(z) /\ ~(Len(b) + i <= Len(b)) /\ Len(b) + i - Len(b) = i
      BY <1>1
    <2> QED BY <2>1, <1>2
  <1> QED BY <1>1, <1>2, <1>3, <1>4 DEF S, Bytes

LEMMA SameBytes ==
    ASSUME NEW b \in Bytes, NEW c \in Bytes, Len(b) = Len(c), \A i \in 1 .. Len(b) : b[i] = c[i]
    PROVE  b = c
  BY SeqEqual DEF Bytes

\* What the codec sees of the first frame.
Begins(b, z, a, u) ==
    /\ b \in Bytes /\ z \in Bytes /\ a \in Payloads /\ u \in Bytes
    /\ b \o z = Encode(a) \o u

LEMMA BeginsFacts ==
    ASSUME NEW b, NEW z, NEW a, NEW u, Begins(b, z, a, u)
    PROVE  /\ \A i \in 1 .. Len(b) : i <= 2 + Len(a) => b[i] = Encode(a)[i]
           /\ \A i \in 1 .. Len(u) : 2 + Len(a) + i <= Len(b) => b[2 + Len(a) + i] = u[i]
           /\ \A i \in 1 .. Len(z), j \in 1 .. Len(u) :
                  Len(b) + i = 2 + Len(a) + j => z[i] = u[j]
           /\ Len(b) + Len(z) = 2 + Len(a) + Len(u)
           /\ Len(b) \in Nat /\ Len(z) \in Nat /\ Len(a) \in Nat /\ Len(u) \in Nat
  <1> DEFINE e == Encode(a)
             s == b \o z
  <1>1. /\ e \in Bytes /\ Len(e) = 2 + Len(a) /\ Len(a) \in Nat
        /\ b \in Bytes /\ z \in Bytes /\ u \in Bytes
    BY EncodeType, PayloadLength DEF Begins
  <1>2. s = e \o u
    BY DEF Begins
  <1> HIDE DEF e, s
  <1>3. /\ Len(b) \in Nat /\ Len(z) \in Nat /\ Len(s) = Len(b) + Len(z)
        /\ \A i \in 1 .. Len(b) : s[i] = b[i]
        /\ \A i \in 1 .. Len(z) : s[Len(b) + i] = z[i]
    BY <1>1, ConcatBytes DEF s
  <1>4. /\ Len(u) \in Nat /\ Len(s) = Len(e) + Len(u)
        /\ \A i \in 1 .. Len(e) : s[i] = e[i]
        /\ \A i \in 1 .. Len(u) : s[Len(e) + i] = u[i]
    BY <1>1, <1>2, ConcatBytes, ZenonT(60)
  <1>5. \A i \in 1 .. Len(b) : i <= 2 + Len(a) => b[i] = e[i]
    BY <1>1, <1>3, <1>4
  <1>6. \A i \in 1 .. Len(u) : 2 + Len(a) + i <= Len(b) => b[2 + Len(a) + i] = u[i]
    BY <1>1, <1>3, <1>4
  <1>7. \A i \in 1 .. Len(z), j \in 1 .. Len(u) : Len(b) + i = 2 + Len(a) + j => z[i] = u[j]
    BY <1>1, <1>3, <1>4
  <1> QED BY <1>1, <1>3, <1>4, <1>5, <1>6, <1>7 DEF e

\* A size that is there is the one that was sent.
LEMMA SizeIsRead ==
    ASSUME NEW b, NEW z, NEW a, NEW u, Begins(b, z, a, u), ~(Len(b) < HeaderSize)
    PROVE  PayloadSize(b) = Len(a) /\ ~InvalidSize(b)
  <1>1. a \in Payloads
    BY DEF Begins
  <1>2. b[1] = Encode(a)[1] /\ b[2] = Encode(a)[2]
    BY BeginsFacts DEF HeaderSize
  <1>3. PayloadSize(b) = Len(a)
    BY <1>1, <1>2, EncodeType, PayloadLength DEF PayloadSize
  <1>4. Len(a) \in 1 .. MaxFrameSize /\ Len(a) \in Nat /\ MaxFrameSize \in Nat
    BY <1>1, PayloadLength, CodecAssumption
  <1> QED BY <1>3, <1>4 DEF InvalidSize

\* Less than a frame is kept.
LEMMA PartIsKept ==
    ASSUME NEW b, NEW z, NEW a, NEW u, Begins(b, z, a, u), Len(b) < 2 + Len(a)
    PROVE  Parse[b] = Result(b, <<>>, FALSE)
  <1>1. b \in Bytes
    BY DEF Begins
  <1>2. Parse[b] = Turn(b, Parse)
    BY <1>1, ParseEquation
  <1>3. CASE Len(b) < HeaderSize
    BY <1>2, <1>3 DEF Turn
  <1>4. CASE ~(Len(b) < HeaderSize)
    <2>1. PayloadSize(b) = Len(a) /\ ~InvalidSize(b)
      BY <1>4, SizeIsRead
    <2>2. Len(b) < HeaderSize + PayloadSize(b)
      BY <2>1 DEF HeaderSize
    <2> QED BY <1>2, <1>4, <2>1, <2>2 DEF Turn
  <1> QED BY <1>3, <1>4

\* A frame is taken off, and the rest is parsed.
LEMMA FrameIsTaken ==
    ASSUME NEW b, NEW z, NEW a, NEW u, Begins(b, z, a, u), ~(Len(b) < 2 + Len(a))
    PROVE  /\ AfterFirst(b) \in Bytes /\ AfterFirst(b) \o z = u
           /\ Parse[AfterFirst(b)].error = FALSE =>
                  Parse[b] = Result(Parse[AfterFirst(b)].rest,
                                    Emitted(a) \o Parse[AfterFirst(b)].messages, FALSE)
  <1>1. b \in Bytes /\ z \in Bytes /\ a \in Bytes /\ u \in Bytes /\ Len(a) \in Nat /\ Len(b) \in Nat
    BY PayloadLength, BytesOf DEF Begins
  <1>2. ~(Len(b) < HeaderSize)
    BY <1>1 DEF HeaderSize
  <1>3. PayloadSize(b) = Len(a) /\ ~InvalidSize(b)
    BY <1>2, SizeIsRead
  <1>4. ~(Len(b) < HeaderSize + PayloadSize(b))
    BY <1>3 DEF HeaderSize
  <1> DEFINE c == AfterFirst(b)
             p == FirstPayload(b)
  <1>5. /\ p \in Bytes /\ Len(p) = Len(a) /\ \A i \in 1 .. Len(a) : p[i] = b[2 + i]
        /\ c \in Bytes /\ Len(c) = Len(b) - 2 - Len(a)
        /\ \A i \in 1 .. Len(c) : c[i] = b[2 + Len(a) + i]
    BY <1>1, <1>2, <1>3, <1>4, FrameSplits, SMTT(40) DEF HeaderSize
  <1>6. Turn(b, Parse) = IF Parse[c].error THEN Parse[c]
                         ELSE Result(Parse[c].rest, Emitted(p) \o Parse[c].messages, FALSE)
    BY <1>2, <1>3, <1>4 DEF Turn
  <1> HIDE DEF c, p
  <1>7. Parse[b] = Turn(b, Parse)
    BY <1>1, ParseEquation
  <1>8. p = a
    <2>1. \A i \in 1 .. Len(a) : b[2 + i] = Encode(a)[2 + i]
      BY <1>1, BeginsFacts
    <2>2. \A i \in 1 .. Len(a) : Encode(a)[2 + i] = a[i]
      BY EncodeType DEF Begins
    <2> QED BY <1>1, <1>5, <2>1, <2>2, SameBytes
  <1>9. c \o z = u
    <2>1. /\ c \o z \in Bytes /\ Len(c) \in Nat /\ Len(z) \in Nat /\ Len(c \o z) = Len(c) + Len(z)
          /\ \A i \in 1 .. Len(c) : (c \o z)[i] = c[i]
          /\ \A i \in 1 .. Len(z) : (c \o z)[Len(c) + i] = z[i]
      BY <1>1, <1>5, ConcatBytes
    <2>2. /\ \A i \in 1 .. Len(u) : 2 + Len(a) + i <= Len(b) => b[2 + Len(a) + i] = u[i]
          /\ \A i \in 1 .. Len(z), j \in 1 .. Len(u) : Len(b) + i = 2 + Len(a) + j => z[i] = u[j]
          /\ Len(b) + Len(z) = 2 + Len(a) + Len(u) /\ Len(u) \in Nat
      BY BeginsFacts
    <2>3. Len(c \o z) = Len(u)
      BY <1>1, <1>5, <2>1, <2>2
    <2>4. ASSUME NEW i \in 1 .. Len(c \o z) PROVE (c \o z)[i] = u[i]
      <3>1. CASE i <= Len(c)
        <4>1. i \in 1 .. Len(c) /\ i \in 1 .. Len(u) /\ 2 + Len(a) + i <= Len(b)
          BY <1>1, <1>5, <2>1, <2>3, <3>1
        <4>2. (c \o z)[i] = c[i] /\ c[i] = b[2 + Len(a) + i] /\ b[2 + Len(a) + i] = u[i]
          BY <4>1, <1>5, <2>1, <2>2
        <4> QED BY <4>2
      <3>2. CASE ~(i <= Len(c))
        <4>1. i - Len(c) \in 1 .. Len(z) /\ Len(c) + (i - Len(c)) = i
              /\ Len(b) + (i - Len(c)) = 2 + Len(a) + i
          BY <1>1, <1>5, <2>1, <2>3, <3>2
        <4>2. (c \o z)[i] = z[i - Len(c)]
          BY <2>1, <4>1
        <4>3. z[i - Len(c)] = u[i]
          BY <2>2, <2>3, <4>1
        <4> QED BY <4>2, <4>3
      <3> QED BY <3>1, <3>2
    <2> QED BY <1>1, <2>1, <2>3, <2>4, SameBytes
  <1> QED BY <1>5, <1>6, <1>7, <1>8, <1>9 DEF c

\* Of the payloads t the objects up to some payload are emitted, rest is kept and z
\* is still to come.
Delivered(t, messages, rest, z) ==
    \E old, new \in Seq(Payloads) :
        /\ t = old \o new
        /\ messages = Objects(old)
        /\ rest \in Bytes /\ rest \o z = Stream(new)
        /\ new # <<>> => Len(rest) < Len(Encode(Head(new)))

Reads(t, r, z) == r.error = FALSE /\ Delivered(t, r.messages, r.rest, z)

\* The first payload of a stream.
LEMMA HeadAndTail ==
    ASSUME NEW t \in Seq(Payloads), t # <<>>
    PROVE  /\ Head(t) \in Payloads /\ Tail(t) \in Seq(Payloads) /\ Len(Tail(t)) = Len(t) - 1
           /\ t = <<Head(t)>> \o Tail(t)
           /\ Stream(t) = Encode(Head(t)) \o Stream(Tail(t))
           /\ Objects(t) = Emitted(Head(t)) \o Objects(Tail(t))
  <1> DEFINE a == Head(t)
             u == Tail(t)
  <1>1. a \in Payloads /\ u \in Seq(Payloads) /\ Len(u) = Len(t) - 1 /\ t = <<a>> \o u
    OBVIOUS
  <1> HIDE DEF a, u
  <1>2. <<a>> \in Seq(Payloads)
    BY <1>1
  <1>3. /\ Stream(<<a>> \o u) = Stream(<<a>>) \o Stream(u)
        /\ Objects(<<a>> \o u) = Objects(<<a>>) \o Objects(u)
    BY <1>1, <1>2, StreamFacts
  <1>4. Stream(<<a>>) = Encode(a) /\ Objects(<<a>>) = Emitted(a)
    BY <1>1, StreamOne
  <1> QED BY <1>1, <1>3, <1>4 DEF a, u

LEMMA ReadsNothing ==
    ASSUME NEW b \in Bytes, NEW z \in Bytes, b \o z = <<>>
    PROVE  Reads(<<>>, Parse[b], z)
  <1>1. Len(b) = 0
    <2>1. Len(b \o z) = Len(b) + Len(z) /\ Len(b) \in Nat /\ Len(z) \in Nat
      BY ConcatBytes
    <2> QED BY <2>1
  <1>2. Parse[b] = Result(b, <<>>, FALSE)
    BY <1>1, ParseEquation DEF Turn, HeaderSize
  <1>3. <<>> \in Seq(Payloads) /\ <<>> = <<>> \o <<>>
    OBVIOUS
  <1>4. Parse[b].rest = b /\ Parse[b].messages = <<>> /\ Parse[b].error = FALSE
    BY <1>2 DEF Result
  <1> QED BY <1>3, <1>4, StreamEmpty DEF Reads, Delivered

LEMMA ReadsPart ==
    ASSUME NEW t \in Seq(Payloads), t # <<>>, NEW b \in Bytes, NEW z \in Bytes, b \o z = Stream(t),
           Len(b) < 2 + Len(Head(t))
    PROVE  Reads(t, Parse[b], z)
  <1>1. Begins(b, z, Head(t), Stream(Tail(t)))
    BY HeadAndTail, StreamFacts DEF Begins
  <1>2. Parse[b] = Result(b, <<>>, FALSE)
    BY <1>1, PartIsKept
  <1>3. Len(Encode(Head(t))) = 2 + Len(Head(t))
    BY HeadAndTail, EncodeType
  <1>4. <<>> \in Seq(Payloads) /\ t = <<>> \o t
    OBVIOUS
  <1>5. /\ Parse[b].rest = b /\ Parse[b].messages = <<>> /\ Parse[b].error = FALSE
    BY <1>2 DEF Result
  <1> QED BY <1>3, <1>4, <1>5, StreamEmpty DEF Reads, Delivered

LEMMA ReadsFrame ==
    ASSUME NEW t \in Seq(Payloads), t # <<>>, NEW b \in Bytes, NEW z \in Bytes, b \o z = Stream(t),
           ~(Len(b) < 2 + Len(Head(t))),
           \A c \in Bytes : c \o z = Stream(Tail(t)) => Reads(Tail(t), Parse[c], z)
    PROVE  Reads(t, Parse[b], z)
  <1> DEFINE a == Head(t)
             u == Tail(t)
             c == AfterFirst(b)
  <1>1. Begins(b, z, a, Stream(u))
    BY HeadAndTail, StreamFacts DEF Begins
  <1>2. /\ c \in Bytes /\ c \o z = Stream(u)
        /\ Parse[c].error = FALSE =>
               Parse[b] = Result(Parse[c].rest, Emitted(a) \o Parse[c].messages, FALSE)
    BY <1>1, FrameIsTaken
  <1>3. Reads(u, Parse[c], z)
    BY <1>2
  <1>4. a \in Payloads /\ u \in Seq(Payloads) /\ t = <<a>> \o u
    BY HeadAndTail
  <1> HIDE DEF a, u, c
  <1>5. PICK old \in Seq(Payloads), new \in Seq(Payloads) :
            /\ u = old \o new
            /\ Parse[c].messages = Objects(old) /\ Parse[c].error = FALSE
            /\ Parse[c].rest \in Bytes /\ Parse[c].rest \o z = Stream(new)
            /\ new # <<>> => Len(Parse[c].rest) < Len(Encode(Head(new)))
    BY <1>3 DEF Reads, Delivered
  <1>6. <<a>> \in Seq(Payloads)
    BY <1>4
  <1>7. <<a>> \o old \in Seq(Payloads) /\ t = (<<a>> \o old) \o new
    <2>1. (<<a>> \o old) \o new = <<a>> \o (old \o new)
      BY <1>6, ConcatAssociative
    <2> QED BY <1>4, <1>5, <1>6, <2>1, ConcatProperties
  <1>8. Objects(<<a>> \o old) = Emitted(a) \o Objects(old)
    BY <1>4, <1>6, StreamFacts, StreamOne
  <1>9. /\ Parse[b].rest = Parse[c].rest /\ Parse[b].error = FALSE
        /\ Parse[b].messages = Emitted(a) \o Objects(old)
    <2>1. Parse[b] = Result(Parse[c].rest, Emitted(a) \o Objects(old), FALSE)
      BY <1>2, <1>5
    <2> QED BY <2>1 DEF Result
  <1> QED BY <1>5, <1>7, <1>8, <1>9 DEF Reads, Delivered

\* However a stream of accepted payloads is cut, the codec emits the objects among
\* the complete frames and keeps less than one frame, which begins the rest.
THEOREM CodecReads ==
    ASSUME NEW t \in Seq(Payloads), NEW b \in Bytes, NEW z \in Bytes, b \o z = Stream(t)
    PROVE  Reads(t, Parse[b], z)
  <1> DEFINE Good(s) == \A c \in Bytes : c \o z = Stream(s) => Reads(s, Parse[c], z)
             Bad == {n \in Nat : \E s \in Seq(Payloads) : Len(s) = n /\ ~Good(s)}
  <1>1. \A s \in Seq(Payloads) : s # <<>> /\ Good(Tail(s)) => Good(s)
    BY ReadsPart, ReadsFrame
  <1>2. Good(<<>>)
    BY ReadsNothing, StreamEmpty
  <1> HIDE DEF Good
  <1>3. Bad = {}
    <2> SUFFICES ASSUME Bad # {} PROVE FALSE
      OBVIOUS
    <2>1. PICK n \in Bad : \A k \in Bad : n <= k
      BY Least, Bad \in SUBSET Nat
    <2>2. PICK s \in Seq(Payloads) : Len(s) = n /\ ~Good(s)
      OBVIOUS
    <2>3. s # <<>>
      BY <1>2, <2>2
    <2>4. Tail(s) \in Seq(Payloads) /\ Len(Tail(s)) = n - 1 /\ n - 1 \in Nat
      BY <2>2, <2>3, HeadTailProperties, EmptySeq
    <2>5. ~Good(Tail(s))
      BY <1>1, <2>2, <2>3
    <2>6. \E u \in Seq(Payloads) : Len(u) = n - 1 /\ ~Good(u)
      BY <2>4, <2>5
    <2>7. n - 1 \in Bad
      BY <2>4, <2>6
    <2>8. ~(n <= n - 1)
      BY <2>4
    <2> QED BY <2>1, <2>7, <2>8
  <1>4. Good(t)
    <2>1. Len(t) \in Nat
      OBVIOUS
    <2> QED BY <1>3, <2>1
  <1> QED BY <1>4 DEF Good

-----------------------------------------------------------------------------
(* What comes in.                                                               *)

\* What is on its way to the client, and what of it has been read.
IncomingInv ==
    /\ buffer \in Bytes /\ inflight \in Bytes
    /\ said \in Seq(Payloads) /\ said \in Seq(Answers)
    /\ got \in Seq(Bytes)
    /\ sock # "connected" => buffer = <<>>

LEMMA AnswersAreAccepted == Answers \subseteq Payloads
  BY ClientAssumption, AnswerAssumption DEF Payloads

LEMMA InitIncoming == Init => IncomingInv
  <1> SUFFICES ASSUME Init PROVE IncomingInv
    OBVIOUS
  <1>1. buffer = <<>> /\ inflight = <<>> /\ said = <<>> /\ got = <<>>
    BY DEF Init
  <1>2. <<>> \in Bytes /\ <<>> \in Seq(Bytes) /\ <<>> \in Seq(Payloads) /\ <<>> \in Seq(Answers)
    <2>1. \A S : <<>> \in Seq(S)
      BY EmptySeq, Zenon
    <2> QED BY <2>1, EmptyTypes
  <1> QED BY <1>1, <1>2 DEF IncomingInv

\* A read takes the first bytes of what is on its way.
LEMMA CutBytes ==
    ASSUME NEW b \in Bytes, NEW n \in 1 .. Len(b)
    PROVE  /\ SubSeq(b, 1, n) \in Bytes /\ SubSeq(b, n + 1, Len(b)) \in Bytes
           /\ b = SubSeq(b, 1, n) \o SubSeq(b, n + 1, Len(b))
  <1> DEFINE S == 0 .. Base - 1
  <1>1. b \in Seq(S) /\ Len(b) \in Nat
    BY BytesOf DEF Bytes
  <1> HIDE DEF S
  <1>2. SubSeq(b, 1, n) \in Seq(S) /\ SubSeq(b, n + 1, Len(b)) \in Seq(S)
    BY <1>1
  <1>3. SubSeq(b, 1, n) \o SubSeq(b, n + 1, Len(b)) = SubSeq(b, 1, Len(b))
    <2>1. 1 \in 1 .. Len(b) + 1 /\ n \in 1 - 1 .. Len(b) /\ Len(b) \in n .. Len(b)
      BY <1>1
    <2> QED BY <1>1, <2>1, ConcatAdjacentSubSeq
  <1>4. SubSeq(b, 1, Len(b)) = b
    BY <1>1, SubSeqFull
  <1> QED BY <1>2, <1>3, <1>4, Zenon DEF S, Bytes

LEMMA NextIncoming ==
    ASSUME OutgoingInv, IncomingInv, [Next]_vars
    PROVE  IncomingInv'
  <1>1. CASE ConnectToServer \/ Reconnect
    BY <1>1, EmptyTypes DEF ConnectToServer, Reconnect, Reopen, OnDisconnected, IncomingInv
  <1>2. ASSUME NEW cmd \in {"login", "other"}, SendCommand(cmd) PROVE IncomingInv'
    BY <1>2 DEF SendCommand, incoming, IncomingInv
  <1>3. CASE OnConnected
    <2>1. said' = <<>> /\ inflight' = <<>> /\ got' = <<>> /\ buffer' = buffer /\ sock' = "connected"
      BY <1>3 DEF OnConnected
    <2>2. <<>> \in Bytes /\ <<>> \in Seq(Bytes) /\ <<>> \in Seq(Payloads) /\ <<>> \in Seq(Answers)
      BY EmptyTypes
    <2> QED BY <2>1, <2>2 DEF IncomingInv
  <1>4. CASE OnSocketError
    BY <1>4 DEF OnSocketError, incoming, IncomingInv
  <1>5. CASE ConnectionLost
    BY <1>5, EmptyTypes DEF ConnectionLost, OnDisconnected, IncomingInv
  <1>6. ASSUME NEW a \in Answers, ServerSends(a) PROVE IncomingInv'
    <2>1. a \in Payloads
      BY AnswersAreAccepted
    <2>2. said' \in Seq(Payloads) /\ said' \in Seq(Answers)
      BY <1>6, <2>1 DEF ServerSends, IncomingInv
    <2>3. Encode(a) \in Bytes
      BY <2>1, EncodeType
    <2>4. inflight' \in Bytes
      BY <1>6, <2>3, ConcatBytes DEF ServerSends, IncomingInv
    <2> QED BY <1>6, <2>2, <2>4 DEF ServerSends, IncomingInv
  <1>7. ASSUME NEW n \in 1 .. Len(inflight), OnReadyRead(n) PROVE IncomingInv'
    <2> DEFINE b == buffer \o SubSeq(inflight, 1, n)
    <2>1. /\ inflight' = SubSeq(inflight, n + 1, Len(inflight)) /\ inflight' \in Bytes
          /\ SubSeq(inflight, 1, n) \in Bytes
      BY <1>7, CutBytes DEF OnReadyRead, IncomingInv
    <2>2. b \in Bytes
      BY <2>1, ConcatBytes DEF IncomingInv
    <2>3. /\ buffer' = Parse[b].rest /\ got' = got \o Parse[b].messages
          /\ sock' = sock /\ sock = "connected" /\ said' = said
      BY <1>7 DEF OnReadyRead
    <2> HIDE DEF b
    <2>4. Parse[b].rest \in Bytes /\ Parse[b].messages \in Seq(Bytes)
      <3>1. Parse[b] \in Results
        BY <2>2, ParseType
      <3> QED BY <3>1 DEF Results
    <2>5. got' \in Seq(Bytes)
      BY <2>3, <2>4, ConcatProperties DEF IncomingInv
    <2> QED BY <2>1, <2>3, <2>4, <2>5 DEF IncomingInv
  <1>8. CASE Logout
    BY <1>8 DEF Logout, incoming, IncomingInv
  <1>9. CASE UNCHANGED vars
    BY <1>9 DEF vars, IncomingInv
  <1> QED BY <1>1, <1>2, <1>3, <1>4, <1>5, <1>6, <1>7, <1>8, <1>9 DEF Next

\* Every variable keeps its type, and the queue its bound: whatever bytes are read,
\* what append() leaves and emits are bytes and payloads.
THEOREM ClientTypeCorrect == Spec => []TypeOK
  <1>1. Init => OutgoingInv /\ IncomingInv
    BY InitOutgoing, InitIncoming
  <1>2. OutgoingInv /\ IncomingInv /\ [Next]_vars => OutgoingInv' /\ IncomingInv'
    BY NextOutgoing, NextIncoming
  <1>3. OutgoingInv /\ IncomingInv => TypeOK
    BY DEF OutgoingInv, IncomingInv, TypeOK
  <1> QED BY <1>1, <1>2, <1>3, PTL DEF Spec

\* What was emitted, kept and not yet read is what the server has sent.
StreamInv == sock = "connected" => Delivered(said, got, buffer, inflight)

LEMMA ConnectKeepsStream ==
    ASSUME IncomingInv, OnConnected
    PROVE  StreamInv'
  <1>1. /\ said' = <<>> /\ inflight' = <<>> /\ got' = <<>> /\ buffer' = <<>>
    BY DEF OnConnected, IncomingInv
  <1>2. <<>> \in Seq(Payloads) /\ <<>> = <<>> \o <<>> /\ <<>> \in Bytes
    BY EmptyTypes
  <1>3. Delivered(<<>>, <<>>, <<>>, <<>>)
    BY <1>2, StreamEmpty DEF Delivered
  <1> QED BY <1>1, <1>3 DEF StreamInv

LEMMA SendKeepsStream ==
    ASSUME IncomingInv, StreamInv, NEW a \in Answers, ServerSends(a)
    PROVE  StreamInv'
  <1>1. /\ said' = Append(said, a) /\ inflight' = inflight \o Encode(a) /\ sock = "connected"
        /\ buffer' = buffer /\ got' = got
    BY DEF ServerSends
  <1>2. a \in Payloads /\ buffer \in Bytes /\ inflight \in Bytes /\ said \in Seq(Payloads)
    BY AnswersAreAccepted DEF IncomingInv
  <1>3. PICK old \in Seq(Payloads), new \in Seq(Payloads) :
            /\ said = old \o new
            /\ got = Objects(old)
            /\ buffer \o inflight = Stream(new)
            /\ new # <<>> => Len(buffer) < Len(Encode(Head(new)))
    BY <1>1 DEF StreamInv, Delivered
  <1> DEFINE more == Append(new, a)
  <1>4. /\ more \in Seq(Payloads) /\ more = new \o <<a>> /\ <<a>> \in Seq(Payloads)
        /\ Head(more) = IF new = <<>> THEN a ELSE Head(new)
    BY <1>2, AppendProperties, AppendIsConcat, HeadTailAppend
  <1>5. Append(said, a) = old \o more
    <2>1. Append(said, a) = said \o <<a>>
      BY <1>2, AppendIsConcat
    <2>2. (old \o new) \o <<a>> = old \o (new \o <<a>>)
      BY <1>4, ConcatAssociative
    <2> QED BY <2>1, <2>2, <1>3, <1>4
  <1>6. buffer \o (inflight \o Encode(a)) = Stream(more)
    <2>1. Encode(a) \in Bytes
      BY <1>2, EncodeType
    <2>2. (buffer \o inflight) \o Encode(a) = buffer \o (inflight \o Encode(a))
      BY <1>2, <2>1, ConcatAssociative, SMTT(40) DEF Bytes
    <2>3. Stream(more) = Stream(new) \o Encode(a)
      BY <1>2, <1>4, StreamFacts, StreamOne
    <2> QED BY <1>3, <2>2, <2>3
  <1>7. Len(buffer) < Len(Encode(Head(more)))
    <2>1. CASE new = <<>>
      <3>1. /\ Len(buffer \o inflight) = Len(buffer) + Len(inflight)
            /\ Len(buffer) \in Nat /\ Len(inflight) \in Nat
        BY <1>2, ConcatBytes
      <3>2. Len(buffer) = 0
        BY <2>1, <1>3, <3>1, StreamEmpty
      <3>3. Len(Encode(a)) = 2 + Len(a) /\ Len(a) \in Nat
        BY <1>2, EncodeType, PayloadLength
      <3> QED BY <2>1, <1>4, <3>2, <3>3
    <2>2. CASE new # <<>>
      BY <2>2, <1>3, <1>4
    <2> QED BY <2>1, <2>2
  <1> HIDE DEF more
  <1>8. Delivered(Append(said, a), got, buffer, inflight \o Encode(a))
    BY <1>2, <1>3, <1>4, <1>5, <1>6, <1>7 DEF Delivered
  <1> QED BY <1>1, <1>8 DEF StreamInv

LEMMA ReadKeepsStream ==
    ASSUME IncomingInv, StreamInv, NEW n \in 1 .. Len(inflight), OnReadyRead(n)
    PROVE  /\ StreamInv'
           /\ \E old, read, new \in Seq(Payloads) :
                  /\ said = old \o (read \o new)
                  /\ Parse[buffer \o SubSeq(inflight, 1, n)].messages = Objects(read)
  <1> DEFINE first == SubSeq(inflight, 1, n)
             z == SubSeq(inflight, n + 1, Len(inflight))
             b == buffer \o first
  <1>1. /\ inflight' = z /\ buffer' = Parse[b].rest /\ got' = got \o Parse[b].messages
        /\ sock = "connected" /\ said' = said
    BY DEF OnReadyRead
  <1>2. /\ first \in Bytes /\ z \in Bytes /\ inflight = first \o z
        /\ buffer \in Bytes
    BY CutBytes DEF IncomingInv
  <1> HIDE DEF first, z
  <1>3. b \in Bytes
    BY <1>2, ConcatBytes
  <1>4. PICK old \in Seq(Payloads), new \in Seq(Payloads) :
            /\ said = old \o new
            /\ got = Objects(old)
            /\ buffer \o inflight = Stream(new)
    BY <1>1 DEF StreamInv, Delivered
  <1>5. b \o z = Stream(new)
    <2>1. (buffer \o first) \o z = buffer \o (first \o z)
      BY <1>2, ConcatAssociative, SMTT(40) DEF Bytes
    <2> QED BY <2>1, <1>2, <1>4
  <1> HIDE DEF b
  <1>6. Reads(new, Parse[b], z)
    BY <1>2, <1>3, <1>5, CodecReads
  <1>7. PICK read \in Seq(Payloads), left \in Seq(Payloads) :
            /\ new = read \o left
            /\ Parse[b].messages = Objects(read)
            /\ Parse[b].rest \in Bytes /\ Parse[b].rest \o z = Stream(left)
            /\ left # <<>> => Len(Parse[b].rest) < Len(Encode(Head(left)))
    BY <1>6 DEF Reads, Delivered
  <1>8. old \o read \in Seq(Payloads) /\ Objects(old \o read) = Objects(old) \o Objects(read)
    BY StreamFacts, ConcatProperties
  <1>9. said = (old \o read) \o left
    <2>1. (old \o read) \o left = old \o (read \o left)
      BY ConcatAssociative, SMTT(40)
    <2> QED BY <2>1, <1>4, <1>7
  <1>10. Delivered(said, got \o Parse[b].messages, Parse[b].rest, z)
    BY <1>4, <1>7, <1>8, <1>9 DEF Delivered
  <1> QED BY <1>1, <1>4, <1>7, <1>10 DEF StreamInv, b, first

LEMMA NextStream ==
    ASSUME OutgoingInv, IncomingInv, StreamInv, [Next]_vars
    PROVE  StreamInv'
  <1>1. CASE ConnectToServer \/ Reconnect
    BY <1>1 DEF ConnectToServer, Reconnect, Reopen, StreamInv
  <1>2. CASE OnSocketError \/ ConnectionLost
    BY <1>2 DEF OnSocketError, ConnectionLost, StreamInv
  <1>3. CASE UNCHANGED <<sock, incoming>>
    BY <1>3 DEF incoming, StreamInv
  <1>4. ASSUME NEW n \in 1 .. Len(inflight), OnReadyRead(n) PROVE StreamInv'
    BY <1>4, ReadKeepsStream
  <1>5. ASSUME NEW a \in Answers, ServerSends(a) PROVE StreamInv'
    BY <1>5, SendKeepsStream
  <1>6. Next => \/ ConnectToServer \/ Reconnect \/ OnConnected \/ OnSocketError \/ ConnectionLost
                \/ UNCHANGED <<sock, incoming>>
                \/ \E n \in 1 .. Len(inflight) : OnReadyRead(n)
                \/ \E a \in Answers : ServerSends(a)
    BY DEF Next, SendCommand, Logout
  <1>7. UNCHANGED vars => UNCHANGED <<sock, incoming>>
    BY DEF vars, incoming
  <1> QED BY <1>1, <1>2, <1>3, <1>4, <1>5, <1>6, <1>7, ConnectKeepsStream

LEMMA StreamShows ==
    ASSUME IncomingInv, StreamInv
    PROVE  MessagesInOrder
  <1> SUFFICES ASSUME sock = "connected"
               PROVE  \E n \in 0 .. Len(said) :
                          LET unread == SubSeq(said, n + 1, Len(said)) IN
                          /\ got = Objects(SubSeq(said, 1, n))
                          /\ buffer \o inflight = Stream(unread)
                          /\ unread # <<>> => Len(buffer) < Len(Encode(Head(unread)))
    BY DEF MessagesInOrder
  <1>1. PICK old \in Seq(Payloads), new \in Seq(Payloads) :
            /\ said = old \o new
            /\ got = Objects(old)
            /\ buffer \o inflight = Stream(new)
            /\ new # <<>> => Len(buffer) < Len(Encode(Head(new)))
    BY DEF StreamInv, Delivered
  <1>2. Len(old) \in 0 .. Len(said) /\ Len(said) = Len(old) + Len(new)
    BY <1>1, ConcatProperties, LenProperties
  <1>3. SubSeq(said, 1, Len(old)) = old
    <2>1. \A i \in 1 .. Len(old) : said[i] = old[i]
      BY <1>1, ConcatProperties
    <2> QED BY <2>1, <1>2
  <1>4. SubSeq(said, Len(old) + 1, Len(said)) = new
    <2>1. \A i \in 1 .. Len(new) : said[Len(old) + i] = new[i]
      BY <1>1, ConcatProperties
    <2> QED BY <2>1, <1>2
  <1> QED BY <1>1, <1>2, <1>3, <1>4

\* For any payloads, however TCP cuts them and whenever connections end, readyRead()
\* has emitted the objects among the complete frames, in order and once, and the codec
\* has the beginning of the next.
THEOREM MessagesAreWhole == Spec => []MessagesInOrder
  <1>1. Init => OutgoingInv /\ IncomingInv /\ StreamInv
    BY InitOutgoing, InitIncoming DEF Init, StreamInv
  <1>2. OutgoingInv /\ IncomingInv /\ StreamInv /\ [Next]_vars
            => OutgoingInv' /\ IncomingInv' /\ StreamInv'
    BY NextOutgoing, NextIncoming, NextStream
  <1>3. IncomingInv /\ StreamInv => MessagesInOrder
    BY StreamShows
  <1> QED BY <1>1, <1>2, <1>3, PTL DEF Spec

-----------------------------------------------------------------------------
(* The login goes first.                                                        *)

\* A message is one of the payloads it was read from.
LEMMA ObjectsOf ==
    ASSUME NEW t \in Seq(Payloads), NEW p, Contains(Objects(t), p)
    PROVE  \E i \in 1 .. Len(t) : t[i] = p
  <1> DEFINE Among(s) == \E i \in 1 .. Len(s) : s[i] = p
             Good(s) == Contains(Objects(s), p) => Among(s)
             Bad == {n \in Nat : \E s \in Seq(Payloads) : Len(s) = n /\ ~Good(s)}
  <1>1. Good(<<>>)
    <2>1. Objects(<<>>) = <<>> /\ Len(<<>>) = 0
      BY StreamEmpty
    <2> QED BY <2>1 DEF Contains
  <1>2. ASSUME NEW s \in Seq(Payloads), s # <<>>, Good(Tail(s)) PROVE Good(s)
    <2> DEFINE e == Emitted(Head(s))
               o == Objects(Tail(s))
    <2>1. SUFFICES ASSUME Contains(Objects(s), p) PROVE Among(s)
      OBVIOUS
    <2>2. /\ e \in Seq(Bytes) /\ o \in Seq(Bytes) /\ Objects(s) = e \o o
          /\ Len(s) \in Nat \ {0} /\ Len(Tail(s)) = Len(s) - 1
      <3>1. /\ Head(s) \in Payloads /\ Tail(s) \in Seq(Payloads) /\ Objects(s) = e \o o
            /\ Len(Tail(s)) = Len(s) - 1
        BY <1>2, HeadAndTail
      <3>2. e \in Seq(Bytes)
        BY <3>1, EmittedType DEF Payloads
      <3>3. o \in Seq(Bytes)
        BY <3>1, StreamFacts
      <3> HIDE DEF e, o
      <3>4. Len(s) \in Nat \ {0}
        BY <1>2, EmptySeq, LenProperties
      <3> QED BY <3>1, <3>2, <3>3, <3>4
    <2>3. \A i \in 1 .. Len(e) : e[i] = s[1]
      <3> DEFINE h == Head(s)
      <3>1. h = s[1]
        BY <1>2
      <3> HIDE DEF h
      <3>2. \A i \in 1 .. Len(Emitted(h)) : Emitted(h)[i] = h
        BY DEF Emitted
      <3> QED BY <3>1, <3>2 DEF h
    <2> HIDE DEF e, o
    <2>4. PICK i \in 1 .. Len(e \o o) : (e \o o)[i] = p
      BY <2>1, <2>2 DEF Contains
    <2>5. /\ Len(e \o o) = Len(e) + Len(o) /\ Len(e) \in Nat /\ Len(o) \in Nat
          /\ (e \o o)[i] = IF i <= Len(e) THEN e[i] ELSE o[i - Len(e)]
      BY <2>2, ConcatProperties, LenProperties
    <2>6. CASE i <= Len(e)
      <3>1. s[1] = p /\ 1 \in 1 .. Len(s)
        BY <2>2, <2>3, <2>4, <2>5, <2>6
      <3> QED BY <3>1
    <2>7. CASE ~(i <= Len(e))
      <3>1. i - Len(e) \in 1 .. Len(o) /\ o[i - Len(e)] = p
        BY <2>4, <2>5, <2>7
      <3>2. Contains(Objects(Tail(s)), p)
        BY <3>1 DEF Contains, o
      <3>3. PICK k \in 1 .. Len(Tail(s)) : Tail(s)[k] = p
        BY <1>2, <3>2
      <3>4. k + 1 \in 1 .. Len(s) /\ s[k + 1] = p
        BY <1>2, <2>2, <3>3, HeadTailProperties
      <3> QED BY <3>4
    <2> QED BY <2>6, <2>7
  <1> HIDE DEF Good
  <1>3. Bad = {}
    <2> SUFFICES ASSUME Bad # {} PROVE FALSE
      OBVIOUS
    <2>1. PICK n \in Bad : \A k \in Bad : n <= k
      BY Least, Bad \in SUBSET Nat
    <2>2. PICK s \in Seq(Payloads) : Len(s) = n /\ ~Good(s)
      OBVIOUS
    <2>3. s # <<>>
      BY <1>1, <2>2
    <2>4. Tail(s) \in Seq(Payloads) /\ Len(Tail(s)) = n - 1 /\ n - 1 \in Nat
      BY <2>2, <2>3, HeadTailProperties, EmptySeq
    <2>5. ~Good(Tail(s))
      BY <1>2, <2>2, <2>3
    <2>6. n - 1 \in Bad
      BY <2>4, <2>5
    <2> QED BY <2>1, <2>4, <2>6
  <1>4. Good(t)
    <2>1. Len(t) \in Nat
      OBVIOUS
    <2> QED BY <1>3, <2>1
  <1> QED BY <1>4 DEF Good

\* A login was written on this connection.
LoginSent == \E i \in 1 .. Len(wire) : wire[i].cmd = "login"

\* A command waits for a signed-in user only while there is one, and the user's next
\* name, or an answer that brings a user, comes after a login on the same connection.
LoginInv ==
    /\ \A i \in 1 .. Len(pending) : pending[i].signedIn => SignedIn
    /\ sock = "connected" /\ SignedIn => LoginSent
    /\ sock = "connected" /\ (\E i \in 1 .. Len(said) : said[i] = UserAnswer) => LoginSent
    /\ CommandsFollowLogin

LEMMA InitLogin == Init => LoginInv
  BY DEF Init, LoginInv, CommandsFollowLogin

LEMMA SendKeepsLogin ==
    ASSUME OutgoingInv, LoginInv, NEW cmd \in {"login", "other"}, SendCommand(cmd)
    PROVE  LoginInv'
  <1> DEFINE f == [no |-> issued + 1, cmd |-> cmd, signedIn |-> SignedIn]
  <1>1. f \in Frame /\ f.cmd = cmd /\ f.signedIn = SignedIn
    BY DEF Frame, SignedIn, OutgoingInv
  <1>2. UNCHANGED <<sock, said>> /\ (SignedIn => SignedIn') /\ (SignedIn' => SignedIn \/ cmd = "login")
    BY DEF SendCommand, incoming, SignedIn
  <1> HIDE DEF f
  <1>3. CASE sock = "connected"
    <2>1. wire' = Append(wire, f) /\ pending' = pending
      BY <1>3 DEF SendCommand, f
    <2>2. /\ Len(wire) \in Nat /\ Len(wire') = Len(wire) + 1 /\ wire'[Len(wire) + 1] = f
          /\ \A i \in 1 .. Len(wire) : wire'[i] = wire[i]
      BY <1>1, <2>1, AppendProperties DEF OutgoingInv
    <2>3. (LoginSent => LoginSent') /\ (cmd = "login" => LoginSent')
      BY <1>1, <2>2 DEF LoginSent
    <2>4. CommandsFollowLogin'
      <3> SUFFICES ASSUME NEW i \in 1 .. Len(wire'), wire'[i].signedIn
                   PROVE  \E j \in 1 .. i - 1 : wire'[j].cmd = "login"
        BY <2>1, <1>1 DEF CommandsFollowLogin, OutgoingInv
      <3>1. CASE i = Len(wire) + 1
        <4>1. SignedIn
          BY <1>1, <2>2, <3>1
        <4>2. PICK j \in 1 .. Len(wire) : wire[j].cmd = "login"
          BY <1>3, <4>1 DEF LoginInv, LoginSent
        <4> QED BY <2>2, <3>1, <4>2
      <3>2. CASE i # Len(wire) + 1
        <4>1. i \in DOMAIN wire /\ i \in 1 .. Len(wire) /\ wire[i].signedIn
          BY <2>2, <3>2 DEF OutgoingInv
        <4>2. PICK j \in 1 .. i - 1 : wire[j].cmd = "login"
          BY <4>1 DEF LoginInv, CommandsFollowLogin
        <4> QED BY <2>2, <4>1, <4>2
      <3> QED BY <3>1, <3>2
    <2> QED BY <1>2, <2>1, <2>3, <2>4 DEF LoginInv
  <1>4. CASE sock # "connected"
    <2>1. pending' = Enqueue(f) /\ wire' = wire
      BY <1>4 DEF SendCommand, f
    <2>2. \A i \in 1 .. Len(pending') : pending'[i].signedIn => SignedIn
      <3>1. CASE Len(pending) >= MaxPending
        <4> DEFINE t == Tail(pending)
        <4>1. pending # <<>> /\ pending' = Append(t, f)
          BY <2>1, <3>1, ClientAssumption DEF Enqueue, OutgoingInv
        <4>2. /\ t \in Seq(Frame) /\ Len(t) = Len(pending) - 1 /\ Len(pending) \in Nat
              /\ \A i \in 1 .. Len(t) : t[i] = pending[i + 1]
          BY <4>1, HeadTailProperties DEF OutgoingInv
        <4>3. \A i \in 1 .. Len(t) : t[i].signedIn => SignedIn
          BY <4>2 DEF LoginInv
        <4> HIDE DEF t
        <4> QED BY <1>1, <4>1, <4>2, <4>3, AppendProperties
      <3>2. CASE ~(Len(pending) >= MaxPending)
        <4>1. pending' = Append(pending, f)
          BY <2>1, <3>2 DEF Enqueue
        <4> QED BY <1>1, <4>1, AppendProperties DEF OutgoingInv, LoginInv
      <3> QED BY <3>1, <3>2
    <2> QED BY <1>2, <1>4, <2>1, <2>2 DEF LoginInv, CommandsFollowLogin
  <1> QED BY <1>3, <1>4

LEMMA ConnectKeepsLogin ==
    ASSUME OutgoingInv, LoginInv, OnConnected
    PROVE  LoginInv'
  <1>1. /\ wire' = FirstFrames /\ pending' = <<>> /\ said' = <<>> /\ SignedIn' = SignedIn
    BY DEF OnConnected, account, SignedIn
  <1>2. CASE SignedIn
    <2> DEFINE greeting == <<Relogin>>
    <2>1. wire' = greeting \o pending
      BY <1>1, <1>2 DEF FirstFrames
    <2>2. /\ greeting \in Seq(Frame) /\ Len(greeting) = 1
          /\ greeting[1].cmd = "login" /\ greeting[1].signedIn = FALSE
      BY ReloginType DEF Relogin
    <2> HIDE DEF greeting
    <2>3. /\ Len(wire') \in Nat \ {0} /\ DOMAIN wire' = 1 .. Len(wire')
          /\ wire'[1] = greeting[1]
      <3>1. pending \in Seq(Frame) /\ Len(pending) \in Nat
        BY DEF OutgoingInv
      <3> DEFINE both == greeting \o pending
      <3>2. /\ both \in Seq(Frame) /\ Len(both) = Len(greeting) + Len(pending)
            /\ \A i \in 1 .. Len(greeting) + Len(pending) :
                   both[i] = IF i <= Len(greeting) THEN greeting[i] ELSE pending[i - Len(greeting)]
        BY <2>2, <3>1, ConcatProperties
      <3> HIDE DEF both
      <3>3. Len(both) \in Nat \ {0} /\ both[1] = greeting[1]
        BY <2>2, <3>1, <3>2
      <3>4. wire' = both
        BY <2>1 DEF both
      <3> QED BY <3>2, <3>3, <3>4
    <2>4. LoginSent'
      BY <2>2, <2>3 DEF LoginSent
    <2>5. CommandsFollowLogin'
      <3> SUFFICES ASSUME NEW i \in 1 .. Len(wire'), wire'[i].signedIn
                   PROVE  \E j \in 1 .. i - 1 : wire'[j].cmd = "login"
        BY <2>3 DEF CommandsFollowLogin
      <3>1. i # 1
        BY <2>2, <2>3
      <3> QED BY <2>2, <2>3, <3>1
    <2> QED BY <1>1, <2>4, <2>5 DEF LoginInv
  <1>3. CASE ~SignedIn
    <2>1. wire' = pending
      BY <1>1, <1>3 DEF FirstFrames, OutgoingInv
    <2>2. CommandsFollowLogin'
      BY <1>3, <2>1 DEF CommandsFollowLogin, LoginInv, OutgoingInv
    <2> QED BY <1>1, <1>3, <2>2 DEF LoginInv
  <1> QED BY <1>2, <1>3

LEMMA ReadKeepsLogin ==
    ASSUME OutgoingInv, IncomingInv, StreamInv, LoginInv,
           NEW n \in 1 .. Len(inflight), OnReadyRead(n)
    PROVE  LoginInv'
  <1> DEFINE m == Parse[buffer \o SubSeq(inflight, 1, n)].messages
  <1>1. /\ sock = "connected" /\ UNCHANGED <<sock, pending, wire, said>>
        /\ SignedIn => SignedIn'
        /\ SignedIn' => SignedIn \/ Contains(m, UserAnswer)
    BY DEF OnReadyRead, outgoing, SignedIn
  <1>2. PICK old \in Seq(Payloads), read \in Seq(Payloads), new \in Seq(Payloads) :
            said = old \o (read \o new) /\ m = Objects(read)
    BY ReadKeepsStream
  <1> HIDE DEF m
  <1>3. ASSUME Contains(m, UserAnswer) PROVE LoginSent
    <2>1. PICK i \in 1 .. Len(read) : read[i] = UserAnswer
      BY <1>2, <1>3, ObjectsOf
    <2> DEFINE more == read \o new
    <2>2. more \in Seq(Payloads) /\ i \in 1 .. Len(more) /\ more[i] = UserAnswer
      BY <2>1, ConcatProperties, LenProperties
    <2> HIDE DEF more
    <2>3. /\ Len(old) \in Nat /\ Len(more) \in Nat /\ Len(old \o more) = Len(old) + Len(more)
          /\ \A k \in 1 .. Len(more) : (old \o more)[Len(old) + k] = more[k]
      BY <2>2, ConcatProperties, LenProperties
    <2>4. said = old \o more
      BY <1>2 DEF more
    <2>5. Len(old) + i \in 1 .. Len(said) /\ said[Len(old) + i] = UserAnswer
      BY <2>2, <2>3, <2>4
    <2> QED BY <1>1, <2>5 DEF LoginInv
  <1>4. SignedIn' => LoginSent'
    BY <1>1, <1>3 DEF LoginInv, LoginSent
  <1>5. \A i \in 1 .. Len(pending') : pending'[i].signedIn => SignedIn'
    BY <1>1 DEF LoginInv, OutgoingInv
  <1> QED BY <1>1, <1>4, <1>5 DEF LoginInv, LoginSent, CommandsFollowLogin

LEMMA NextLogin ==
    ASSUME "logout_offline" \notin Env, OutgoingInv, IncomingInv, StreamInv, LoginInv, [Next]_vars
    PROVE  LoginInv'
  <1>1. CASE ConnectToServer \/ Reconnect \/ OnSocketError \/ ConnectionLost
    <2>1. sock' # "connected" /\ UNCHANGED <<pending, wire, SignedIn>>
      BY <1>1 DEF ConnectToServer, Reconnect, Reopen, OnSocketError, ConnectionLost, outgoing, account, SignedIn
    <2> QED BY <2>1 DEF LoginInv, CommandsFollowLogin
  <1>2. ASSUME NEW a \in Answers, ServerSends(a) PROVE LoginInv'
    <2>1. /\ said' = Append(said, a) /\ UNCHANGED <<sock, pending, wire, SignedIn>>
          /\ a = UserAnswer => LoginSent
      BY <1>2 DEF ServerSends, outgoing, account, SignedIn, LoginSent, OutgoingInv
    <2>2. \A i \in 1 .. Len(said') : said'[i] = a \/ (i \in 1 .. Len(said) /\ said'[i] = said[i])
      BY <2>1, AppendProperties DEF IncomingInv
    <2>3. (\E i \in 1 .. Len(said') : said'[i] = UserAnswer)
              => LoginSent \/ \E i \in 1 .. Len(said) : said[i] = UserAnswer
      BY <2>1, <2>2
    <2> QED BY <2>1, <2>3 DEF LoginInv, LoginSent, CommandsFollowLogin
  <1>3. CASE Logout
    <2>1. sock = "connected" /\ UNCHANGED <<sock, pending, wire, said>> /\ ~SignedIn'
      BY <1>3 DEF Logout, outgoing, incoming, SignedIn
    <2>2. pending = <<>>
      BY <2>1 DEF OutgoingInv
    <2> QED BY <2>1, <2>2 DEF LoginInv, LoginSent, CommandsFollowLogin
  <1>4. CASE UNCHANGED vars
    BY <1>4 DEF vars, SignedIn, LoginInv, LoginSent, CommandsFollowLogin
  <1> QED BY <1>1, <1>2, <1>3, <1>4, SendKeepsLogin, ConnectKeepsLogin, ReadKeepsLogin DEF Next

\* Unless the user signs out while off line, a command that was issued by a signed-in
\* user (one with a name to sign in again) follows a login on the connection it is
\* written on, also after a log-out and a late answer, because onConnectionState()
\* writes one before the frames that waited.
THEOREM LoginComesFirst ==
    ASSUME "logout_offline" \notin Env
    PROVE  Spec => []CommandsFollowLogin
  <1>1. Init => OutgoingInv /\ IncomingInv /\ StreamInv /\ LoginInv
    BY InitOutgoing, InitIncoming, InitLogin DEF Init, StreamInv
  <1>2. OutgoingInv /\ IncomingInv /\ StreamInv /\ LoginInv /\ [Next]_vars
            => OutgoingInv' /\ IncomingInv' /\ StreamInv' /\ LoginInv'
    BY NextOutgoing, NextIncoming, NextStream, NextLogin
  <1>3. LoginInv => CommandsFollowLogin
    BY DEF LoginInv
  <1> QED BY <1>1, <1>2, <1>3, PTL DEF Spec
=============================================================================
