-------------------------- MODULE DetailPageProofs --------------------------
(* Types, and that a page that shows one game while its buttons act on another  *)
(* is always about to be put right, for any games, bounds and losses.           *)
EXTENDS DetailPage, ConnectionProofs

-----------------------------------------------------------------------------
(* Requests and answers in order.                                               *)

LEMMA AskedAppend ==
    ASSUME NEW q \in Seq(Frames), NEW f \in Frames, NEW g
    PROVE  Asked(g, q) \/ f = Details(g) => Asked(g, Append(q, f))
  <1>1. /\ \A i \in DOMAIN q : i \in DOMAIN Append(q, f) /\ Append(q, f)[i] = q[i]
        /\ Len(q) + 1 \in DOMAIN Append(q, f) /\ Append(q, f)[Len(q) + 1] = f
    OBVIOUS
  <1> QED BY <1>1 DEF Asked

LEMMA AskedTail ==
    ASSUME NEW q \in Seq(Frames), q # <<>>, NEW g, Asked(g, q), Head(q) # Details(g)
    PROVE  Asked(g, Tail(q))
  <1>1. PICK i \in DOMAIN q : q[i] = Details(g)
    BY DEF Asked
  <1>2. i - 1 \in DOMAIN Tail(q) /\ Tail(q)[i - 1] = q[i]
    <2>1. i \in Nat /\ i > 1
      BY <1>1
    <2> QED BY <2>1
  <1> QED BY <1>1, <1>2 DEF Asked

LEMMA AnsweredAppend ==
    ASSUME NEW q \in Seq(Answer), NEW a \in Answer, NEW g
    PROVE  Answered(g, q) \/ a.game = g => Answered(g, Append(q, a))
  <1>1. /\ \A i \in DOMAIN q : i \in DOMAIN Append(q, a) /\ Append(q, a)[i] = q[i]
        /\ Len(q) + 1 \in DOMAIN Append(q, a) /\ Append(q, a)[Len(q) + 1] = a
    OBVIOUS
  <1> QED BY <1>1 DEF Answered

LEMMA AnsweredTail ==
    ASSUME NEW q \in Seq(Answer), q # <<>>, NEW g, Answered(g, q), Head(q).game # g
    PROVE  Answered(g, Tail(q))
  <1>1. PICK i \in DOMAIN q : q[i].game = g
    BY DEF Answered
  <1>2. i - 1 \in DOMAIN Tail(q) /\ Tail(q)[i - 1] = q[i]
    <2>1. i \in Nat /\ i > 1
      BY <1>1
    <2> QED BY <2>1
  <1> QED BY <1>1, <1>2 DEF Answered

\* What is cut in two keeps its answers, on one side or the other.
LEMMA AnsweredCut ==
    ASSUME NEW q \in Seq(Answer), NEW n \in 0 .. Len(q), NEW g, Answered(g, q)
    PROVE  Answered(g, SubSeq(q, 1, n)) \/ Answered(g, SubSeq(q, n + 1, Len(q)))
  <1>1. PICK i \in DOMAIN q : q[i].game = g
    BY DEF Answered
  <1>2. i \in 1 .. Len(q) /\ Len(q) \in Nat
    OBVIOUS
  <1>3. CASE i <= n
    <2>1. \A k \in 1 .. n : q[k] \in Answer
      OBVIOUS
    <2>2. /\ SubSeq(q, 1, n) \in Seq(Answer) /\ Len(SubSeq(q, 1, n)) = IF 1 <= n THEN n - 1 + 1 ELSE 0
          /\ \A k \in 1 .. n - 1 + 1 : SubSeq(q, 1, n)[k] = q[1 + k - 1]
      BY <2>1, SubSeqProperties
    <2>3. i \in DOMAIN SubSeq(q, 1, n) /\ SubSeq(q, 1, n)[i] = q[i]
      BY <1>2, <1>3, <2>2
    <2> QED BY <1>1, <2>3 DEF Answered
  <1>4. CASE i > n
    <2> DEFINE rest == SubSeq(q, n + 1, Len(q))
    <2>1. \A k \in n + 1 .. Len(q) : q[k] \in Answer
      OBVIOUS
    <2>2. /\ rest \in Seq(Answer) /\ Len(rest) = IF n + 1 <= Len(q) THEN Len(q) - (n + 1) + 1 ELSE 0
          /\ \A k \in 1 .. Len(q) - (n + 1) + 1 : rest[k] = q[n + 1 + k - 1]
      BY <2>1, <1>2, SubSeqProperties
    <2>3. i - n \in DOMAIN rest /\ rest[i - n] = q[i]
      <3> HIDE DEF rest
      <3> QED BY <1>2, <1>4, <2>2
    <2> HIDE DEF rest
    <2>4. Answered(g, rest)
      BY <1>1, <2>3 DEF Answered
    <2> QED BY <2>4 DEF rest
  <1> QED BY <1>2, <1>3, <1>4

-----------------------------------------------------------------------------
(* Types.  Timers are started on a page, a page is of a game, and a record is    *)
(* set with an id.                                                               *)

TypeInv ==
    /\ TypeOK
    /\ timers <= sent
    /\ timers > 0 => current # None
    /\ record # None => current # None

LEMMA InitType == Init => TypeInv
  <1> SUFFICES ASSUME Init PROVE TypeInv
    OBVIOUS
  <1>1. LinkTypeOK
    BY LinkInitType, DetailAssumption DEF Init
  <1>2. inflight \in Seq(Answer)
    BY DEF Init
  <1>3. /\ reviewed = {} /\ games = {} /\ library \subseteq Games /\ installing = {} /\ failed = {}
        /\ page = FALSE /\ own = FALSE /\ unstarted = FALSE /\ box = FALSE /\ strayed = FALSE
        /\ current = None /\ record = None /\ shown = None /\ opened = None
    BY DEF Init
  <1>4. /\ timers \in 0 .. MaxReviews /\ sent \in 0 .. MaxReviews /\ visits \in 0 .. MaxOpened
        /\ timers <= sent /\ ~(timers > 0)
    BY DetailAssumption DEF Init
  <1>5. {page, own, unstarted, box, strayed} \subseteq BOOLEAN
    BY <1>3, Zenon
  <1>6. /\ {current, record, shown, opened} \subseteq Games \cup {None}
        /\ reviewed \subseteq Games /\ games \subseteq Games /\ installing \subseteq Games /\ failed \subseteq Games
    BY <1>3
  <1> QED BY <1>1, <1>2, <1>3, <1>4, <1>5, <1>6, Zenon DEF TypeInv, TypeOK

\* Showing a game asks for its details, and awaits them.
LEMMA ShowType ==
    ASSUME TypeInv, NEW g \in Games, ShowGameDetails(g)
    PROVE  /\ LinkTypeOK' /\ page' = TRUE /\ current' = g /\ own' \in BOOLEAN /\ unstarted' \in BOOLEAN
           /\ {record', shown'} \subseteq Games \cup {None} /\ failed' \subseteq Games
           /\ Awaited(g)'
  <1>1. LinkTypeOK /\ Details(g) \in Frames /\ Send(Details(g))
    BY DetailAssumption DEF TypeInv, TypeOK, Details, ShowGameDetails
  <1>2. LinkTypeOK'
    BY <1>1, SendType, DetailAssumption
  <1>3. /\ page' = TRUE /\ current' = g /\ own' \in BOOLEAN /\ unstarted' \in BOOLEAN
        /\ {record', shown'} \subseteq Games \cup {None}
    BY DEF ShowGameDetails, Update, TypeInv, TypeOK
  <1>4. failed' \subseteq Games
    BY DEF ShowGameDetails, PushedOut, TypeInv, TypeOK
  <1>5. Asked(g, wire') \/ Asked(g, pending')
    <2>1. CASE online
      BY <1>1, <2>1, AskedAppend DEF Send, LinkTypeOK
    <2>2. CASE ~online
      <3> DEFINE kept == IF Len(pending) >= MaxPending THEN Tail(pending) ELSE pending
      <3>1. kept \in Seq(Frames)
        BY <1>1, DetailAssumption DEF LinkTypeOK
      <3>2. pending' = Append(kept, Details(g))
        BY <1>1, <2>2 DEF Send
      <3> HIDE DEF kept
      <3> QED BY <1>1, <3>1, <3>2, AskedAppend
    <2> QED BY <2>1, <2>2
  <1> QED BY <1>2, <1>3, <1>4, <1>5 DEF Awaited

LEMMA ServerType ==
    ASSUME TypeInv, ServerTakes
    PROVE  LinkTypeOK' /\ reviewed' \subseteq Games /\ inflight' \in Seq(Answer) /\ failed' \subseteq Games
  <1> DEFINE f == Head(wire)
  <1>1. LinkTypeOK' /\ f.game \in Games
    BY TakeType, DetailAssumption DEF ServerTakes, TypeInv, TypeOK
  <1>2. reviewed' \subseteq Games /\ failed' \subseteq Games
    <2>1. Taken \subseteq Games /\ reviewed \subseteq Games /\ failed \subseteq Games
      BY DEF Taken, TypeInv, TypeOK
    <2>2. reviewed' = reviewed \/ reviewed' = reviewed \cup {f.game}
      BY DEF ServerTakes
    <2>3. failed' = failed \/ failed' = failed \cup Taken
      BY DEF ServerTakes
    <2> QED BY <1>1, <2>1, <2>2, <2>3
  <1>3. PICK a \in Answer : inflight' = Append(inflight, a)
    <2>1. CASE inflight' = Append(inflight, [kind |-> "details", game |-> f.game, own |-> f.game \in reviewed])
      <3>1. [kind |-> "details", game |-> f.game, own |-> f.game \in reviewed] \in Answer
        BY <1>1 DEF Answer
      <3> QED BY <2>1, <3>1
    <2>2. CASE \E kind \in {"review", "msg", "error"} :
                  inflight' = Append(inflight, [kind |-> kind, game |-> None, own |-> FALSE])
      <3>1. \A kind \in {"review", "msg", "error"} : [kind |-> kind, game |-> None, own |-> FALSE] \in Answer
        BY DEF Answer
      <3> QED BY <2>2, <3>1
    <2> QED BY <2>1, <2>2 DEF ServerTakes
  <1> QED BY <1>1, <1>2, <1>3 DEF TypeInv, TypeOK

LEMMA MessageType ==
    ASSUME TypeInv, OnServerMessage
    PROVE  TypeInv'
  <1> DEFINE a == Head(inflight)
  <1>1. a \in Answer /\ inflight' \in Seq(Answer)
    BY DEF OnServerMessage, TypeInv, TypeOK
  <1>2. UNCHANGED <<reviewed, library, installing, timers, visits, sent, opened>>
    BY DEF OnServerMessage
  <1>3. CASE a.kind = "details"
    <2>1. OnDetails /\ a.game \in Games /\ a.own \in BOOLEAN
      BY <1>1, <1>3 DEF OnServerMessage, Answer
    <2>2. LinkTypeOK'
      BY <2>1, LinkUnchanged DEF OnDetails, TypeInv, TypeOK
    <2>3. /\ current' = a.game /\ record' = a.game /\ shown' = a.game /\ own' = a.own
          /\ unstarted' = FALSE /\ games' = games \cup {a.game}
          /\ UNCHANGED <<page, box, strayed, failed>> /\ a.game # None
      BY <2>1, DetailAssumption DEF OnDetails, Update
    <2>4. games' \subseteq Games /\ own' \in BOOLEAN /\ unstarted' \in BOOLEAN
      BY <2>1, <2>3 DEF TypeInv, TypeOK
    <2> QED BY <1>1, <1>2, <2>1, <2>2, <2>3, <2>4 DEF TypeInv, TypeOK
  <1>4. CASE a.kind = "review" /\ current # None
    <2>1. ShowGameDetails(current) /\ current \in Games /\ strayed' \in BOOLEAN /\ UNCHANGED <<games, box>>
      BY <1>4, DetailAssumption DEF OnServerMessage, OnReview, ShowAgain, TypeInv, TypeOK
    <2>2. /\ LinkTypeOK' /\ page' = TRUE /\ current' = current /\ own' \in BOOLEAN /\ unstarted' \in BOOLEAN
          /\ {record', shown'} \subseteq Games \cup {None} /\ failed' \subseteq Games
      BY <2>1, ShowType
    <2> QED BY <1>1, <1>2, <1>4, <2>1, <2>2 DEF TypeInv, TypeOK
  <1>5. CASE a.kind \in {"msg", "error"} \/ (a.kind = "review" /\ current = None)
    <2>1. UNCHANGED <<link, games, page, display, strayed, failed>> /\ box' \in BOOLEAN
      BY <1>5 DEF OnServerMessage, OnReview, OnError, TypeInv, TypeOK, ShowAgain
    <2>2. LinkTypeOK'
      BY <2>1, LinkUnchanged DEF TypeInv, TypeOK
    <2> QED BY <1>1, <1>2, <2>1, <2>2 DEF TypeInv, TypeOK, display
  <1> QED BY <1>1, <1>3, <1>4, <1>5 DEF Answer

LEMMA NextType == TypeInv /\ [Next]_vars => TypeInv'
  <1> SUFFICES ASSUME TypeInv, [Next]_vars PROVE TypeInv'
    OBVIOUS
  <1>1. ASSUME NEW g \in Games, Open(g) PROVE TypeInv'
    <2>1. /\ UNCHANGED <<answers, store, box, timers, sent>> /\ opened' = g /\ strayed' = FALSE
          /\ visits < MaxOpened /\ visits' = visits + 1 /\ ShowGameDetails(g)
      BY <1>1 DEF Open
    <2>2. visits' \in 0 .. MaxOpened
      BY <2>1, DetailAssumption DEF TypeInv, TypeOK
    <2>3. g # None
      BY DetailAssumption
    <2> QED BY <2>1, <2>2, <2>3, ShowType DEF TypeInv, TypeOK, answers, store
  <1>2. CASE Leave \/ Install \/ (\E g \in Games : Uninstall(g)) \/ CloseBox
             \/ (\E g \in Games : Completed(g)) \/ (\E listed \in Lists : OnGames(listed)) \/ OnVersion
    <2>1. /\ UNCHANGED <<link, answers, current, record, shown, own, timers, visits, sent, opened, strayed, failed>>
          /\ page' = page \/ page' = FALSE
          /\ unstarted' = unstarted \/ unstarted' = FALSE
          /\ box' = box \/ box' \in BOOLEAN
      BY <1>2 DEF Leave, Install, Uninstall, CloseBox, Completed, OnGames, OnVersion, display
    <2>2. games' \subseteq Games /\ library' \subseteq Games /\ installing' \subseteq Games
      <3>1. CASE Leave \/ CloseBox \/ OnVersion
        BY <3>1 DEF Leave, CloseBox, OnVersion, TypeInv, TypeOK, store
      <3>2. CASE Install
        BY <3>2 DEF Install, TypeInv, TypeOK
      <3>3. CASE (\E g \in Games : Uninstall(g)) \/ (\E g \in Games : Completed(g))
                 \/ (\E listed \in Lists : OnGames(listed))
        BY <3>3, DetailAssumption DEF Uninstall, Completed, OnGames, TypeInv, TypeOK
      <3> QED BY <1>2, <3>1, <3>2, <3>3
    <2>3. LinkTypeOK'
      BY <2>1, LinkUnchanged DEF TypeInv, TypeOK
    <2>4. page' \in BOOLEAN /\ box' \in BOOLEAN /\ unstarted' \in BOOLEAN /\ (page' => page)
      <3>1. page \in BOOLEAN /\ box \in BOOLEAN /\ unstarted \in BOOLEAN
        BY DEF TypeInv, TypeOK
      <3>2. page' \in BOOLEAN /\ (page' => page)
        <4>1. CASE page' = page
          BY <3>1, <4>1
        <4>2. CASE page' = FALSE
          BY <4>2
        <4> QED BY <2>1, <4>1, <4>2
      <3>3. box' \in BOOLEAN
        <4>1. CASE box' = box
          BY <3>1, <4>1
        <4>2. CASE box' \in BOOLEAN
          BY <4>2
        <4> QED BY <2>1, <4>1, <4>2
      <3>4. unstarted' \in BOOLEAN
        <4>1. CASE unstarted' = unstarted
          BY <3>1, <4>1
        <4>2. CASE unstarted' = FALSE
          BY <4>2
        <4> QED BY <2>1, <4>1, <4>2
      <3> QED BY <3>2, <3>3, <3>4
    <2>5. /\ UNCHANGED <<reviewed, inflight, current, record, shown, own, timers, visits, sent>>
          /\ UNCHANGED <<opened, strayed, failed>>
      BY <2>1 DEF answers
    <2> QED BY <2>2, <2>3, <2>4, <2>5 DEF TypeInv, TypeOK
  <1>3. CASE SubmitReview
    <2>1. current \in Games
      BY <1>3 DEF SubmitReview, TypeInv, TypeOK
    <2>2. LinkTypeOK'
      <3>1. Review(current) \in Frames /\ Send(Review(current)) /\ LinkTypeOK
        BY <1>3, <2>1, DetailAssumption DEF SubmitReview, Review, TypeInv, TypeOK
      <3> QED BY <3>1, SendType, DetailAssumption
    <2>3. sent' \in 0 .. MaxReviews /\ timers' \in 0 .. MaxReviews /\ timers' <= sent'
      BY <1>3, DetailAssumption DEF SubmitReview, TypeInv, TypeOK
    <2>4. failed' \subseteq Games
      BY <1>3 DEF SubmitReview, PushedOut, TypeInv, TypeOK
    <2>5. UNCHANGED <<answers, store, page, display, box, visits, opened, strayed>> /\ current # None
      BY <1>3, <2>1, DetailAssumption DEF SubmitReview
    <2> QED BY <2>2, <2>3, <2>4, <2>5 DEF TypeInv, TypeOK, answers, store, display
  <1>4. ASSUME NEW g \in Games, AcceptUpdate(g) PROVE TypeInv'
    <2>1. LinkTypeOK'
      BY <1>4, LinkUnchanged DEF AcceptUpdate, TypeInv, TypeOK
    <2>2. page' \in BOOLEAN /\ box' \in BOOLEAN /\ unstarted' \in BOOLEAN /\ installing' \subseteq Games
      BY <1>4 DEF AcceptUpdate, TypeInv, TypeOK
    <2>3. /\ UNCHANGED <<answers, games, library, shown, own, timers, visits, sent, strayed, failed>>
          /\ current' = g /\ record' = g /\ opened' = None /\ g # None
      BY <1>4, DetailAssumption DEF AcceptUpdate
    <2> QED BY <2>1, <2>2, <2>3 DEF TypeInv, TypeOK, answers
  <1>5. CASE Timer
    <2>1. /\ UNCHANGED <<answers, store, box, visits, sent, opened>> /\ timers > 0 /\ timers' = timers - 1
          /\ ShowGameDetails(current) /\ strayed' = (strayed \/ current # opened)
      BY <1>5 DEF Timer, ShowAgain
    <2>2. current \in Games /\ timers' \in 0 .. MaxReviews /\ timers' <= sent
      BY <2>1, DetailAssumption DEF TypeInv, TypeOK
    <2>3. /\ LinkTypeOK' /\ page' = TRUE /\ current' = current /\ own' \in BOOLEAN /\ unstarted' \in BOOLEAN
          /\ {record', shown'} \subseteq Games \cup {None} /\ failed' \subseteq Games
      BY <2>1, <2>2, ShowType
    <2>4. strayed' \in BOOLEAN
      BY <2>1
    <2> QED BY <2>1, <2>2, <2>3, <2>4, DetailAssumption DEF TypeInv, TypeOK, answers, store
  <1>6. CASE Connected
    <2>1. LinkTypeOK'
      <3>1. <<>> \in Seq(Frames) /\ Connect(<<>>) /\ LinkTypeOK
        BY <1>6 DEF Connected, TypeInv, TypeOK
      <3> QED BY <3>1, ConnectType, DetailAssumption
    <2> QED BY <1>6, <2>1 DEF Connected, TypeInv, TypeOK, answers, store, display
  <1>7. CASE Disconnected
    <2>1. LinkTypeOK'
      BY <1>7, LoseType DEF Disconnected, TypeInv, TypeOK
    <2>2. PICK n \in 0 .. Len(inflight) :
             /\ inflight' = SubSeq(inflight, 1, n)
             /\ failed' = failed \cup Taken \cup
                   {g \in Games : Answered(g, SubSeq(inflight, n + 1, Len(inflight)))}
      BY <1>7 DEF Disconnected
    <2>3. inflight' \in Seq(Answer)
      <3>1. \A k \in 1 .. n : inflight[k] \in Answer
        BY DEF TypeInv, TypeOK
      <3> QED BY <2>2, <3>1, SubSeqProperties
    <2>4. failed' \subseteq Games
      BY <2>2 DEF Taken, TypeInv, TypeOK
    <2>5. UNCHANGED <<reviewed, store, page, display, box, timers, visits, sent, opened, strayed>>
      BY <1>7 DEF Disconnected
    <2> QED BY <2>1, <2>3, <2>4, <2>5 DEF TypeInv, TypeOK, store, display
  <1>8. CASE ServerTakes
    <2>1. UNCHANGED <<store, page, display, box, timers, visits, sent, opened, strayed>>
      BY <1>8 DEF ServerTakes
    <2> QED BY <1>8, <2>1, ServerType DEF TypeInv, TypeOK, store, display
  <1>9. CASE OnServerMessage
    BY <1>9, MessageType
  <1>10. CASE UNCHANGED vars
    <2>1. LinkTypeOK'
      BY <1>10, LinkUnchanged DEF vars, TypeInv, TypeOK
    <2> QED BY <1>10, <2>1 DEF vars, answers, store, display, TypeInv, TypeOK
  <1> QED BY <1>1, <1>2, <1>3, <1>4, <1>5, <1>6, <1>7, <1>8, <1>9, <1>10 DEF Next

\* The page is always of a game, and a review is of one, whatever late answers and
\* timers do to m_currentGameId.
THEOREM TypeCorrect == Spec => []TypeOK
  <1> QED BY InitType, NextType, PTL DEF Spec, TypeInv

LEMMA TypeInvAlways == Spec => []TypeInv
  <1> QED BY InitType, NextType, PTL DEF Spec

-----------------------------------------------------------------------------
(* What is due of a game stays due until it is handled, lost or refused.        *)

Due(g) == Awaited(g) \/ g \in failed

LEMMA SendKeeps ==
    ASSUME TypeInv, NEW f \in Frames, Send(f), NEW g \in Games, Awaited(g),
           Answered(g, inflight) => Answered(g, inflight')
    PROVE  Awaited(g)' \/ g \in PushedOut
  <1>1. CASE Asked(g, pending)
    BY <1>1 DEF Awaited, PushedOut
  <1>2. CASE Asked(g, wire)
    <2>1. wire \in Seq(Frames) /\ (wire' = wire \/ wire' = Append(wire, f))
      BY DEF Send, TypeInv, TypeOK, LinkTypeOK
    <2> QED BY <1>2, <2>1, AskedAppend DEF Awaited
  <1>3. CASE Answered(g, inflight)
    BY <1>3 DEF Awaited
  <1> QED BY <1>1, <1>2, <1>3 DEF Awaited

LEMMA ShowKeeps ==
    ASSUME TypeInv, NEW h \in Games, ShowGameDetails(h), NEW g \in Games, Due(g),
           Answered(g, inflight) => Answered(g, inflight')
    PROVE  Due(g)'
  <1>1. CASE g = h
    BY <1>1, ShowType DEF Due
  <1>2. CASE g # h
    <2>1. Details(h) \in Frames /\ Send(Details(h)) /\ failed' = (failed \ {h}) \cup PushedOut
      BY DetailAssumption DEF ShowGameDetails, Details
    <2>2. Awaited(g) => Awaited(g)' \/ g \in PushedOut
      BY <2>1, SendKeeps
    <2> QED BY <1>2, <2>1, <2>2 DEF Due
  <1> QED BY <1>1, <1>2

LEMMA ServerKeeps ==
    ASSUME TypeInv, ServerTakes, NEW g \in Games, Due(g)
    PROVE  Due(g)'
  <1> DEFINE f == Head(wire)
  <1>1. /\ wire # <<>> /\ wire \in Seq(Frames) /\ wire' = Tail(wire) /\ pending' = pending
        /\ inflight \in Seq(Answer)
    BY DEF ServerTakes, Take, TypeInv, TypeOK, LinkTypeOK
  <1>2. failed \subseteq failed'
    BY DEF ServerTakes
  <1>3. Answered(g, inflight) => Answered(g, inflight')
    <2>1. DOMAIN inflight \subseteq DOMAIN inflight' /\ \A i \in DOMAIN inflight : inflight'[i] = inflight[i]
      <3>1. \E a : inflight' = Append(inflight, a)
        BY DEF ServerTakes
      <3>2. ASSUME NEW a, inflight' = Append(inflight, a), NEW i \in DOMAIN inflight
            PROVE  i \in DOMAIN inflight' /\ inflight'[i] = inflight[i]
        BY <1>1, <3>2
      <3> QED BY <3>1, <3>2
    <2> QED BY <2>1 DEF Answered
  <1>4. ASSUME Asked(g, wire) PROVE Due(g)'
    <2>1. CASE Asked(g, wire')
      BY <2>1 DEF Due, Awaited
    <2>2. CASE ~Asked(g, wire')
      <3>1. f = Details(g)
        BY <1>1, <1>4, <2>2, AskedTail
      <3>2. f.cmd = "get_game_details" /\ f.game = g
        BY <3>1 DEF Details
      <3>3. g \in Taken
        BY <1>4, <2>2 DEF Taken
      <3>4. CASE inflight' = Append(inflight, [kind |-> "details", game |-> f.game, own |-> f.game \in reviewed])
        <4>1. Len(inflight) + 1 \in DOMAIN inflight' /\ inflight'[Len(inflight) + 1].game = g
          BY <1>1, <3>2, <3>4
        <4> QED BY <4>1 DEF Due, Awaited, Answered
      <3>5. CASE failed' = failed \cup Taken
        BY <3>3, <3>5 DEF Due
      <3> QED BY <3>2, <3>4, <3>5 DEF ServerTakes
    <2> QED BY <2>1, <2>2
  <1> QED BY <1>1, <1>2, <1>3, <1>4 DEF Due, Awaited

LEMMA LossKeeps ==
    ASSUME TypeInv, Disconnected, NEW g \in Games, Due(g)
    PROVE  Due(g)'
  <1>1. PICK n \in 0 .. Len(inflight) :
           /\ inflight' = SubSeq(inflight, 1, n)
           /\ failed' = failed \cup Taken \cup
                 {h \in Games : Answered(h, SubSeq(inflight, n + 1, Len(inflight)))}
    BY DEF Disconnected
  <1>2. wire' = <<>> /\ pending' = pending /\ inflight \in Seq(Answer)
    BY DEF Disconnected, Lose, TypeInv, TypeOK
  <1>3. CASE g \in failed \/ Asked(g, pending)
    BY <1>1, <1>2, <1>3 DEF Due, Awaited
  <1>4. CASE Asked(g, wire)
    <2>1. g \in Taken
      BY <1>2, <1>4 DEF Taken, Asked
    <2> QED BY <1>1, <2>1 DEF Due
  <1>5. CASE Answered(g, inflight)
    BY <1>1, <1>2, <1>5, AnsweredCut DEF Due, Awaited
  <1> QED BY <1>3, <1>4, <1>5 DEF Due, Awaited

LEMMA DueKept ==
    ASSUME TypeInv, [Next]_vars, NEW g \in Games, Due(g),
           ~(OnServerMessage /\ Head(inflight).game = g)
    PROVE  Due(g)'
  <1>1. CASE UNCHANGED <<link, inflight, failed>>
    BY <1>1 DEF Due, Awaited, link
  <1>2. ASSUME NEW h \in Games, Open(h) PROVE Due(g)'
    BY <1>2, ShowKeeps DEF Open, answers
  <1>3. CASE Timer
    <2>1. ShowGameDetails(current) /\ current \in Games /\ inflight' = inflight
      BY <1>3, DetailAssumption DEF Timer, ShowAgain, TypeInv, TypeOK, answers
    <2> QED BY <2>1, ShowKeeps
  <1>4. CASE SubmitReview
    <2>1. Review(current) \in Frames
      BY <1>4, DetailAssumption DEF SubmitReview, Review, TypeInv, TypeOK
    <2>2. Send(Review(current)) /\ inflight' = inflight /\ failed' = failed \cup PushedOut
      BY <1>4 DEF SubmitReview, answers
    <2> QED BY <2>1, <2>2, SendKeeps DEF Due
  <1>5. CASE Connected
    <2>1. wire' = <<>> \o pending /\ pending \in Seq(Frames) /\ wire = <<>> /\ UNCHANGED <<inflight, failed>>
      BY <1>5 DEF Connected, Connect, TypeInv, TypeOK, LinkTypeOK, answers
    <2>2. wire' = pending
      BY <2>1
    <2>3. ~Asked(g, wire)
      BY <2>1 DEF Asked
    <2> QED BY <2>1, <2>2, <2>3 DEF Due, Awaited
  <1>6. CASE OnServerMessage
    <2>1. inflight # <<>> /\ inflight \in Seq(Answer) /\ inflight' = Tail(inflight) /\ Head(inflight) \in Answer
      BY <1>6 DEF OnServerMessage, TypeInv, TypeOK
    <2>2. Answered(g, inflight) => Answered(g, inflight')
      BY <1>6, <2>1, AnsweredTail
    <2>3. CASE Head(inflight).kind = "review" /\ current # None
      <3>1. ShowGameDetails(current) /\ current \in Games
        BY <1>6, <2>3 DEF OnServerMessage, OnReview, ShowAgain, TypeInv, TypeOK
      <3> QED BY <2>2, <3>1, ShowKeeps
    <2>4. CASE ~(Head(inflight).kind = "review" /\ current # None)
      <3>1. UNCHANGED <<link, failed>>
        <4>1. Head(inflight).kind \in {"details", "review", "msg", "error"}
          BY <2>1 DEF Answer
        <4> QED BY <1>6, <2>4, <4>1 DEF OnServerMessage, OnDetails, OnReview, OnError
      <3> QED BY <2>2, <3>1 DEF Due, Awaited, link
    <2> QED BY <2>3, <2>4
  <1>7. CASE \/ Leave \/ Install \/ CloseBox
             \/ \E h \in Games : AcceptUpdate(h) \/ Uninstall(h) \/ Completed(h)
             \/ \E listed \in Lists : OnGames(listed)
             \/ OnVersion \/ UNCHANGED vars
    <2>1. UNCHANGED <<link, inflight, failed>>
      BY <1>7 DEF Leave, Install, CloseBox, AcceptUpdate, Uninstall, Completed, OnGames, OnVersion, vars, answers
    <2> QED BY <1>1, <2>1
  <1> QED BY <1>2, <1>3, <1>4, <1>5, <1>6, <1>7, ServerKeeps, LossKeeps DEF Next

LEMMA MismatchNext ==
    ASSUME TypeInv, MismatchIsAwaited, [Next]_vars
    PROVE  MismatchIsAwaited'
  <1>1. ASSUME UNCHANGED <<current, record, shown>>, page' => page, page' /\ unstarted => unstarted',
               ~(OnServerMessage /\ Head(inflight).game = current)
        PROVE  MismatchIsAwaited'
    <2> SUFFICES ASSUME (page' /\ shown' # current' /\ ~unstarted') \/ current' # record'
                 PROVE  Due(current)'
      BY DEF MismatchIsAwaited, Due
    <2>1. PICK g \in Games : g = current
      BY <1>1 DEF TypeInv, TypeOK
    <2>2. Due(g)
      BY <1>1, <2>1 DEF MismatchIsAwaited, Due
    <2>3. Due(g)'
      BY <1>1, <2>1, <2>2, DueKept
    <2>4. current' = g
      BY <1>1, <2>1
    <2> QED BY <2>3, <2>4 DEF Due, Awaited
  <1>2. ASSUME NEW g \in Games, ShowGameDetails(g) PROVE MismatchIsAwaited'
    <2>1. Awaited(g)' /\ current' = g
      BY <1>2, ShowType
    <2>2. Awaited(current)'
      BY <2>1 DEF Awaited
    <2> QED BY <2>2 DEF MismatchIsAwaited
  <1>3. ASSUME NEW g \in Games, AcceptUpdate(g) PROVE MismatchIsAwaited'
    BY <1>3 DEF AcceptUpdate, MismatchIsAwaited
  <1>4. CASE OnServerMessage
    <2> DEFINE a == Head(inflight)
    <2>1. a \in Answer
      BY <1>4 DEF OnServerMessage, TypeInv, TypeOK
    <2>2. CASE a.kind = "details"
      BY <1>4, <2>2 DEF OnServerMessage, OnDetails, Update, MismatchIsAwaited
    <2>3. CASE a.kind = "review" /\ current # None
      <3>1. ShowGameDetails(current) /\ current \in Games
        BY <1>4, <2>3 DEF OnServerMessage, OnReview, ShowAgain, TypeInv, TypeOK
      <3> QED BY <3>1, <1>2
    <2>4. CASE a.kind # "details" /\ ~(a.kind = "review" /\ current # None)
      <3>1. UNCHANGED <<page, display>>
        BY <1>4, <2>1, <2>4 DEF OnServerMessage, OnReview, OnError, Answer
      <3>2. CASE current = None
        BY <3>1, <3>2 DEF MismatchIsAwaited, TypeInv, TypeOK, display
      <3>3. CASE current # None
        <4>1. a.game = None
          BY <2>1, <2>4 DEF Answer
        <4> QED BY <1>1, <3>1, <3>3, <4>1 DEF display
      <3> QED BY <3>2, <3>3
    <2> QED BY <2>2, <2>3, <2>4
  <1>5. ASSUME NEW g \in Games, Open(g) PROVE MismatchIsAwaited'
    BY <1>2, <1>5 DEF Open
  <1>6. CASE Timer
    <2>1. ShowGameDetails(current) /\ current \in Games
      BY <1>6, DetailAssumption DEF Timer, ShowAgain, TypeInv, TypeOK
    <2> QED BY <1>2, <2>1
  <1>7. CASE /\ ~OnServerMessage /\ UNCHANGED <<current, record, shown>>
             /\ page' => page /\ UNCHANGED unstarted
    BY <1>1, <1>7
  <1>8. CASE \/ Leave \/ Install \/ SubmitReview \/ CloseBox \/ Connected \/ Disconnected \/ ServerTakes
             \/ \E g \in Games : Uninstall(g) \/ Completed(g)
             \/ \E listed \in Lists : OnGames(listed)
             \/ OnVersion \/ UNCHANGED vars
    <2>1. UNCHANGED <<current, record, shown>> /\ (page' => page /\ UNCHANGED unstarted)
      BY <1>8 DEF Leave, Install, SubmitReview, CloseBox, Connected, Disconnected, ServerTakes,
            Uninstall, Completed, OnGames, OnVersion, vars, display
    <2> QED BY <1>4, <1>7, <2>1
  <1> QED BY <1>3, <1>4, <1>5, <1>6, <1>8 DEF Next

\* While the page shows one game and acts on another, what puts it right is due,
\* or was lost or refused, or an accepted update could not start: for any number of
\* games, answers and losses.
THEOREM MismatchIsPutRight == Spec => []MismatchIsAwaited
  <1>1. Init => MismatchIsAwaited
    BY DEF Init, MismatchIsAwaited
  <1>2. TypeInv /\ MismatchIsAwaited /\ [Next]_vars => MismatchIsAwaited'
    BY MismatchNext
  <1> QED BY <1>1, <1>2, TypeInvAlways, PTL DEF Spec

-----------------------------------------------------------------------------
(* What comes last.                                                             *)

NoneIn(q, S) == \A i \in DOMAIN q : q[i] \notin S

\* Every one of bad is followed by one of good.
Follows(q, bad, good) ==
    \A i \in DOMAIN q : q[i] \in bad => \E j \in DOMAIN q : j > i /\ q[j] \in good

LEMMA Appended ==
    ASSUME NEW T, NEW q \in Seq(T), NEW a \in T
    PROVE  /\ \A i \in DOMAIN q : i \in DOMAIN Append(q, a) /\ Append(q, a)[i] = q[i] /\ i < Len(q) + 1
           /\ Len(q) + 1 \in DOMAIN Append(q, a) /\ Append(q, a)[Len(q) + 1] = a
           /\ \A i \in DOMAIN Append(q, a) : i \in DOMAIN q \/ i = Len(q) + 1
  OBVIOUS

LEMMA Cut ==
    ASSUME NEW T, NEW q \in Seq(T), q # <<>>
    PROVE  /\ Tail(q) \in Seq(T) /\ Head(q) = q[1] /\ Head(q) \in T /\ 1 \in DOMAIN q
           /\ \A i \in DOMAIN Tail(q) : i + 1 \in DOMAIN q /\ Tail(q)[i] = q[i + 1]
           /\ \A i \in DOMAIN q : i > 1 => i - 1 \in DOMAIN Tail(q) /\ Tail(q)[i - 1] = q[i]
           /\ DOMAIN q \subseteq Nat \ {0} /\ DOMAIN Tail(q) \subseteq Nat \ {0}
  OBVIOUS

LEMMA NoneAppend ==
    ASSUME NEW T, NEW q \in Seq(T), NEW a \in T, NEW S, NoneIn(Append(q, a), S)
    PROVE  NoneIn(q, S) /\ a \notin S
  BY Appended DEF NoneIn

LEMMA NoneTail ==
    ASSUME NEW T, NEW q \in Seq(T), q # <<>>, NEW S, NoneIn(Tail(q), S), Head(q) \notin S
    PROVE  NoneIn(q, S)
  <1> SUFFICES ASSUME NEW i \in DOMAIN q PROVE q[i] \notin S
    BY DEF NoneIn
  <1>1. CASE i > 1
    BY <1>1, Cut DEF NoneIn
  <1>2. CASE i = 1
    BY <1>2, Cut
  <1> QED BY <1>1, <1>2, Cut

LEMMA FollowsNone ==
    ASSUME NEW q, NEW bad, NEW good, Follows(q, bad, good), NoneIn(q, good)
    PROVE  NoneIn(q, bad)
  BY DEF Follows, NoneIn

LEMMA FollowsAppend ==
    ASSUME NEW T, NEW q \in Seq(T), NEW a \in T, NEW bad, NEW good, a \notin bad,
           Follows(q, bad, good) \/ a \in good
    PROVE  Follows(Append(q, a), bad, good)
  <1> SUFFICES ASSUME NEW i \in DOMAIN Append(q, a), Append(q, a)[i] \in bad
               PROVE  \E j \in DOMAIN Append(q, a) : j > i /\ Append(q, a)[j] \in good
    BY DEF Follows
  <1>1. i \in DOMAIN q /\ q[i] \in bad
    BY Appended
  <1>2. CASE a \in good
    <2>1. Len(q) + 1 > i
      BY <1>1
    <2> QED BY <1>2, <2>1, Appended
  <1>3. CASE Follows(q, bad, good)
    <2>1. PICK j \in DOMAIN q : j > i /\ q[j] \in good
      BY <1>1, <1>3 DEF Follows
    <2> QED BY <2>1, Appended
  <1> QED BY <1>2, <1>3

LEMMA FollowsTail ==
    ASSUME NEW T, NEW q \in Seq(T), q # <<>>, NEW bad, NEW good, Follows(q, bad, good)
    PROVE  /\ Follows(Tail(q), bad, good)
           /\ Head(q) \in bad => ~NoneIn(Tail(q), good)
  <1>1. ASSUME NEW i \in DOMAIN Tail(q), Tail(q)[i] \in bad
        PROVE  \E j \in DOMAIN Tail(q) : j > i /\ Tail(q)[j] \in good
    <2>1. PICK j \in DOMAIN q : j > i + 1 /\ q[j] \in good
      BY <1>1, Cut DEF Follows
    <2>2. j - 1 \in DOMAIN Tail(q) /\ Tail(q)[j - 1] = q[j] /\ j - 1 > i
      BY <2>1, Cut
    <2> QED BY <2>1, <2>2
  <1>2. ASSUME Head(q) \in bad PROVE ~NoneIn(Tail(q), good)
    <2>1. PICK j \in DOMAIN q : j > 1 /\ q[j] \in good
      BY <1>2, Cut DEF Follows
    <2>2. j - 1 \in DOMAIN Tail(q) /\ Tail(q)[j - 1] = q[j]
      BY <2>1, Cut
    <2> QED BY <2>1, <2>2 DEF NoneIn
  <1> QED BY <1>1, <1>2 DEF Follows

\* What is cut off without one of good has none of bad, and what stays is in order.
LEMMA FollowsCut ==
    ASSUME NEW T, NEW q \in Seq(T), NEW n \in 0 .. Len(q), NEW bad, NEW good, Follows(q, bad, good),
           NoneIn(SubSeq(q, n + 1, Len(q)), good)
    PROVE  /\ Follows(SubSeq(q, 1, n), bad, good)
           /\ \A S : S \subseteq bad \cup good /\ NoneIn(SubSeq(q, 1, n), S) => NoneIn(q, S)
  <1> DEFINE p == SubSeq(q, 1, n)
             r == SubSeq(q, n + 1, Len(q))
  <1>1. /\ \A i \in 1 .. n : i \in DOMAIN p /\ p[i] = q[i]
        /\ DOMAIN p = 1 .. n
    <2>1. \A k \in 1 .. n : q[k] \in T
      OBVIOUS
    <2>2. /\ p \in Seq(T) /\ Len(p) = IF 1 <= n THEN n - 1 + 1 ELSE 0
          /\ \A k \in 1 .. n - 1 + 1 : p[k] = q[1 + k - 1]
      <3> HIDE DEF r
      <3> QED BY <2>1, SubSeqProperties
    <2>3. n \in Nat /\ n <= Len(q)
      OBVIOUS
    <2> HIDE DEF p, r
    <2>4. Len(p) = n /\ DOMAIN p = 1 .. Len(p)
      BY <2>2, <2>3
    <2>5. \A i \in 1 .. n : p[i] = q[i]
      BY <2>2, <2>3
    <2> QED BY <2>4, <2>5
  <1>2. \A i \in n + 1 .. Len(q) : i - n \in DOMAIN r /\ r[i - n] = q[i]
    <2>1. \A k \in n + 1 .. Len(q) : q[k] \in T
      OBVIOUS
    <2>2. /\ r \in Seq(T) /\ Len(r) = IF n + 1 <= Len(q) THEN Len(q) - (n + 1) + 1 ELSE 0
          /\ \A k \in 1 .. Len(q) - (n + 1) + 1 : r[k] = q[n + 1 + k - 1]
      BY <2>1, SubSeqProperties
    <2>3. Len(q) \in Nat /\ n \in Nat
      OBVIOUS
    <2> HIDE DEF p, r
    <2>4. ASSUME NEW i \in n + 1 .. Len(q) PROVE i - n \in DOMAIN r /\ r[i - n] = q[i]
      <3>1. /\ Len(r) = Len(q) - n /\ i - n \in 1 .. Len(r) /\ i - n \in 1 .. Len(q) - (n + 1) + 1
            /\ n + 1 + (i - n) - 1 = i
        BY <2>2, <2>3
      <3>2. r[i - n] = q[n + 1 + (i - n) - 1]
        BY <2>2, <3>1
      <3>3. DOMAIN r = 1 .. Len(r)
        BY <2>2
      <3> QED BY <3>1, <3>2, <3>3
    <2> QED BY <2>4
  <1> HIDE DEF p, r
  <1>3. \A i \in n + 1 .. Len(q) : q[i] \notin good
    BY <1>2 DEF NoneIn, r
  <1>4. \A i \in n + 1 .. Len(q) : q[i] \notin bad
    BY <1>3 DEF Follows
  <1>5. ASSUME NEW i \in DOMAIN p, p[i] \in bad
        PROVE  \E j \in DOMAIN p : j > i /\ p[j] \in good
    <2>1. PICK j \in DOMAIN q : j > i /\ q[j] \in good
      BY <1>1, <1>5 DEF Follows
    <2>2. j \in 1 .. n
      BY <1>3, <2>1
    <2> QED BY <1>1, <2>1, <2>2
  <1>6. ASSUME NEW S, S \subseteq bad \cup good, NoneIn(p, S) PROVE NoneIn(q, S)
    BY <1>1, <1>3, <1>4, <1>6 DEF NoneIn
  <1> QED BY <1>5, <1>6 DEF Follows, p

-----------------------------------------------------------------------------
(* Where the page comes to rest.                                                *)

Queue == IF online THEN wire ELSE pending

Asks == [cmd : {"get_game_details"}, game : Games]
Reviews == [cmd : {"submit_review"}, game : Games]
Shows == [kind : {"details"}, game : Games, own : BOOLEAN]

AsksFor(g) == {f \in Asks : f.game = g}
ShowsOf(g) == {a \in Shows : a.game = g}
OtherAsks(g) == Asks \ AsksFor(g)
OtherShows(g) == Shows \ ShowsOf(g)

\* The game is asked for last, or answered last, or current.
Settled(g) ==
    /\ Follows(Queue, OtherAsks(g), AsksFor(g))
    /\ NoneIn(Queue, Asks) =>
          /\ Follows(inflight, OtherShows(g), ShowsOf(g))
          /\ NoneIn(inflight, Shows) => current = g

SettleInv == opened # None /\ ~strayed /\ opened \notin failed => Settled(opened)

LEMMA QueueType ==
    ASSUME TypeInv
    PROVE  Queue \in Seq(Frames) /\ Frames = Asks \cup Reviews
  BY DetailAssumption DEF TypeInv, TypeOK, LinkTypeOK, Queue, Asks, Reviews

\* A frame is sent behind all that wait, or all but the first, which is pushed out.
LEMMA Sent ==
    ASSUME TypeInv, NEW f \in Frames, Send(f)
    PROVE  \/ Queue' = Append(Queue, f)
           \/ /\ ~online /\ pending # <<>> /\ pending \in Seq(Frames)
              /\ Queue' = Append(Tail(Queue), f) /\ Queue = pending /\ Queue' = pending'
  <1>1. CASE online
    BY <1>1 DEF Send, Queue
  <1>2. CASE ~online /\ ~(Len(pending) >= MaxPending)
    BY <1>2 DEF Send, Queue
  <1>3. CASE ~online /\ Len(pending) >= MaxPending
    <2>1. pending \in Seq(Frames) /\ pending # <<>>
      BY <1>3, DetailAssumption DEF TypeInv, TypeOK, LinkTypeOK
    <2> QED BY <1>3, <2>1 DEF Send, Queue
  <1> QED BY <1>1, <1>2, <1>3

LEMMA AskedIs ==
    ASSUME NEW g \in Games, NEW q
    PROVE  /\ Details(g) \in AsksFor(g)
           /\ ~Asked(g, q) <=> NoneIn(q, AsksFor(g))
  BY DEF Details, Asks, AsksFor, Asked, NoneIn

\* Whatever waits, a game that is shown is asked for last.
LEMMA SettledByShow ==
    ASSUME TypeInv, NEW g \in Games, ShowGameDetails(g)
    PROVE  Settled(g)'
  <1> DEFINE f == Details(g)
  <1>1. f \in Frames /\ f \in AsksFor(g) /\ f \notin OtherAsks(g) /\ f \in Asks /\ Send(f)
    BY AskedIs, QueueType DEF ShowGameDetails, AsksFor, OtherAsks
  <1> HIDE DEF f
  <1>2. PICK q \in Seq(Frames) : Queue' = Append(q, f)
    <2>1. Queue \in Seq(Frames)
      BY QueueType
    <2>2. Queue # <<>> => Tail(Queue) \in Seq(Frames)
      BY <2>1
    <2> QED BY <1>1, <2>1, <2>2, Sent
  <1>3. Follows(Queue', OtherAsks(g), AsksFor(g))
    BY <1>1, <1>2, FollowsAppend
  <1>4. ~NoneIn(Queue', Asks)
    BY <1>1, <1>2, NoneAppend
  <1> QED BY <1>3, <1>4 DEF Settled

\* A review goes behind the requests and may push one out.
LEMMA SettledBySend ==
    ASSUME TypeInv, NEW g \in Games, Settled(g), NEW f \in Reviews, Send(f),
           UNCHANGED <<inflight, current>>, g \notin PushedOut
    PROVE  Settled(g)'
  <1>1. f \in Frames /\ f \notin Asks /\ f \notin OtherAsks(g) /\ Queue \in Seq(Frames)
    BY QueueType DEF Asks, Reviews, OtherAsks
  <1>2. CASE Queue' = Append(Queue, f)
    <2>1. Follows(Queue', OtherAsks(g), AsksFor(g))
      BY <1>1, <1>2, FollowsAppend DEF Settled
    <2>2. NoneIn(Queue', Asks) => NoneIn(Queue, Asks)
      BY <1>1, <1>2, NoneAppend
    <2> QED BY <2>1, <2>2 DEF Settled
  <1>3. CASE /\ ~online /\ pending # <<>> /\ pending \in Seq(Frames)
             /\ Queue' = Append(Tail(Queue), f) /\ Queue = pending /\ Queue' = pending'
    <2> DEFINE rest == Tail(Queue)
    <2>1. rest \in Seq(Frames) /\ Queue # <<>> /\ Head(Queue) \in Frames
      BY <1>1, <1>3, Cut
    <2>2. /\ Follows(rest, OtherAsks(g), AsksFor(g))
          /\ Head(Queue) \in OtherAsks(g) => ~NoneIn(rest, AsksFor(g))
      BY <1>1, <2>1, FollowsTail DEF Settled
    <2> HIDE DEF rest
    <2>3. Follows(Queue', OtherAsks(g), AsksFor(g))
      BY <1>1, <1>3, <2>1, <2>2, FollowsAppend DEF rest
    <2>4. ASSUME NoneIn(Queue', Asks) PROVE NoneIn(Queue, Asks)
      <3>1. NoneIn(rest, Asks)
        BY <1>1, <1>3, <2>1, <2>4, NoneAppend DEF rest
      <3>2. NoneIn(rest, AsksFor(g)) /\ NoneIn(Queue', AsksFor(g))
        BY <2>4, <3>1 DEF NoneIn, AsksFor
      <3>3. NoneIn(Queue, AsksFor(g))
        BY <1>3, <3>2, AskedIs DEF PushedOut
      <3>4. Head(Queue) \notin AsksFor(g)
        BY <1>1, <2>1, <3>3, Cut DEF NoneIn
      <3>5. Head(Queue) \notin Asks
        BY <2>2, <3>2, <3>4 DEF OtherAsks
      <3> QED BY <1>1, <2>1, <3>1, <3>5, NoneTail DEF rest
    <2> QED BY <2>3, <2>4 DEF Settled
  <1> QED BY <1>1, <1>2, <1>3, Sent

\* The server answers or refuses the first request.
LEMMA SettledByServer ==
    ASSUME TypeInv, NEW g \in Games, Settled(g), ServerTakes, g \notin failed'
    PROVE  Settled(g)'
  <1> DEFINE f == Head(wire)
  <1>1. /\ wire # <<>> /\ wire \in Seq(Frames) /\ wire' = Tail(wire) /\ online /\ online'
        /\ inflight \in Seq(Answer) /\ current' = current
    BY DEF ServerTakes, Take, TypeInv, TypeOK, LinkTypeOK, display
  <1>2. Queue = wire /\ Queue' = wire' /\ f \in Frames
    BY <1>1, Cut DEF Queue
  <1>3. /\ Follows(wire', OtherAsks(g), AsksFor(g))
        /\ f \in OtherAsks(g) => ~NoneIn(wire', AsksFor(g))
    BY <1>1, <1>2, FollowsTail DEF Settled
  <1> SUFFICES ASSUME NoneIn(wire', Asks)
               PROVE  /\ Follows(inflight', OtherShows(g), ShowsOf(g))
                      /\ NoneIn(inflight', Shows) => current = g
    BY <1>1, <1>2, <1>3 DEF Settled
  <1>4. NoneIn(wire', AsksFor(g)) /\ f \notin OtherAsks(g)
    BY <1>3 DEF NoneIn, AsksFor
  <1>5. CASE f \in Asks
    <2>1. f \in AsksFor(g) /\ f.game = g /\ f.cmd = "get_game_details"
      BY <1>4, <1>5 DEF OtherAsks, AsksFor, Asks
    <2>2. ~NoneIn(wire, AsksFor(g))
      BY <1>1, <2>1, Cut DEF NoneIn
    <2>3. g \in Taken
      BY <1>4, <2>2, AskedIs DEF Taken
    <2>4. inflight' = Append(inflight, [kind |-> "details", game |-> g, own |-> g \in reviewed])
      BY <2>1, <2>3 DEF ServerTakes
    <2>5. PICK a \in Answer : inflight' = Append(inflight, a) /\ a \in ShowsOf(g) /\ a \in Shows /\ a \notin OtherShows(g)
      <3>1. ASSUME NEW b \in BOOLEAN
            PROVE  /\ [kind |-> "details", game |-> g, own |-> b] \in Answer
                   /\ [kind |-> "details", game |-> g, own |-> b] \in Shows
                   /\ [kind |-> "details", game |-> g, own |-> b].game = g
        BY DEF Answer, Shows
      <3>2. (g \in reviewed) \in BOOLEAN
        OBVIOUS
      <3> DEFINE a == [kind |-> "details", game |-> g, own |-> g \in reviewed]
      <3>3. a \in Answer /\ a \in Shows /\ a.game = g
        BY <3>1, <3>2
      <3>4. inflight' = Append(inflight, a)
        BY <2>4
      <3> HIDE DEF a
      <3> QED BY <3>3, <3>4 DEF ShowsOf, OtherShows
    <2>6. Follows(inflight', OtherShows(g), ShowsOf(g))
      BY <1>1, <2>5, FollowsAppend
    <2>7. ~NoneIn(inflight', Shows)
      BY <1>1, <2>5, NoneAppend
    <2> QED BY <2>6, <2>7
  <1>6. CASE f \notin Asks
    <2>1. NoneIn(wire, Asks)
      BY <1>1, <1>6, NoneTail
    <2>2. Follows(inflight, OtherShows(g), ShowsOf(g)) /\ (NoneIn(inflight, Shows) => current = g)
      BY <1>2, <2>1 DEF Settled
    <2>3. f.cmd = "submit_review"
      BY <1>2, <1>6, QueueType DEF Reviews
    <2>4. \E kind \in {"review", "msg", "error"} :
             inflight' = Append(inflight, [kind |-> kind, game |-> None, own |-> FALSE])
      BY <2>3 DEF ServerTakes
    <2>5. PICK a \in Answer : inflight' = Append(inflight, a) /\ a \notin Shows /\ a \notin OtherShows(g)
      <3>1. PICK kind \in {"review", "msg", "error"} :
               inflight' = Append(inflight, [kind |-> kind, game |-> None, own |-> FALSE])
        BY <2>4
      <3> DEFINE a == [kind |-> kind, game |-> None, own |-> FALSE]
      <3>2. a \in Answer
        BY DEF Answer
      <3>3. a \notin Shows
        BY DEF Shows
      <3>4. inflight' = Append(inflight, a)
        BY <3>1
      <3> HIDE DEF a
      <3> QED BY <3>2, <3>3, <3>4 DEF OtherShows
    <2>6. Follows(inflight', OtherShows(g), ShowsOf(g))
      BY <1>1, <2>2, <2>5, FollowsAppend
    <2>7. NoneIn(inflight', Shows) => NoneIn(inflight, Shows)
      BY <1>1, <2>5, NoneAppend
    <2> QED BY <2>2, <2>6, <2>7
  <1> QED BY <1>5, <1>6

\* A connection that ends takes requests and answers with it.
LEMMA SettledByLoss ==
    ASSUME TypeInv, NEW g \in Games, Settled(g), Disconnected, g \notin failed'
    PROVE  Settled(g)'
  <1>1. PICK n \in 0 .. Len(inflight) :
           /\ inflight' = SubSeq(inflight, 1, n)
           /\ failed' = failed \cup Taken \cup
                 {h \in Games : Answered(h, SubSeq(inflight, n + 1, Len(inflight)))}
    BY DEF Disconnected
  <1>2. /\ online /\ ~online' /\ wire' = <<>> /\ pending' = <<>> /\ current' = current /\ inflight \in Seq(Answer)
    BY DEF Disconnected, Lose, TypeInv, TypeOK, LinkTypeOK, display
  <1>3. Queue = wire /\ Queue' = <<>>
    BY <1>2 DEF Queue
  <1>4. NoneIn(wire, AsksFor(g))
    <2>1. ~Asked(g, wire')
      BY <1>2 DEF Asked
    <2> QED BY <1>1, <2>1, AskedIs DEF Taken
  <1>5. NoneIn(wire, Asks)
    <2>1. NoneIn(wire, OtherAsks(g))
      BY <1>3, <1>4, FollowsNone DEF Settled
    <2> QED BY <1>4, <2>1 DEF NoneIn, OtherAsks
  <1>6. Follows(inflight, OtherShows(g), ShowsOf(g)) /\ (NoneIn(inflight, Shows) => current = g)
    BY <1>3, <1>5 DEF Settled
  <1>7. NoneIn(SubSeq(inflight, n + 1, Len(inflight)), ShowsOf(g))
    BY <1>1 DEF Answered, NoneIn, ShowsOf
  <1>8. Shows \subseteq OtherShows(g) \cup ShowsOf(g)
    BY DEF OtherShows
  <1>9. /\ Follows(inflight', OtherShows(g), ShowsOf(g))
        /\ NoneIn(inflight', Shows) => NoneIn(inflight, Shows)
    BY <1>1, <1>2, <1>6, <1>7, <1>8, FollowsCut
  <1>10. Follows(Queue', OtherAsks(g), AsksFor(g))
    BY <1>3 DEF Follows
  <1> QED BY <1>2, <1>6, <1>9, <1>10 DEF Settled

\* An answer that asks for nothing is handled.
LEMMA SettledByAnswer ==
    ASSUME TypeInv, NEW g \in Games, Settled(g), OnServerMessage, UNCHANGED link
    PROVE  Settled(g)'
  <1> DEFINE a == Head(inflight)
  <1>1. inflight # <<>> /\ inflight \in Seq(Answer) /\ inflight' = Tail(inflight) /\ a \in Answer
    BY DEF OnServerMessage, TypeInv, TypeOK
  <1>2. Queue' = Queue
    BY DEF link, Queue
  <1> SUFFICES ASSUME Follows(inflight, OtherShows(g), ShowsOf(g)), NoneIn(inflight, Shows) => current = g
               PROVE  /\ Follows(inflight', OtherShows(g), ShowsOf(g))
                      /\ NoneIn(inflight', Shows) => current' = g
    BY <1>2 DEF Settled
  <1>3. /\ Follows(inflight', OtherShows(g), ShowsOf(g))
        /\ a \in OtherShows(g) => ~NoneIn(inflight', ShowsOf(g))
    BY <1>1, FollowsTail
  <1>4. ASSUME NoneIn(inflight', Shows) PROVE current' = g
    <2>1. NoneIn(inflight', ShowsOf(g))
      BY <1>4 DEF NoneIn, ShowsOf
    <2>2. CASE a.kind = "details"
      <3>1. a \in Shows /\ a \in ShowsOf(g)
        BY <1>1, <1>3, <2>1, <2>2 DEF Answer, Shows, OtherShows
      <3> QED BY <2>2, <3>1 DEF OnServerMessage, OnDetails, Update, ShowsOf
    <2>3. CASE a.kind # "details"
      <3>1. a \notin Shows
        BY <2>3 DEF Shows
      <3>2. current' = current
        BY <1>1, <2>3 DEF OnServerMessage, OnReview, OnError, ShowAgain, ShowGameDetails, Update, Answer, display
      <3>3. NoneIn(inflight, Shows)
        BY <1>1, <1>4, <3>1, NoneTail
      <3> QED BY <3>2, <3>3
    <2> QED BY <2>2, <2>3
  <1> QED BY <1>3, <1>4

\* Which game is opened is looked up after the step.
LEMMA SettledOpened ==
    ASSUME NEW g, g = opened', Settled(g)'
    PROVE  Settled(opened)'
  BY DEF Settled, Queue, Asks, Shows, AsksFor, ShowsOf, OtherAsks, OtherShows

LEMMA SettledAway ==
    ASSUME NEW g \in Games, Settled(g), UNCHANGED <<link, inflight, current>>
    PROVE  Settled(g)'
  BY DEF Settled, Queue, link

LEMMA SettleNext ==
    ASSUME TypeInv, SettleInv, [Next]_vars
    PROVE  SettleInv'
  <1> SUFFICES ASSUME opened' # None, ~strayed', opened' \notin failed'
               PROVE  Settled(opened)'
    BY DEF SettleInv
  <1>1. PICK g \in Games : g = opened'
    BY NextType DEF TypeInv, TypeOK
  <1> SUFFICES Settled(g)'
    BY <1>1, SettledOpened
  <1>2. ASSUME opened' = opened, strayed' = strayed, failed \subseteq failed'
        PROVE  Settled(g)
    <2>1. Settled(opened)
      BY <1>1, <1>2 DEF SettleInv
    <2> QED BY <1>1, <1>2, <2>1
  <1>3. ASSUME NEW h \in Games, Open(h) PROVE Settled(g)'
    <2>1. ShowGameDetails(h) /\ h = g
      BY <1>1, <1>3 DEF Open
    <2> QED BY <2>1, SettledByShow
  <1>4. ASSUME ShowAgain, opened' = opened PROVE Settled(g)'
    <2>1. ShowGameDetails(current) /\ current = g
      BY <1>1, <1>4 DEF ShowAgain
    <2>2. ShowGameDetails(g)
      BY <2>1
    <2> QED BY <2>2, SettledByShow
  <1>5. CASE Timer
    BY <1>4, <1>5 DEF Timer
  <1>6. CASE SubmitReview
    <2>1. /\ Send(Review(current)) /\ UNCHANGED <<inflight, current>>
          /\ failed' = failed \cup PushedOut /\ opened' = opened /\ strayed' = strayed
          /\ page
      BY <1>6 DEF SubmitReview, answers, display
    <2>2. Review(current) \in Reviews
      BY <2>1 DEF TypeInv, TypeOK, Review, Reviews
    <2>3. Settled(g) /\ g \notin PushedOut
      BY <1>1, <1>2, <2>1
    <2> QED BY <2>1, <2>2, <2>3, SettledBySend
  <1>7. CASE Connected
    <2>1. /\ UNCHANGED <<inflight, current, opened, strayed, failed>>
          /\ ~online /\ online' /\ wire' = <<>> \o pending
      BY <1>7 DEF Connected, Connect, answers, display
    <2>2. Settled(g) /\ Queue' = Queue
      <3>1. pending \in Seq(Frames)
        BY DEF TypeInv, TypeOK, LinkTypeOK
      <3>2. <<>> \o pending = pending
        BY <3>1
      <3> QED BY <1>2, <2>1, <3>2 DEF Queue
    <2> QED BY <2>1, <2>2 DEF Settled
  <1>8. CASE Disconnected
    <2>1. opened' = opened /\ strayed' = strayed /\ failed \subseteq failed'
      BY <1>8 DEF Disconnected
    <2> QED BY <1>1, <1>2, <1>8, <2>1, SettledByLoss
  <1>9. CASE ServerTakes
    <2>1. opened' = opened /\ strayed' = strayed /\ failed \subseteq failed'
      BY <1>9 DEF ServerTakes
    <2> QED BY <1>1, <1>2, <1>9, <2>1, SettledByServer
  <1>10. CASE OnServerMessage
    <2>1. opened' = opened /\ Head(inflight) \in Answer
      BY <1>10 DEF OnServerMessage, TypeInv, TypeOK
    <2>2. CASE Head(inflight).kind = "review" /\ current # None
      BY <1>4, <1>10, <2>1, <2>2 DEF OnServerMessage, OnReview
    <2>3. CASE ~(Head(inflight).kind = "review" /\ current # None)
      <3>1. UNCHANGED <<link, strayed, failed>>
        BY <1>10, <2>1, <2>3 DEF OnServerMessage, OnDetails, OnReview, OnError, Answer
      <3> QED BY <1>2, <1>10, <2>1, <3>1, SettledByAnswer
    <2> QED BY <2>2, <2>3
  <1>11. CASE \E h \in Games : AcceptUpdate(h)
    BY <1>11 DEF AcceptUpdate
  <1>12. CASE \/ Leave \/ Install \/ CloseBox
              \/ \E h \in Games : Uninstall(h) \/ Completed(h)
              \/ \E listed \in Lists : OnGames(listed)
              \/ OnVersion \/ UNCHANGED vars
    <2>1. UNCHANGED <<link, inflight, current, opened, strayed, failed>>
      BY <1>12 DEF Leave, Install, CloseBox, Uninstall, Completed, OnGames, OnVersion, vars, answers, display
    <2> QED BY <1>2, <2>1, SettledAway
  <1> QED BY <1>3, <1>5, <1>6, <1>7, <1>8, <1>9, <1>10, <1>11, <1>12 DEF Next

\* A page at rest acts on the game opened last, if its request was not lost and
\* no review asked for another: in any order of answers, losses and timers.
THEOREM SettlesOnTheOpened == Spec => []SettlesOnOpened
  <1>1. Init => SettleInv
    BY DEF Init, SettleInv
  <1>2. TypeInv /\ SettleInv /\ [Next]_vars => SettleInv'
    BY SettleNext
  <1>3. SettleInv => SettlesOnOpened
    <2> SUFFICES ASSUME SettleInv, Quiet, opened # None, ~strayed, opened \notin failed
                 PROVE  current = opened
      BY DEF SettlesOnOpened
    <2>1. Settled(opened)
      BY DEF SettleInv
    <2>2. Queue = <<>> /\ inflight = <<>>
      BY DEF Quiet, Queue
    <2>3. NoneIn(Queue, Asks) /\ NoneIn(inflight, Shows)
      BY <2>2 DEF NoneIn
    <2> QED BY <2>1, <2>3 DEF Settled
  <1> QED BY <1>1, <1>2, <1>3, TypeInvAlways, PTL DEF Spec

-----------------------------------------------------------------------------
(* The user's own review.                                                       *)

\* Details from before the review.
Stale == {a \in Shows : a.game \in reviewed /\ a.own = FALSE}

\* A review is followed by a request, details without it by others, and what is
\* displayed has it.
OwnSettled ==
    /\ Follows(Queue, Reviews, Asks)
    /\ NoneIn(Queue, Asks) =>
          /\ Follows(inflight, Stale, Shows \ Stale)
          /\ NoneIn(inflight, Shows) /\ shown \in reviewed => own = TRUE

OwnInv == failed = {} /\ timers = 0 => OwnSettled

LEMMA OwnByShow ==
    ASSUME TypeInv, NEW g \in Games, ShowGameDetails(g)
    PROVE  OwnSettled'
  <1> DEFINE f == Details(g)
  <1>1. f \in Frames /\ f \in Asks /\ f \notin Reviews /\ Send(f)
    BY QueueType DEF ShowGameDetails, Details, Asks, Reviews
  <1> HIDE DEF f
  <1>2. PICK q \in Seq(Frames) : Queue' = Append(q, f)
    <2>1. Queue \in Seq(Frames)
      BY QueueType
    <2>2. Queue # <<>> => Tail(Queue) \in Seq(Frames)
      BY <2>1
    <2> QED BY <1>1, <2>1, <2>2, Sent
  <1>3. Follows(Queue', Reviews, Asks)
    BY <1>1, <1>2, FollowsAppend
  <1>4. ~NoneIn(Queue', Asks)
    BY <1>1, <1>2, NoneAppend
  <1> QED BY <1>3, <1>4 DEF OwnSettled

\* A request that is the last of its game is not refused: others follow it.
LEMMA OwnByServer ==
    ASSUME TypeInv, OwnSettled, ServerTakes, failed' = {}
    PROVE  OwnSettled'
  <1> DEFINE f == Head(wire)
  <1>1. /\ wire # <<>> /\ wire \in Seq(Frames) /\ wire' = Tail(wire) /\ online /\ online'
        /\ inflight \in Seq(Answer) /\ shown' = shown /\ own' = own
    BY DEF ServerTakes, Take, TypeInv, TypeOK, LinkTypeOK, display
  <1>2. Queue = wire /\ Queue' = wire' /\ f \in Frames
    BY <1>1, Cut DEF Queue
  <1>3. /\ Follows(wire', Reviews, Asks)
        /\ f \in Reviews => ~NoneIn(wire', Asks)
    BY <1>1, <1>2, FollowsTail DEF OwnSettled
  <1> SUFFICES ASSUME NoneIn(wire', Asks)
               PROVE  /\ Follows(inflight', Stale', (Shows \ Stale)')
                      /\ NoneIn(inflight', Shows) /\ shown' \in reviewed' => own' = TRUE
    BY <1>1, <1>2, <1>3 DEF OwnSettled
  <1>4. f \in Asks
    BY <1>2, <1>3, QueueType
  <1>5. PICK g \in Games : f = Details(g) /\ f.game = g /\ f.cmd = "get_game_details"
    BY <1>4 DEF Asks, Details
  <1>6. g \in Taken
    <2>1. ~Asked(g, wire')
      BY AskedIs DEF NoneIn, AsksFor
    <2>2. Asked(g, wire)
      BY <1>1, <1>5, Cut DEF Asked
    <2> QED BY <2>1, <2>2 DEF Taken
  <1>7. /\ reviewed' = reviewed
        /\ inflight' = Append(inflight, [kind |-> "details", game |-> g, own |-> g \in reviewed])
    BY <1>5, <1>6 DEF ServerTakes
  <1>8. PICK a \in Answer : inflight' = Append(inflight, a) /\ a \in Shows /\ a \notin Stale
    <2>1. ASSUME NEW b \in BOOLEAN
          PROVE  /\ [kind |-> "details", game |-> g, own |-> b] \in Answer
                 /\ [kind |-> "details", game |-> g, own |-> b] \in Shows
                 /\ [kind |-> "details", game |-> g, own |-> b].game = g
                 /\ [kind |-> "details", game |-> g, own |-> b].own = b
      BY DEF Answer, Shows
    <2>2. (g \in reviewed) \in BOOLEAN
      OBVIOUS
    <2> DEFINE a == [kind |-> "details", game |-> g, own |-> g \in reviewed]
    <2>3. a \in Answer /\ a \in Shows /\ a.game = g /\ a.own = (g \in reviewed)
      BY <2>1, <2>2
    <2>4. inflight' = Append(inflight, a)
      BY <1>7
    <2> HIDE DEF a
    <2> QED BY <2>3, <2>4 DEF Stale
  <1>9. Stale' = Stale
    BY <1>7 DEF Stale, Shows
  <1>10. Follows(inflight', Stale, Shows \ Stale)
    BY <1>1, <1>8, FollowsAppend
  <1>11. ~NoneIn(inflight', Shows)
    BY <1>1, <1>8, NoneAppend
  <1>12. (Shows \ Stale)' = Shows \ Stale
    BY <1>9 DEF Shows
  <1> QED BY <1>9, <1>10, <1>11, <1>12

LEMMA OwnByLoss ==
    ASSUME TypeInv, OwnSettled, Disconnected, failed' = {}
    PROVE  OwnSettled'
  <1>1. PICK n \in 0 .. Len(inflight) :
           /\ inflight' = SubSeq(inflight, 1, n)
           /\ failed' = failed \cup Taken \cup
                 {h \in Games : Answered(h, SubSeq(inflight, n + 1, Len(inflight)))}
    BY DEF Disconnected
  <1>2. /\ online /\ ~online' /\ wire' = <<>> /\ pending' = <<>> /\ inflight \in Seq(Answer)
        /\ shown' = shown /\ own' = own /\ reviewed' = reviewed
    BY DEF Disconnected, Lose, TypeInv, TypeOK, LinkTypeOK, display
  <1>3. Queue = wire /\ Queue' = <<>>
    BY <1>2 DEF Queue
  <1>4. NoneIn(wire, Asks)
    <2>1. ASSUME NEW h \in Games PROVE ~Asked(h, wire)
      BY <1>1, <1>2 DEF Asked, Taken
    <2> QED BY <2>1 DEF NoneIn, Asked, Asks, Details
  <1>5. /\ Follows(inflight, Stale, Shows \ Stale)
        /\ NoneIn(inflight, Shows) /\ shown \in reviewed => own = TRUE
    BY <1>3, <1>4 DEF OwnSettled
  <1>6. NoneIn(SubSeq(inflight, n + 1, Len(inflight)), Shows \ Stale)
    BY <1>1 DEF Answered, NoneIn, Shows
  <1>7. Shows \subseteq Stale \cup (Shows \ Stale)
    OBVIOUS
  <1>8. /\ Follows(inflight', Stale, Shows \ Stale)
        /\ NoneIn(inflight', Shows) => NoneIn(inflight, Shows)
    BY <1>1, <1>2, <1>5, <1>6, <1>7, FollowsCut
  <1>9. Stale' = Stale /\ (Shows \ Stale)' = Shows \ Stale
    BY <1>2 DEF Stale, Shows
  <1>10. Follows(Queue', Reviews, Asks)
    BY <1>3 DEF Follows
  <1> QED BY <1>2, <1>5, <1>8, <1>9, <1>10 DEF OwnSettled

\* An answer that asks for nothing is handled.
LEMMA OwnByAnswer ==
    ASSUME TypeInv, OwnSettled, OnServerMessage, UNCHANGED link,
           ~(Head(inflight).kind = "review" /\ current # None)
    PROVE  OwnSettled'
  <1> DEFINE a == Head(inflight)
  <1>1. /\ inflight # <<>> /\ inflight \in Seq(Answer) /\ inflight' = Tail(inflight) /\ a \in Answer
        /\ reviewed' = reviewed
    BY DEF OnServerMessage, TypeInv, TypeOK
  <1>2. Queue' = Queue
    BY DEF link, Queue
  <1>3. Stale' = Stale /\ (Shows \ Stale)' = Shows \ Stale
    BY <1>1 DEF Stale, Shows
  <1> SUFFICES ASSUME /\ Follows(inflight, Stale, Shows \ Stale)
                      /\ NoneIn(inflight, Shows) /\ shown \in reviewed => own = TRUE
               PROVE  /\ Follows(inflight', Stale, Shows \ Stale)
                      /\ NoneIn(inflight', Shows) /\ shown' \in reviewed => own' = TRUE
    BY <1>1, <1>2, <1>3 DEF OwnSettled
  <1>4. /\ Follows(inflight', Stale, Shows \ Stale)
        /\ a \in Stale => ~NoneIn(inflight', Shows \ Stale)
    BY <1>1, FollowsTail
  <1>5. ASSUME NoneIn(inflight', Shows), shown' \in reviewed PROVE own' = TRUE
    <2>1. NoneIn(inflight', Shows \ Stale)
      BY <1>5 DEF NoneIn
    <2>2. CASE a.kind = "details"
      <3>1. a \in Shows /\ a \notin Stale
        BY <1>1, <1>4, <2>1, <2>2 DEF Answer, Shows
      <3>2. shown' = a.game /\ own' = a.own
        BY <2>2 DEF OnServerMessage, OnDetails, Update
      <3>3. a.own \in BOOLEAN
        BY <3>1 DEF Shows
      <3>4. a.own # FALSE
        BY <1>5, <3>1, <3>2 DEF Stale
      <3> QED BY <3>2, <3>3, <3>4
    <2>3. CASE a.kind # "details"
      <3>1. a \notin Shows
        BY <2>3 DEF Shows
      <3>2. shown' = shown /\ own' = own
        BY <1>1, <2>3 DEF OnServerMessage, OnReview, OnError, Answer, display
      <3>3. NoneIn(inflight, Shows)
        BY <1>1, <1>5, <3>1, NoneTail
      <3> QED BY <1>5, <3>2, <3>3
    <2> QED BY <2>2, <2>3
  <1> QED BY <1>4, <1>5

LEMMA OwnNext ==
    ASSUME TypeInv, OwnInv, [Next]_vars
    PROVE  OwnInv'
  <1> SUFFICES ASSUME failed' = {}, timers' = 0
               PROVE  OwnSettled'
    BY DEF OwnInv
  <1>1. ASSUME failed \subseteq failed', timers' = timers PROVE OwnSettled
    <2>1. failed = {} /\ timers = 0
      BY <1>1
    <2> QED BY <2>1 DEF OwnInv
  <1>2. ASSUME NEW g \in Games, Open(g) PROVE OwnSettled'
    BY <1>2, OwnByShow DEF Open
  <1>3. ASSUME ShowAgain, current # None PROVE OwnSettled'
    <2>1. PICK g \in Games : g = current
      BY <1>3 DEF TypeInv, TypeOK
    <2>2. ShowGameDetails(g)
      BY <1>3, <2>1 DEF ShowAgain
    <2> QED BY <2>2, OwnByShow
  <1>4. CASE Timer
    BY <1>3, <1>4 DEF Timer, TypeInv
  <1>5. CASE SubmitReview
    <2>1. timers' = timers + 1 /\ timers \in Nat
      BY <1>5, DetailAssumption DEF SubmitReview, TypeInv, TypeOK
    <2> QED BY <2>1
  <1>6. CASE Connected
    <2>1. /\ UNCHANGED <<reviewed, inflight, shown, own, timers, failed>>
          /\ ~online /\ online' /\ wire' = <<>> \o pending
      BY <1>6 DEF Connected, Connect, answers, display
    <2>2. OwnSettled /\ Queue' = Queue
      <3>1. pending \in Seq(Frames)
        BY DEF TypeInv, TypeOK, LinkTypeOK
      <3>2. <<>> \o pending = pending
        BY <3>1
      <3> QED BY <1>1, <2>1, <3>2 DEF Queue
    <2>3. Stale' = Stale
      BY <2>1 DEF Stale, Shows
    <2> QED BY <2>1, <2>2, <2>3 DEF OwnSettled, Shows, Asks, Reviews
  <1>7. CASE Disconnected
    <2>1. failed \subseteq failed' /\ timers' = timers
      BY <1>7 DEF Disconnected
    <2> QED BY <1>1, <1>7, <2>1, OwnByLoss
  <1>8. CASE ServerTakes
    <2>1. failed \subseteq failed' /\ timers' = timers
      BY <1>8 DEF ServerTakes
    <2> QED BY <1>1, <1>8, <2>1, OwnByServer
  <1>9. CASE OnServerMessage
    <2>1. timers' = timers /\ Head(inflight) \in Answer
      BY <1>9 DEF OnServerMessage, TypeInv, TypeOK
    <2>2. CASE Head(inflight).kind = "review" /\ current # None
      BY <1>3, <1>9, <2>1, <2>2 DEF OnServerMessage, OnReview
    <2>3. CASE ~(Head(inflight).kind = "review" /\ current # None)
      <3>1. UNCHANGED <<link, failed>>
        BY <1>9, <2>1, <2>3 DEF OnServerMessage, OnDetails, OnReview, OnError, Answer
      <3> QED BY <1>1, <1>9, <2>1, <2>3, <3>1, OwnByAnswer
    <2> QED BY <2>2, <2>3
  <1>10. CASE \/ Leave \/ Install \/ CloseBox
              \/ \E h \in Games : Uninstall(h) \/ Completed(h) \/ AcceptUpdate(h)
              \/ \E listed \in Lists : OnGames(listed)
              \/ OnVersion \/ UNCHANGED vars
    <2>1. UNCHANGED <<link, reviewed, inflight, shown, own, timers, failed>>
      BY <1>10 DEF Leave, Install, CloseBox, Uninstall, Completed, AcceptUpdate, OnGames, OnVersion, vars, answers, display
    <2>2. OwnSettled /\ Queue' = Queue
      BY <1>1, <2>1 DEF Queue, link
    <2>3. Stale' = Stale
      BY <2>1 DEF Stale, Shows
    <2> QED BY <2>1, <2>2, <2>3 DEF OwnSettled, Shows, Asks, Reviews
  <1> QED BY <1>2, <1>4, <1>5, <1>6, <1>7, <1>8, <1>9, <1>10 DEF Next

\* A page at rest displays the user's own review, if no request was lost or
\* refused: however reviews, timers and late answers follow each other.
THEOREM OwnReviewIsSeen == Spec => []SeesOwnReview
  <1>1. Init => OwnInv
    <2> SUFFICES ASSUME Init PROVE OwnSettled
      BY DEF OwnInv
    <2>1. Queue = <<>> /\ inflight = <<>> /\ reviewed = {}
      BY DEF Init, LinkInit, Queue
    <2> QED BY <2>1 DEF OwnSettled, Follows
  <1>2. TypeInv /\ OwnInv /\ [Next]_vars => OwnInv'
    BY OwnNext
  <1>3. OwnInv => SeesOwnReview
    <2> SUFFICES ASSUME OwnInv, Quiet, failed = {}, shown \in reviewed
                 PROVE  own
      BY DEF SeesOwnReview
    <2>1. OwnSettled
      BY DEF OwnInv, Quiet
    <2>2. Queue = <<>> /\ inflight = <<>>
      BY DEF Quiet, Queue
    <2>3. NoneIn(Queue, Asks) /\ NoneIn(inflight, Shows)
      BY <2>2 DEF NoneIn
    <2> QED BY <2>1, <2>3 DEF OwnSettled
  <1> QED BY <1>1, <1>2, <1>3, TypeInvAlways, PTL DEF Spec
=============================================================================
