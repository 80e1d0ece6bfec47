---------------------------- MODULE SessionProofs ----------------------------
(* Who is logged in and what is kept of it, for any users, credentials, bounds  *)
(* and losses.                                                                  *)
EXTENDS Session, ConnectionProofs

-----------------------------------------------------------------------------
(* The connection.                                                              *)

LEMMA DataIsRequest == Data \in Frames /\ Data.by = None
  BY SessionAssumption DEF Data, Request

LEMMA LoginIsRequest ==
    ASSUME NEW c \in Credentials, NEW cmd \in {"login", "register"}
    PROVE  [cmd |-> cmd, by |-> c] \in Frames /\ [cmd |-> cmd, by |-> c].by = c
  BY SessionAssumption DEF Request

-----------------------------------------------------------------------------
(* Types.                                                                       *)

AnswersOK == inflight \in Seq(Answer) /\ unread \in Seq(Answer) /\ held \in Seq(Answer)

LEMMA InitType == Init => TypeOK
  <1> SUFFICES ASSUME Init PROVE TypeOK
    OBVIOUS
  <1>1. <<>> \in Seq(Frames) /\ <<>> \in Seq(Answer) /\ Len(<<>>) <= MaxPending
    BY SessionAssumption
  <1>2. LinkTypeOK /\ AnswersOK
    BY <1>1 DEF Init, LinkInit, LinkTypeOK, AnswersOK
  <1>3. auto \in Credentials \cup {None}
    BY DEF Init, Loaded
  <1>4. remember \in BOOLEAN
    BY DEF Init
  <1>5. issued \in 0 .. MaxIssued
    BY SessionAssumption DEF Init
  <1> QED BY <1>2, <1>3, <1>4, <1>5 DEF Init, TypeOK, AnswersOK

LEMMA SubmitType ==
    ASSUME TypeOK, NEW cmd \in {"login", "register"}, NEW c \in Credentials, NEW keep \in BOOLEAN,
           Submit(cmd, c, keep)
    PROVE  TypeOK'
  <1>1. LinkTypeOK'
    BY SendType, SessionAssumption, LoginIsRequest DEF Submit, TypeOK
  <1>2. remember' \in BOOLEAN
    BY DEF Submit
  <1>3. issued' \in 0 .. MaxIssued
    BY SessionAssumption DEF Submit, TypeOK
  <1> QED BY <1>1, <1>2, <1>3 DEF Submit, TypeOK, answers

LEMMA AutoLoginType ==
    ASSUME TypeOK, AutoLogin
    PROVE  TypeOK'
  <1>1. LinkTypeOK'
    <2>1. CASE user = None
      BY <2>1, SendType, SessionAssumption, LoginIsRequest DEF AutoLogin, TypeOK, Login
    <2>2. CASE user # None
      BY <2>2, LinkUnchanged DEF AutoLogin, TypeOK
    <2> QED BY <2>1, <2>2
  <1> QED BY <1>1 DEF AutoLogin, TypeOK, answers, windows

LEMMA LogoutType ==
    ASSUME TypeOK, Logout
    PROVE  TypeOK'
  <1>1. LinkTypeOK'
    BY LinkUnchanged DEF Logout, TypeOK
  <1> QED BY <1>1 DEF Logout, ShowLogin, TypeOK, answers

LEMMA CommandType ==
    ASSUME TypeOK, Command
    PROVE  TypeOK'
  <1>1. LinkTypeOK'
    BY SendType, SessionAssumption, DataIsRequest DEF Command, TypeOK
  <1>2. lost' \in BOOLEAN
    BY DEF Command, Losing
  <1> QED BY <1>1, <1>2, SessionAssumption DEF Command, TypeOK, answers, login, windows

LEMMA ConnectedType ==
    ASSUME TypeOK, Connected
    PROVE  TypeOK'
  <1> DEFINE greeting == IF user # None /\ session # None THEN <<Login(session)>> ELSE <<>>
  <1>1. greeting \in Seq(Frames)
    <2>1. session # None => Login(session) \in Frames
      BY LoginIsRequest DEF TypeOK, Login
    <2> QED BY <2>1
  <1>2. Connect(greeting)
    BY DEF Connected
  <1> HIDE DEF greeting
  <1>3. LinkTypeOK'
    BY <1>1, <1>2, ConnectType, SessionAssumption DEF TypeOK
  <1> QED BY <1>3 DEF Connected, TypeOK, answers, login, windows, history

LEMMA DisconnectedType ==
    ASSUME TypeOK, Disconnected
    PROVE  TypeOK'
  <1>1. LinkTypeOK'
    BY LoseType DEF Disconnected, TypeOK
  <1>2. lost' \in BOOLEAN
    BY DEF Disconnected, Losing
  <1> QED BY <1>1, <1>2 DEF Disconnected, TypeOK, login, windows

LEMMA ServerAnswersType ==
    ASSUME TypeOK, ServerAnswers
    PROVE  TypeOK'
  <1>1. LinkTypeOK' /\ Head(wire) \in Request
    BY TakeType, SessionAssumption DEF ServerAnswers, TypeOK
  <1>2. PICK kind \in Kinds(Head(wire)) :
            inflight' = Append(inflight, [kind |-> kind, to |-> Head(wire).by])
    BY DEF ServerAnswers
  <1>3. [kind |-> kind, to |-> Head(wire).by] \in Answer
    <2>1. CASE Head(wire) = Data
      BY <2>1 DEF Data, Kinds, Answer
    <2>2. CASE Head(wire) \in [cmd : {"login", "register"}, by : Credentials]
      BY <2>2 DEF Kinds, Answer
    <2> QED BY <1>1, <2>1, <2>2 DEF Request
  <1> QED BY <1>1, <1>2, <1>3 DEF ServerAnswers, TypeOK, login, windows, history

LEMMA ArriveType ==
    ASSUME TypeOK, NEW n \in 1 .. Len(inflight), Arrive(n)
    PROVE  TypeOK'
  <1>1. LinkTypeOK'
    BY LinkUnchanged DEF Arrive, TypeOK
  <1>2. /\ SubSeq(inflight, 1, n) \in Seq(Answer)
        /\ SubSeq(inflight, n + 1, Len(inflight)) \in Seq(Answer)
    BY SubSeqProperties DEF TypeOK
  <1>3. unread \o SubSeq(inflight, 1, n) \in Seq(Answer) /\ <<>> \in Seq(Answer)
    BY <1>2, ConcatProperties DEF TypeOK
  <1>4. AnswersOK'
    BY <1>2, <1>3 DEF Arrive, AnswersOK, TypeOK
  <1> QED BY <1>1, <1>4 DEF Arrive, AnswersOK, TypeOK, login, windows, history

\* Only answers to logins and registrations carry a user.
LEMMA UserAnswerType ==
    ASSUME TypeOK, held # <<>>
    PROVE  /\ Head(held) \in Answer
           /\ Tail(held) \in Seq(Answer)
           /\ Head(held).kind = "user" => Head(held).to \in Credentials
           /\ Head(held).kind \in {"data", "version"} => Head(held).to = None
           /\ Head(held).to \in Credentials \cup {None}
           /\ Head(held).kind \in {"user", "error", "msg", "data", "version"}
  <1>1. Head(held) \in Answer /\ Tail(held) \in Seq(Answer)
    BY DEF TypeOK
  <1> QED BY <1>1 DEF Answer

LEMMA OnServerMessageType ==
    ASSUME TypeOK, OnServerMessage
    PROVE  TypeOK'
  <1> DEFINE a == Head(held)
  <1>1. /\ a.kind \in {"user", "error", "msg", "data", "version"} /\ Tail(held) \in Seq(Answer)
        /\ a.to \in Credentials \cup {None}
        /\ a.kind = "user" => a.to \in Credentials
    BY UserAnswerType DEF OnServerMessage
  <1>2. AnswersOK' /\ UNCHANGED <<auto, issued, loggedOut>>
    BY <1>1 DEF OnServerMessage, AnswersOK, TypeOK
  <1>3. CASE a.kind = "error"
    <2>1. OnError
      BY <1>3 DEF OnServerMessage
    <2>2. LinkTypeOK'
      BY <2>1, LinkUnchanged DEF OnError, TypeOK
    <2> QED BY <1>2, <2>1, <2>2 DEF OnError, TypeOK, AnswersOK, login
  <1>4. CASE a.kind = "user"
    <2>1. OnUser
      BY <1>4 DEF OnServerMessage
    <2>2. LinkTypeOK'
      BY <2>1, SendType, SessionAssumption, DataIsRequest DEF OnUser, TypeOK
    <2>3. a.to.user \in Users /\ a.to \in Credentials
      BY <1>1, <1>4, SessionAssumption
    <2>4. stored' \in Credentials \cup {None} /\ saved' \in BOOLEAN
      BY <2>1 DEF OnUser, Save, TypeOK
    <2>5. lost' \in BOOLEAN
      BY <2>1 DEF OnUser
    <2> QED BY <1>2, <2>1, <2>2, <2>3, <2>4, <2>5 DEF OnUser, TypeOK, AnswersOK
  <1>5. CASE a.kind = "msg"
    <2>1. OnMsg
      BY <1>5 DEF OnServerMessage
    <2>2. LinkTypeOK'
      BY <2>1, LinkUnchanged DEF OnMsg, TypeOK
    <2> QED BY <1>2, <2>1, <2>2 DEF OnMsg, TypeOK, AnswersOK, login
  <1>6. CASE a.kind = "data"
    <2>1. OnData
      BY <1>6 DEF OnServerMessage
    <2>2. LinkTypeOK'
      BY <2>1, LinkUnchanged DEF OnData, TypeOK
    <2> QED BY <1>2, <2>1, <2>2 DEF OnData, TypeOK, AnswersOK, login, windows
  <1>7. CASE a.kind = "version"
    <2>1. OnVersion
      BY <1>7 DEF OnServerMessage
    <2>2. LinkTypeOK'
      BY <2>1, LinkUnchanged DEF OnVersion, TypeOK
    <2> QED BY <1>2, <2>1, <2>2 DEF OnVersion, TypeOK, AnswersOK, login, windows
  <1> QED BY <1>1, <1>3, <1>4, <1>5, <1>6, <1>7

LEMMA WindowType ==
    ASSUME TypeOK, CloseBox \/ ShowWindow \/ CloseWindow \/ CloseDialog
    PROVE  TypeOK'
  <1>1. LinkTypeOK'
    BY LinkUnchanged DEF CloseBox, ShowWindow, CloseWindow, CloseDialog, TypeOK
  <1> QED BY <1>1 DEF CloseBox, ShowWindow, CloseWindow, CloseDialog, TypeOK, answers, login,
                      windows, history

LEMMA RestartType ==
    ASSUME TypeOK, Restart
    PROVE  TypeOK'
  <1>1. <<>> \in Seq(Frames) /\ <<>> \in Seq(Answer) /\ Len(<<>>) <= MaxPending
    BY SessionAssumption
  <1>2. LinkTypeOK' /\ AnswersOK'
    BY <1>1 DEF Restart, LinkTypeOK, AnswersOK
  <1>3. auto' \in Credentials \cup {None} /\ stored' \in Credentials \cup {None}
    BY DEF Restart, TypeOK, Loaded
  <1>4. remember' \in BOOLEAN
    BY DEF Restart
  <1>5. issued' \in 0 .. MaxIssued
    BY SessionAssumption DEF Restart
  <1> QED BY <1>2, <1>3, <1>4, <1>5 DEF Restart, TypeOK, AnswersOK

LEMMA StutterType ==
    ASSUME TypeOK, UNCHANGED vars
    PROVE  TypeOK'
  <1>1. LinkTypeOK'
    BY LinkUnchanged DEF TypeOK, vars
  <1> QED BY <1>1 DEF TypeOK, vars, answers, login, windows, history

LEMMA NextType ==
    ASSUME TypeOK, [Next]_vars
    PROVE  TypeOK'
  BY SubmitType, AutoLoginType, LogoutType, CommandType, ConnectedType, DisconnectedType,
     ServerAnswersType, ArriveType, OnServerMessageType, WindowType, RestartType, StutterType
  DEF Next

\* The session's variables keep their types, whatever is lost and however answers,
\* boxes and windows interleave.
THEOREM TypeCorrect == Spec => []TypeOK
  BY InitType, NextType, PTL DEF Spec

-----------------------------------------------------------------------------
(* What an accepted login leaves, and what a logout takes away.                 *)

LoginInv ==
    /\ user # None => ~dialog /\ ~busy
    /\ accepted # None => user = accepted.user /\ user # None
    /\ accepted # None /\ saved => stored = IF remember THEN session ELSE None
    /\ loggedOut => session = None /\ stored = None

LEMMA SaveKeeps ==
    ASSUME Save(session), UNCHANGED <<session, remember>>
    PROVE  /\ saved' => stored' = IF remember' THEN session' ELSE None
           /\ session = None => stored' = None
  BY DEF Save

LEMMA OnServerMessageLogin ==
    ASSUME TypeOK, LoginInv, OnServerMessage
    PROVE  LoginInv'
  <1> DEFINE a == Head(held)
  <1>1. /\ a.kind \in {"user", "error", "msg", "data", "version"}
        /\ a.kind = "user" => a.to \in Credentials
        /\ UNCHANGED loggedOut
    BY UserAnswerType DEF OnServerMessage
  <1>2. CASE a.kind = "error"
    <2>1. OnError
      BY <1>2 DEF OnServerMessage
    <2> QED BY <1>1, <2>1 DEF OnError, LoginInv, login
  <1>3. CASE a.kind = "user"
    <2>1. OnUser
      BY <1>3 DEF OnServerMessage
    <2>2. a.to.user \in Users /\ a.to.user # None
      BY <1>1, <1>3, SessionAssumption
    <2>3. /\ saved' => stored' = IF remember' THEN session' ELSE None
          /\ session = None => stored' = None
      BY <2>1, SaveKeeps DEF OnUser
    <2>4. user' # None => ~dialog' /\ ~busy'
      BY <2>1 DEF OnUser
    <2>5. accepted' # None => user' = accepted'.user /\ user' # None
      BY <2>1, <2>2 DEF OnUser
    <2>6. loggedOut' => session' = None /\ stored' = None
      BY <1>1, <2>1, <2>3 DEF OnUser, LoginInv
    <2> QED BY <2>3, <2>4, <2>5, <2>6 DEF LoginInv
  <1>4. CASE a.kind = "msg"
    <2>1. OnMsg
      BY <1>4 DEF OnServerMessage
    <2> QED BY <1>1, <2>1 DEF OnMsg, LoginInv, login
  <1>5. CASE a.kind = "data"
    <2>1. OnData
      BY <1>5 DEF OnServerMessage
    <2> QED BY <1>1, <2>1 DEF OnData, LoginInv, login, windows
  <1>6. CASE a.kind = "version"
    <2>1. OnVersion
      BY <1>6 DEF OnServerMessage
    <2> QED BY <1>1, <2>1 DEF OnVersion, LoginInv, login, windows
  <1> QED BY <1>1, <1>2, <1>3, <1>4, <1>5, <1>6

LEMMA NextLogin ==
    ASSUME TypeOK, LoginInv, [Next]_vars
    PROVE  LoginInv'
  <1> USE DEF LoginInv
  <1>1. ASSUME NEW cmd \in {"login", "register"}, NEW c \in Credentials, NEW keep \in BOOLEAN,
               Submit(cmd, c, keep)
        PROVE  LoginInv'
    BY <1>1 DEF Submit
  <1>2. CASE AutoLogin
    BY <1>2 DEF AutoLogin, windows
  <1>3. CASE Logout
    BY <1>3 DEF Logout
  <1>4. CASE Command
    BY <1>4 DEF Command, login, windows
  <1>5. CASE Connected
    BY <1>5 DEF Connected, login, windows, history
  <1>6. CASE Disconnected
    BY <1>6 DEF Disconnected, login, windows
  <1>7. CASE ServerAnswers
    BY <1>7 DEF ServerAnswers, login, windows, history
  <1>8. ASSUME NEW n \in 1 .. Len(inflight), Arrive(n) PROVE LoginInv'
    BY <1>8 DEF Arrive, login, windows, history
  <1>9. CASE OnServerMessage
    BY <1>9, OnServerMessageLogin
  <1>10. CASE CloseBox \/ ShowWindow \/ CloseWindow \/ CloseDialog
    BY <1>10 DEF CloseBox, ShowWindow, CloseWindow, CloseDialog, login, windows, history
  <1>11. CASE Restart
    BY <1>11 DEF Restart
  <1>12. CASE UNCHANGED vars
    BY <1>12 DEF vars, login, windows, history
  <1> QED BY <1>1, <1>2, <1>3, <1>4, <1>5, <1>6, <1>7, <1>8, <1>9, <1>10, <1>11, <1>12 DEF Next

LEMMA LoginInvariant == Spec => [](TypeOK /\ LoginInv)
  <1>1. Init => LoginInv
    BY DEF Init, LoginInv
  <1> QED BY <1>1, InitType, NextType, NextLogin, PTL DEF Spec

\* An accepted login of the session is the one that is in force and, where asked for
\* and possible, stored, however many logins overlapped.
THEOREM AcceptedStays == Spec => []AcceptedIsKept
  <1>1. TypeOK /\ LoginInv => AcceptedIsKept
    BY SessionAssumption DEF LoginInv, AcceptedIsKept
  <1> QED BY <1>1, LoginInvariant, PTL

\* No answer that comes after a logout stores credentials.
THEOREM NothingKeptAfterLogout == Spec => []LogoutForgets
  <1>1. LoginInv => LogoutForgets
    BY DEF LoginInv, LogoutForgets
  <1> QED BY <1>1, LoginInvariant, PTL

-----------------------------------------------------------------------------
(* Why the dialog is busy.                                                      *)

LEMMA AskedLast ==
    ASSUME LinkTypeOK, NEW f \in Frames, f.by # None, Send(f)
    PROVE  Asks(pending') \/ Asks(wire')
  <1>1. ASSUME NEW s \in Seq(Frames) PROVE Asks(Append(s, f))
    <2>1. /\ Len(s) + 1 \in DOMAIN Append(s, f)
          /\ Append(s, f)[Len(s) + 1] = f
      BY <1>1, AppendProperties
    <2> QED BY <2>1 DEF Asks
  <1>2. CASE online
    BY <1>1, <1>2 DEF Send, LinkTypeOK
  <1>3. CASE ~online
    <2> DEFINE kept == IF Len(pending) >= MaxPending THEN Tail(pending) ELSE pending
    <2>1. kept \in Seq(Frames)
      BY SessionAssumption DEF LinkTypeOK
    <2>2. pending' = Append(kept, f)
      BY <1>3 DEF Send
    <2> HIDE DEF kept
    <2> QED BY <1>1, <2>1, <2>2
  <1> QED BY <1>2, <1>3 DEF LinkTypeOK

LEMMA RepliesAppend ==
    ASSUME NEW s \in Seq(Answer), NEW a \in Answer
    PROVE  /\ Replies(s) => Replies(Append(s, a))
           /\ a.to # None => Replies(Append(s, a))
  <1>1. /\ DOMAIN Append(s, a) = 1 .. Len(s) + 1 /\ DOMAIN s = 1 .. Len(s) /\ Len(s) \in Nat
        /\ \A i \in 1 .. Len(s) : Append(s, a)[i] = s[i]
        /\ Append(s, a)[Len(s) + 1] = a
    BY AppendProperties
  <1> HIDE DEF Answer
  <1> QED BY <1>1 DEF Replies

LEMMA RepliesConcat ==
    ASSUME NEW s \in Seq(Answer), NEW t \in Seq(Answer), Replies(s) \/ Replies(t)
    PROVE  Replies(s \o t)
  <1>1. /\ DOMAIN (s \o t) = 1 .. Len(s) + Len(t) /\ Len(s) \in Nat /\ Len(t) \in Nat
        /\ DOMAIN s = 1 .. Len(s) /\ DOMAIN t = 1 .. Len(t)
    BY ConcatProperties
  <1>2. CASE Replies(s)
    <2>1. PICK i \in DOMAIN s : s[i].to # None
      BY <1>2 DEF Replies
    <2>2. i \in DOMAIN (s \o t) /\ (s \o t)[i] = s[i]
      BY <1>1, <2>1
    <2> QED BY <2>1, <2>2 DEF Replies
  <1>3. CASE Replies(t)
    <2>1. PICK i \in DOMAIN t : t[i].to # None
      BY <1>3 DEF Replies
    <2>2. Len(s) + i \in DOMAIN (s \o t) /\ (s \o t)[Len(s) + i] = t[i]
      BY <1>1, <2>1
    <2> QED BY <2>1, <2>2 DEF Replies
  <1> QED BY <1>2, <1>3

LEMMA RepliesSplit ==
    ASSUME NEW s \in Seq(Answer), NEW n \in 1 .. Len(s), Replies(s)
    PROVE  Replies(SubSeq(s, 1, n)) \/ Replies(SubSeq(s, n + 1, Len(s)))
  <1>1. PICK i \in DOMAIN s : s[i].to # None
    BY DEF Replies
  <1>2. CASE i <= n
    <2>1. i \in DOMAIN SubSeq(s, 1, n) /\ SubSeq(s, 1, n)[i] = s[i]
      BY <1>1, <1>2
    <2> QED BY <1>1, <2>1 DEF Replies
  <1>3. CASE i > n
    <2> DEFINE rest == SubSeq(s, n + 1, Len(s))
    <2>1. i - n \in DOMAIN rest /\ rest[i - n] = s[i]
      BY <1>1, <1>3
    <2> QED BY <1>1, <2>1 DEF Replies
  <1> QED BY <1>1, <1>2, <1>3

LEMMA AsksTail ==
    ASSUME NEW s \in Seq(Frames), s # <<>>, Asks(s)
    PROVE  Head(s).by # None \/ Asks(Tail(s))
  <1>1. PICK i \in DOMAIN s : s[i].by # None
    BY DEF Asks
  <1>2. CASE i = 1
    BY <1>1, <1>2
  <1>3. CASE i # 1
    <2>1. i - 1 \in DOMAIN Tail(s) /\ Tail(s)[i - 1] = s[i]
      BY <1>1, <1>3
    <2> QED BY <1>1, <2>1 DEF Asks
  <1> QED BY <1>2, <1>3

LEMMA RepliesTail ==
    ASSUME NEW s \in Seq(Answer), s # <<>>, Replies(s)
    PROVE  Head(s).to # None \/ Replies(Tail(s))
  <1>1. PICK i \in DOMAIN s : s[i].to # None
    BY DEF Replies
  <1>2. CASE i = 1
    BY <1>1, <1>2
  <1>3. CASE i # 1
    <2>1. i - 1 \in DOMAIN Tail(s) /\ Tail(s)[i - 1] = s[i]
      BY <1>1, <1>3
    <2> QED BY <1>1, <2>1 DEF Replies
  <1> QED BY <1>2, <1>3

LEMMA ConnectedBusy ==
    ASSUME TypeOK, BusyHasCause, Connected
    PROVE  BusyHasCause'
  <1> DEFINE greeting == IF user # None /\ session # None THEN <<Login(session)>> ELSE <<>>
  <1>1. greeting \in Seq(Frames)
    <2>1. session # None => Login(session) \in Frames
      BY LoginIsRequest DEF TypeOK, Login
    <2> QED BY <2>1
  <1>2. wire' = greeting \o pending /\ wire = <<>> /\ pending \in Seq(Frames)
    BY DEF Connected, Connect, TypeOK, LinkTypeOK
  <1> HIDE DEF greeting
  <1>3. Asks(pending) => Asks(wire')
    <2> SUFFICES ASSUME Asks(pending) PROVE Asks(wire')
      OBVIOUS
    <2>1. PICK i \in DOMAIN pending : pending[i].by # None
      BY DEF Asks
    <2>2. Len(greeting) + i \in DOMAIN wire' /\ wire'[Len(greeting) + i] = pending[i]
      BY <1>1, <1>2, <2>1
    <2> QED BY <2>1, <2>2 DEF Asks
  <1>4. ~Asks(wire)
    BY <1>2 DEF Asks
  <1> QED BY <1>3, <1>4 DEF Connected, BusyHasCause, Checking, answers, windows, history

LEMMA ServerAnswersBusy ==
    ASSUME TypeOK, TypeOK', BusyHasCause, ServerAnswers
    PROVE  BusyHasCause'
  <1>1. PICK kind \in Kinds(Head(wire)) :
            inflight' = Append(inflight, [kind |-> kind, to |-> Head(wire).by])
    BY DEF ServerAnswers
  <1> DEFINE a == [kind |-> kind, to |-> Head(wire).by]
  <1>2. a \in Answer
    <2>1. /\ Len(inflight) + 1 \in DOMAIN Append(inflight, a)
          /\ Append(inflight, a)[Len(inflight) + 1] = a
      BY AppendProperties DEF TypeOK
    <2>2. inflight' \in Seq(Answer)
      BY DEF TypeOK
    <2> HIDE DEF a
    <2> QED BY <1>1, <2>1, <2>2, ElementOfSeq DEF a
  <1>3. Asks(wire) => Replies(inflight') \/ Asks(wire')
    <2>1. wire \in Seq(Frames) /\ wire # <<>> /\ wire' = Tail(wire)
      BY DEF ServerAnswers, Take, TypeOK, LinkTypeOK
    <2>2. Head(wire).by # None => Replies(inflight')
      BY <1>1, <1>2, RepliesAppend DEF TypeOK
    <2> QED BY <2>1, <2>2, AsksTail
  <1>4. Replies(inflight) => Replies(inflight')
    BY <1>1, <1>2, RepliesAppend DEF TypeOK
  <1> QED BY <1>3, <1>4 DEF ServerAnswers, Take, BusyHasCause, Checking, windows, history

LEMMA ArriveBusy ==
    ASSUME TypeOK, BusyHasCause, NEW n \in 1 .. Len(inflight), Arrive(n)
    PROVE  BusyHasCause'
  <1> DEFINE first == SubSeq(inflight, 1, n)
             arrived == unread \o first
  <1>1. first \in Seq(Answer) /\ unread \in Seq(Answer) /\ inflight \in Seq(Answer)
    BY SubSeqProperties DEF TypeOK
  <1>2. Replies(unread) \/ Replies(first) => Replies(arrived)
    BY <1>1, RepliesConcat
  <1>3. Replies(inflight) => Replies(arrived) \/ Replies(inflight')
    BY <1>1, <1>2, RepliesSplit DEF Arrive
  <1>4. Replies(arrived) => Replies(unread') \/ Replies(held')
    BY DEF Arrive
  <1>5. Replies(held) => Replies(held')
    BY DEF Arrive, EventLoop, Replies
  <1>6. UNCHANGED <<pending, wire, busy, lost>>
    BY DEF Arrive, link, windows, history
  <1> QED BY <1>2, <1>3, <1>4, <1>5, <1>6 DEF BusyHasCause, Checking

LEMMA OnServerMessageBusy ==
    ASSUME TypeOK, BusyHasCause, OnServerMessage
    PROVE  BusyHasCause'
  <1> DEFINE a == Head(held)
  <1>1. /\ a.kind \in {"user", "error", "msg", "data", "version"}
        /\ a.kind \in {"data", "version"} => a.to = None
        /\ held \in Seq(Answer) /\ held # <<>>
    BY UserAnswerType DEF OnServerMessage, TypeOK
  <1>2. CASE a.kind = "error"
    BY <1>2 DEF OnServerMessage, OnError, BusyHasCause
  <1>3. CASE a.kind = "user"
    BY <1>3 DEF OnServerMessage, OnUser, BusyHasCause
  <1>4. CASE a.kind = "msg"
    BY <1>4 DEF OnServerMessage, OnMsg, BusyHasCause
  <1>5. CASE a.kind \in {"data", "version"}
    <2>1. Replies(held) => Replies(held')
      BY <1>1, <1>5, RepliesTail DEF OnServerMessage
    <2>2. UNCHANGED <<pending, wire, inflight, unread, busy, lost>>
      BY <1>5 DEF OnServerMessage, OnData, OnVersion, link, windows
    <2> QED BY <2>1, <2>2 DEF BusyHasCause, Checking
  <1> QED BY <1>1, <1>2, <1>3, <1>4, <1>5

LEMMA NextBusy ==
    ASSUME TypeOK, TypeOK', BusyHasCause, [Next]_vars
    PROVE  BusyHasCause'
  <1>1. ASSUME NEW cmd \in {"login", "register"}, NEW c \in Credentials, NEW keep \in BOOLEAN,
               Submit(cmd, c, keep)
        PROVE  BusyHasCause'
    BY <1>1, AskedLast, LoginIsRequest, SessionAssumption DEF Submit, TypeOK, BusyHasCause, Checking
  <1>2. CASE AutoLogin
    <2>1. CASE user = None
      BY <1>2, <2>1, AskedLast, LoginIsRequest, SessionAssumption
      DEF AutoLogin, Login, TypeOK, BusyHasCause, Checking
    <2>2. CASE user # None
      BY <1>2, <2>2 DEF AutoLogin, BusyHasCause, Checking, Asks, Replies, link, answers, windows
    <2> QED BY <2>1, <2>2
  <1>3. CASE Logout
    BY <1>3 DEF Logout, ShowLogin, BusyHasCause
  <1>4. CASE Command
    BY <1>4 DEF Command, Losing, BusyHasCause, windows
  <1>5. CASE Connected
    BY <1>5, ConnectedBusy
  <1>6. CASE Disconnected
    BY <1>6 DEF Disconnected, Losing, BusyHasCause, windows
  <1>7. CASE ServerAnswers
    BY <1>7, ServerAnswersBusy
  <1>8. ASSUME NEW n \in 1 .. Len(inflight), Arrive(n) PROVE BusyHasCause'
    BY <1>8, ArriveBusy
  <1>9. CASE OnServerMessage
    BY <1>9, OnServerMessageBusy
  <1>10. CASE CloseBox \/ ShowWindow \/ CloseWindow \/ CloseDialog
    BY <1>10 DEF CloseBox, ShowWindow, CloseWindow, CloseDialog, BusyHasCause, Checking, Asks,
                 Replies, link, answers, windows, history
  <1>11. CASE Restart
    BY <1>11 DEF Restart, BusyHasCause
  <1>12. CASE UNCHANGED vars
    BY <1>12 DEF vars, BusyHasCause, Checking, Asks, Replies, link, answers, windows, history
  <1> QED BY <1>1, <1>2, <1>3, <1>4, <1>5, <1>6, <1>7, <1>8, <1>9, <1>10, <1>11, <1>12 DEF Next

\* While the dialog is busy its answer is on the way, or was lost, for any number of
\* requests and answers and however boxes hold them back.
THEOREM BusyIsExplained == Spec => []BusyHasCause
  <1>1. Init => BusyHasCause
    BY DEF Init, BusyHasCause
  <1> QED BY <1>1, InitType, NextType, NextBusy, PTL DEF Spec
=============================================================================
