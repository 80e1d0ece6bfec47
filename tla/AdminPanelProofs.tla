-------------------------- MODULE AdminPanelProofs --------------------------
(* Types, the deletion that was asked about, and that list and store come up to *)
(* date, for any games, contents, icons, bounds and losses.                     *)
EXTENDS AdminPanel, ConnectionProofs

-----------------------------------------------------------------------------
(* Frames and answers in order.                                                 *)

In(q, cmd) == \E j \in DOMAIN q : q[j].cmd = cmd

\* Every one of the changes is followed by a cmd.
Ordered(q, changes, cmd) ==
    \A i \in DOMAIN q : q[i].cmd \in changes => \E j \in DOMAIN q : j > i /\ q[j].cmd = cmd

\* When the answers in q have been handled, what was shown is one of good.
Ends(q, kind, shown, good) ==
    /\ \A i \in DOMAIN q :
          q[i].kind = kind /\ (\A j \in DOMAIN q : q[j].kind = kind => j <= i) => q[i].games \in good
    /\ (\A i \in DOMAIN q : q[i].kind # kind) => shown \in good

LEMMA Joined ==
    ASSUME NEW S, NEW s \in Seq(S), NEW t \in Seq(S)
    PROVE  /\ s \o t \in Seq(S)
           /\ \A i \in DOMAIN (s \o t) :
                 \/ i \in DOMAIN s /\ (s \o t)[i] = s[i]
                 \/ i - Len(s) \in DOMAIN t /\ (s \o t)[i] = t[i - Len(s)]
           /\ \A i \in DOMAIN s : i \in DOMAIN (s \o t) /\ (s \o t)[i] = s[i]
           /\ \A i \in DOMAIN t : Len(s) + i \in DOMAIN (s \o t) /\ (s \o t)[Len(s) + i] = t[i]
           /\ DOMAIN s = 1 .. Len(s) /\ DOMAIN t = 1 .. Len(t)
  OBVIOUS

LEMMA Cut ==
    ASSUME NEW S, NEW s \in Seq(S), s # <<>>
    PROVE  /\ Tail(s) \in Seq(S) /\ Head(s) = s[1] /\ Head(s) \in S
           /\ \A i \in DOMAIN Tail(s) : i + 1 \in DOMAIN s /\ Tail(s)[i] = s[i + 1]
           /\ \A i \in DOMAIN s : i > 1 => i - 1 \in DOMAIN Tail(s) /\ Tail(s)[i - 1] = s[i]
           /\ DOMAIN s \subseteq Nat \ {0} /\ DOMAIN Tail(s) \subseteq Nat \ {0} /\ 1 \in DOMAIN s
  OBVIOUS

\* Frames that are in order are so with frames behind them that are.
LEMMA OrderedConcat ==
    ASSUME NEW S, NEW s \in Seq(S), NEW t \in Seq(S), NEW C, NEW cmd,
           Ordered(s, C, cmd), Ordered(t, C, cmd)
    PROVE  Ordered(s \o t, C, cmd)
  <1> SUFFICES ASSUME NEW i \in DOMAIN (s \o t), (s \o t)[i].cmd \in C
               PROVE  \E j \in DOMAIN (s \o t) : j > i /\ (s \o t)[j].cmd = cmd
    BY DEF Ordered
  <1>1. CASE i \in DOMAIN s /\ (s \o t)[i] = s[i]
    <2>1. PICK j \in DOMAIN s : j > i /\ s[j].cmd = cmd
      BY <1>1 DEF Ordered
    <2> QED BY <2>1, Joined
  <1>2. CASE i - Len(s) \in DOMAIN t /\ (s \o t)[i] = t[i - Len(s)]
    <2>1. PICK j \in DOMAIN t : j > i - Len(s) /\ t[j].cmd = cmd
      BY <1>2 DEF Ordered
    <2>2. Len(s) + j \in DOMAIN (s \o t) /\ (s \o t)[Len(s) + j].cmd = cmd
      BY <2>1, Joined
    <2>3. i \in Nat /\ j \in Nat /\ Len(s) \in Nat
      BY DOMAIN (s \o t) = 1 .. Len(s \o t), DOMAIN t = 1 .. Len(t), Joined
    <2> QED BY <2>1, <2>2, <2>3
  <1> QED BY <1>1, <1>2, Joined

\* A cmd in what comes behind orders what is before it.
LEMMA OrderedBefore ==
    ASSUME NEW S, NEW s \in Seq(S), NEW t \in Seq(S), NEW C, NEW cmd,
           Ordered(t, C, cmd), In(t, cmd)
    PROVE  Ordered(s \o t, C, cmd)
  <1>1. PICK k \in DOMAIN t : t[k].cmd = cmd
    BY DEF In
  <1>2. Len(s) + k \in DOMAIN (s \o t) /\ (s \o t)[Len(s) + k].cmd = cmd
    BY <1>1, Joined
  <1>3. k \in Nat \ {0} /\ Len(s) \in Nat /\ \A i \in DOMAIN s : i <= Len(s) /\ i \in Nat
    BY Joined
  <1> SUFFICES ASSUME NEW i \in DOMAIN (s \o t), (s \o t)[i].cmd \in C
               PROVE  \E j \in DOMAIN (s \o t) : j > i /\ (s \o t)[j].cmd = cmd
    BY DEF Ordered
  <1>5. CASE i \in DOMAIN s
    <2>1. Len(s) + k > i
      BY <1>3, <1>5
    <2> QED BY <1>2, <2>1
  <1>6. CASE i - Len(s) \in DOMAIN t /\ (s \o t)[i] = t[i - Len(s)]
    <2>1. PICK j \in DOMAIN t : j > i - Len(s) /\ t[j].cmd = cmd
      BY <1>6 DEF Ordered
    <2>2. Len(s) + j \in DOMAIN (s \o t) /\ (s \o t)[Len(s) + j].cmd = cmd
      BY <2>1, Joined
    <2>3. i \in Nat /\ j \in Nat
      BY DOMAIN (s \o t) = 1 .. Len(s \o t), DOMAIN t = 1 .. Len(t), Joined
    <2> QED BY <2>1, <2>2, <2>3, <1>3
  <1> QED BY <1>5, <1>6, Joined

\* A cmd at the end orders everything before it.
LEMMA OrderedByLast ==
    ASSUME NEW S, NEW s \in Seq(S), s # <<>>, NEW C, NEW cmd,
           s[Len(s)].cmd = cmd, cmd \notin C
    PROVE  Ordered(s, C, cmd) /\ In(s, cmd)
  <1>1. DOMAIN s = 1 .. Len(s) /\ Len(s) \in DOMAIN s /\ Len(s) \in Nat
    OBVIOUS
  <1>2. ASSUME NEW i \in DOMAIN s, s[i].cmd \in C
        PROVE  Len(s) > i
    BY <1>1, <1>2
  <1> QED BY <1>1, <1>2 DEF Ordered, In

\* What is left when the first frame has been taken.
LEMMA OrderedTail ==
    ASSUME NEW S, NEW s \in Seq(S), s # <<>>, NEW C, NEW cmd, Ordered(s, C, cmd)
    PROVE  /\ Ordered(Tail(s), C, cmd)
           /\ Head(s).cmd \in C => In(Tail(s), cmd)
  <1>1. ASSUME NEW i \in DOMAIN Tail(s), Tail(s)[i].cmd \in C
        PROVE  \E j \in DOMAIN Tail(s) : j > i /\ Tail(s)[j].cmd = cmd
    <2>1. PICK j \in DOMAIN s : j > i + 1 /\ s[j].cmd = cmd
      BY <1>1, Cut DEF Ordered
    <2>2. j - 1 \in DOMAIN Tail(s) /\ Tail(s)[j - 1] = s[j] /\ j - 1 > i
      BY <2>1, Cut
    <2> QED BY <2>1, <2>2
  <1>2. ASSUME Head(s).cmd \in C PROVE In(Tail(s), cmd)
    <2>1. PICK j \in DOMAIN s : j > 1 /\ s[j].cmd = cmd
      BY <1>2, Cut DEF Ordered
    <2> QED BY <2>1, Cut DEF In
  <1> QED BY <1>1, <1>2 DEF Ordered

LEMMA InTail ==
    ASSUME NEW S, NEW s \in Seq(S), s # <<>>, NEW cmd, In(s, cmd), Head(s).cmd # cmd
    PROVE  In(Tail(s), cmd)
  <1>1. PICK j \in DOMAIN s : s[j].cmd = cmd
    BY DEF In
  <1>2. j > 1
    BY <1>1, Cut
  <1> QED BY <1>1, <1>2, Cut DEF In

LEMMA InConcat ==
    ASSUME NEW S, NEW s \in Seq(S), NEW t \in Seq(S), NEW cmd, In(s, cmd) \/ In(t, cmd)
    PROVE  In(s \o t, cmd)
  <1>1. CASE In(s, cmd)
    <2>1. PICK j \in DOMAIN s : s[j].cmd = cmd
      BY <1>1 DEF In
    <2>2. j \in DOMAIN (s \o t) /\ (s \o t)[j].cmd = cmd
      BY <2>1, Joined
    <2> QED BY <2>2 DEF In
  <1>2. CASE In(t, cmd)
    <2>1. PICK j \in DOMAIN t : t[j].cmd = cmd
      BY <1>2 DEF In
    <2>2. Len(s) + j \in DOMAIN (s \o t) /\ (s \o t)[Len(s) + j].cmd = cmd
      BY <2>1, Joined
    <2> QED BY <2>2 DEF In
  <1> QED BY <1>1, <1>2

LEMMA EndsAppend ==
    ASSUME NEW S, NEW q \in Seq(S), NEW a \in S, NEW kind, NEW shown, NEW good,
           IF a.kind = kind THEN a.games \in good ELSE Ends(q, kind, shown, good)
    PROVE  Ends(Append(q, a), kind, shown, good)
  <1>1. /\ \A i \in DOMAIN q : i \in DOMAIN Append(q, a) /\ Append(q, a)[i] = q[i]
        /\ Len(q) + 1 \in DOMAIN Append(q, a) /\ Append(q, a)[Len(q) + 1] = a
        /\ \A i \in DOMAIN Append(q, a) : i \in DOMAIN q \/ i = Len(q) + 1
        /\ \A i \in DOMAIN q : i <= Len(q) /\ i \in Nat
        /\ Len(q) \in Nat
    OBVIOUS
  <1>2. CASE a.kind = kind
    <2>1. ASSUME NEW i \in DOMAIN Append(q, a), Append(q, a)[i].kind = kind,
                 \A j \in DOMAIN Append(q, a) : Append(q, a)[j].kind = kind => j <= i
          PROVE  Append(q, a)[i].games \in good
      <3>1. i = Len(q) + 1
        BY <1>1, <1>2, <2>1
      <3> QED BY <3>1, <1>1, <1>2
    <2>2. ~ \A i \in DOMAIN Append(q, a) : Append(q, a)[i].kind # kind
      BY <1>1, <1>2
    <2> QED BY <2>1, <2>2 DEF Ends
  <1>3. CASE a.kind # kind
    <2>1. ASSUME NEW i \in DOMAIN Append(q, a), Append(q, a)[i].kind = kind,
                 \A j \in DOMAIN Append(q, a) : Append(q, a)[j].kind = kind => j <= i
          PROVE  Append(q, a)[i].games \in good
      <3>1. i \in DOMAIN q /\ \A j \in DOMAIN q : q[j].kind = kind => j <= i
        BY <1>1, <1>3, <2>1
      <3> QED BY <3>1, <1>1, <1>3, <2>1 DEF Ends
    <2>2. ASSUME \A i \in DOMAIN Append(q, a) : Append(q, a)[i].kind # kind
          PROVE  shown \in good
      BY <1>1, <1>3, <2>2 DEF Ends
    <2> QED BY <2>1, <2>2 DEF Ends
  <1> QED BY <1>2, <1>3

\* An answer of the kind replaces what is shown, the others do not.
LEMMA EndsTail ==
    ASSUME NEW S, NEW q \in Seq(S), q # <<>>, NEW kind, NEW shown, NEW good,
           Ends(q, kind, shown, good)
    PROVE  Ends(Tail(q), kind, IF Head(q).kind = kind THEN Head(q).games ELSE shown, good)
  <1>1. ASSUME NEW i \in DOMAIN Tail(q), Tail(q)[i].kind = kind,
               \A j \in DOMAIN Tail(q) : Tail(q)[j].kind = kind => j <= i
        PROVE  Tail(q)[i].games \in good
    <2>1. i + 1 \in DOMAIN q /\ Tail(q)[i] = q[i + 1] /\ i \in Nat
      BY Cut
    <2>2. ASSUME NEW j \in DOMAIN q, q[j].kind = kind PROVE j <= i + 1
      <3>1. CASE j = 1
        BY <3>1, <2>1
      <3>2. CASE j > 1
        <4>1. j - 1 \in DOMAIN Tail(q) /\ Tail(q)[j - 1] = q[j]
          BY <3>2, Cut
        <4>2. j - 1 <= i
          BY <4>1, <2>2, <1>1
        <4>3. j \in Nat
          BY Cut
        <4> QED BY <4>2, <4>3, <2>1
      <3> QED BY <3>1, <3>2, Cut
    <2> QED BY <1>1, <2>1, <2>2 DEF Ends
  <1>2. ASSUME \A i \in DOMAIN Tail(q) : Tail(q)[i].kind # kind
        PROVE  (IF Head(q).kind = kind THEN Head(q).games ELSE shown) \in good
    <2>1. ASSUME NEW j \in DOMAIN q, q[j].kind = kind PROVE j = 1
      <3>1. CASE j > 1
        <4>1. j - 1 \in DOMAIN Tail(q) /\ Tail(q)[j - 1] = q[j]
          BY <3>1, Cut
        <4> QED BY <4>1, <1>2, <2>1
      <3>2. j \in Nat \ {0}
        BY Cut
      <3> QED BY <3>1, <3>2
    <2>2. CASE Head(q).kind = kind
      <3>1. 1 \in DOMAIN q /\ q[1] = Head(q)
        BY Cut
      <3>2. \A j \in DOMAIN q : q[j].kind = kind => j <= 1
        BY <2>1
      <3> QED BY <2>2, <3>1, <3>2 DEF Ends
    <2>3. CASE Head(q).kind # kind
      <3>1. \A j \in DOMAIN q : q[j].kind # kind
        BY <2>1, <2>3, Cut
      <3> QED BY <2>3, <3>1 DEF Ends
    <2> QED BY <2>2, <2>3
  <1> QED BY <1>1, <1>2 DEF Ends

-----------------------------------------------------------------------------
(* Types.                                                                       *)

\* A timer was started by one of the publications and deletions counted.
TypeInv == TypeOK /\ \A t \in {"publish", "delete"} : timers[t] <= issued

LEMMA IntoCatalogue ==
    ASSUME NEW S \in SUBSET Games, NEW f \in [S -> Game]
    PROVE  f \in Catalogue
  BY DEF Catalogue

LEMMA OfCatalogue ==
    ASSUME NEW f \in Catalogue
    PROVE  DOMAIN f \in SUBSET Games /\ f \in [DOMAIN f -> Game]
  BY DEF Catalogue

LEMMA Requests ==
    /\ \A cmd \in {"login", "get_games", "get_dev_games", "delete_game"} : Plain(cmd) \in Frames
    /\ \A g \in Games \cup {None} : [Plain("delete_game") EXCEPT !.game = g] \in Frames
    /\ TypeOK => \A c \in Contents : Publication(c) \in Frames
  BY FramesAssumption DEF Command, Request, PublishRequest, Plain, Publication, TypeOK

LEMMA LatestType ==
    ASSUME NEW frames \in Seq(Frames)
    PROVE  Latest(frames) \in Seq(Frames) /\ Len(Latest(frames)) <= MaxPending
  <1>1. Len(frames) \in Nat /\ MaxPending \in Nat \ {0}
    BY AdminAssumption
  <1>2. CASE Len(frames) > MaxPending
    <2>1. Len(frames) - MaxPending + 1 \in 1 .. Len(frames) + 1
      BY <1>1, <1>2
    <2>2. /\ SubSeq(frames, Len(frames) - MaxPending + 1, Len(frames)) \in Seq(Frames)
          /\ Len(SubSeq(frames, Len(frames) - MaxPending + 1, Len(frames))) = MaxPending
      BY <1>1, <1>2, <2>1
    <2> QED BY <1>1, <1>2, <2>2 DEF Latest
  <1>3. CASE ~(Len(frames) > MaxPending)
    BY <1>1, <1>3 DEF Latest
  <1> QED BY <1>2, <1>3

LEMMA SendAllType ==
    ASSUME LinkTypeOK, NEW frames \in Seq(Frames), SendAll(frames)
    PROVE  LinkTypeOK'
  <1>1. CASE online
    <2>1. wire \o frames \in Seq(Frames)
      BY ConcatProperties DEF LinkTypeOK
    <2> QED BY <1>1, <2>1 DEF SendAll, LinkTypeOK
  <1>2. CASE ~online
    <2>1. pending \o frames \in Seq(Frames)
      BY ConcatProperties DEF LinkTypeOK
    <2>2. pending' \in Seq(Frames) /\ Len(pending') <= MaxPending
      BY <1>2, <2>1, LatestType DEF SendAll
    <2> QED BY <1>2, <2>2 DEF SendAll, LinkTypeOK
  <1> QED BY <1>1, <1>2 DEF LinkTypeOK

LEMMA SendCommandsType ==
    ASSUME LinkTypeOK, NEW frames \in Seq(Frames), SendCommands(frames)
    PROVE  LinkTypeOK' /\ lost' \in BOOLEAN
  <1>1. LinkTypeOK'
    BY SendAllType DEF SendCommands
  <1>2. lost' \in BOOLEAN
    BY DEF SendCommands
  <1> QED BY <1>1, <1>2

LEMMA InitType == Init => TypeInv
  <1> SUFFICES ASSUME Init PROVE TypeInv
    OBVIOUS
  <1>1. LinkTypeOK
    BY LinkInitType, AdminAssumption DEF Init
  <1>2. catalogue \in Catalogue
    <2>1. PICK S \in SUBSET Games, c \in Contents : catalogue = [g \in S |-> [content |-> c, icon |-> None]]
      BY DEF Init
    <2>2. catalogue \in [S -> Game]
      BY <2>1 DEF Game
    <2> QED BY <2>2, IntoCatalogue
  <1>3. list \in Catalogue
    <2>1. list \in [{} -> Game]
      BY DEF Init
    <2> QED BY <2>1, IntoCatalogue
  <1>4. /\ issued \in 0 .. MaxIssued /\ timers \in [{"publish", "delete"} -> 0 .. MaxIssued]
        /\ \A t \in {"publish", "delete"} : timers[t] <= issued
    BY AdminAssumption DEF Init
  <1>5. inflight \in Seq(Answer) /\ store \in Catalogue
    BY <1>2 DEF Init
  <1> QED BY <1>1, <1>2, <1>3, <1>4, <1>5 DEF Init, TypeInv, TypeOK

LEMMA IssueType ==
    ASSUME TypeInv, Issue, NEW t \in {"publish", "delete"},
           timers' = timers \/ timers' = [timers EXCEPT ![t] = @ + 1]
    PROVE  /\ issued' \in 0 .. MaxIssued /\ timers' \in [{"publish", "delete"} -> 0 .. MaxIssued]
           /\ \A u \in {"publish", "delete"} : timers'[u] <= issued'
  <1>1. issued \in Nat /\ issued + 1 <= MaxIssued /\ issued' = issued + 1 /\ MaxIssued \in Nat
    BY AdminAssumption DEF TypeInv, TypeOK, Issue
  <1>2. timers \in [{"publish", "delete"} -> 0 .. MaxIssued] /\ \A u \in {"publish", "delete"} : timers[u] <= issued
    BY DEF TypeInv, TypeOK
  <1>3. CASE timers' = timers
    BY <1>1, <1>2, <1>3
  <1>4. CASE timers' = [timers EXCEPT ![t] = @ + 1]
    <2>1. ASSUME NEW u \in {"publish", "delete"}
          PROVE  timers'[u] \in 0 .. MaxIssued /\ timers'[u] <= issued'
      BY <1>1, <1>2, <1>4
    <2> QED BY <1>1, <1>2, <1>4, <2>1
  <1> QED BY <1>3, <1>4

\* What is published is a game of a catalogue.
LEMMA PublishedType ==
    ASSUME catalogue \in Catalogue, NEW p \in PublishRequest, NEW g \in Games
    PROVE  Published(p, g) \in Catalogue
  <1>1. DOMAIN catalogue \in SUBSET Games /\ catalogue \in [DOMAIN catalogue -> Game]
    BY OfCatalogue
  <1>2. ASSUME NEW h \in DOMAIN catalogue \cup {g}
        PROVE  (IF h # g THEN catalogue[h]
                ELSE [content |-> p.content,
                      icon |-> IF p.icon = None /\ g \in DOMAIN catalogue THEN catalogue[g].icon ELSE p.icon]) \in Game
    <2>1. CASE h # g
      BY <1>1, <1>2, <2>1
    <2>2. CASE h = g
      BY <1>1, <2>2 DEF Game, PublishRequest
    <2> QED BY <2>1, <2>2
  <1>3. Published(p, g) \in [DOMAIN catalogue \cup {g} -> Game]
    BY <1>2 DEF Published
  <1> QED BY <1>1, <1>3, IntoCatalogue

LEMMA RemovedType ==
    ASSUME catalogue \in Catalogue, NEW G
    PROVE  [g \in DOMAIN catalogue \ {G} |-> catalogue[g]] \in Catalogue
  <1>1. DOMAIN catalogue \in SUBSET Games /\ catalogue \in [DOMAIN catalogue -> Game]
    BY OfCatalogue
  <1>2. [g \in DOMAIN catalogue \ {G} |-> catalogue[g]] \in [DOMAIN catalogue \ {G} -> Game]
    BY <1>1
  <1> QED BY <1>1, <1>2, IntoCatalogue

LEMMA ServerType ==
    ASSUME TypeInv, ServerTakes
    PROVE  LinkTypeOK' /\ catalogue' \in Catalogue /\ inflight' \in Seq(Answer)
  <1> DEFINE f == Head(wire)
  <1>1. LinkTypeOK' /\ f \in Command
    BY TakeType, FramesAssumption DEF ServerTakes, TypeInv, TypeOK
  <1>2. catalogue \in Catalogue /\ inflight \in Seq(Answer)
    BY DEF TypeInv, TypeOK
  <1>3. CASE f.cmd = "login"
    <2>1. inflight' = Append(inflight, [kind |-> "user"]) /\ catalogue' = catalogue
      BY <1>3 DEF ServerTakes
    <2>2. [kind |-> "user"] \in Answer
      BY DEF Answer
    <2> QED BY <1>1, <1>2, <2>1, <2>2
  <1>4. CASE f.cmd = "get_games"
    <2>1. inflight' = Append(inflight, [kind |-> "games", games |-> catalogue]) /\ catalogue' = catalogue
      BY <1>4 DEF ServerTakes
    <2>2. [kind |-> "games", games |-> catalogue] \in Answer
      BY <1>2 DEF Answer
    <2> QED BY <1>1, <1>2, <2>1, <2>2
  <1>5. CASE f.cmd = "get_dev_games"
    <2>1. inflight' = Append(inflight, [kind |-> "dev_games", games |-> catalogue]) /\ catalogue' = catalogue
      BY <1>5 DEF ServerTakes
    <2>2. [kind |-> "dev_games", games |-> catalogue] \in Answer
      BY <1>2 DEF Answer
    <2> QED BY <1>1, <1>2, <2>1, <2>2
  <1>6. CASE f.cmd = "delete_game"
    <2>1. inflight' = inflight /\ catalogue' = [g \in DOMAIN catalogue \ {f.game} |-> catalogue[g]]
      BY <1>6 DEF ServerTakes
    <2> QED BY <1>1, <1>2, <2>1, RemovedType
  <1>7. CASE f.cmd = "publish_game"
    <2>1. f \in PublishRequest
      BY <1>1, <1>7 DEF Command, Request
    <2>2. /\ inflight' = inflight
          /\ catalogue' = catalogue \/ \E g \in Games : catalogue' = Published(f, g)
      BY <1>7 DEF ServerTakes
    <2> HIDE DEF f
    <2> QED BY <1>1, <1>2, <2>1, <2>2, PublishedType
  <1> QED BY <1>1, <1>3, <1>4, <1>5, <1>6, <1>7 DEF Command, Request, PublishRequest

LEMMA MessageType ==
    ASSUME TypeInv, OnServerMessage
    PROVE  /\ LinkTypeOK' /\ inflight' \in Seq(Answer) /\ store' \in Catalogue /\ list' \in Catalogue
           /\ item' \in Games \cup {None} /\ editing' \in Games \cup {None} /\ icon' \in Icons \cup {None}
           /\ lost' \in BOOLEAN
  <1> DEFINE a == Head(inflight)
  <1>1. inflight' \in Seq(Answer) /\ a \in Answer
    BY DEF OnServerMessage, TypeInv, TypeOK
  <1>2. CASE a.kind = "dev_games"
    <2>1. RefreshAdminGames
      BY <1>2 DEF OnServerMessage
    <2>2. a.games \in Catalogue
      BY <1>1, <1>2 DEF Answer
    <2>3. LinkTypeOK'
      BY <2>1, LinkUnchanged DEF RefreshAdminGames, TypeInv, TypeOK
    <2> QED BY <1>1, <2>1, <2>2, <2>3 DEF RefreshAdminGames, TypeInv, TypeOK
  <1>3. CASE a.kind = "games"
    <2>1. RenderStore
      BY <1>3 DEF OnServerMessage
    <2>2. a.games \in Catalogue
      BY <1>1, <1>3 DEF Answer
    <2>3. LinkTypeOK'
      BY <2>1, LinkUnchanged DEF RenderStore, TypeInv, TypeOK
    <2> QED BY <1>1, <2>1, <2>2, <2>3 DEF RenderStore, TypeInv, TypeOK, editor
  <1>4. CASE a.kind = "user"
    <2>1. SendCommands(<<Plain("get_games")>>) /\ UNCHANGED <<store, list, editor>>
      BY <1>4 DEF OnServerMessage, RequestInitialData
    <2>2. <<Plain("get_games")>> \in Seq(Frames)
      BY Requests
    <2>3. LinkTypeOK'
      BY <2>1, <2>2, SendAllType DEF SendCommands, TypeInv, TypeOK
    <2>4. lost' \in BOOLEAN
      BY <2>1 DEF SendCommands, TypeInv, TypeOK
    <2> QED BY <1>1, <2>1, <2>3, <2>4 DEF TypeInv, TypeOK, editor
  <1> QED BY <1>1, <1>2, <1>3, <1>4 DEF Answer

\* A handler that sends, counts and leaves what is shown alone.
LEMMA NextType == TypeInv /\ [Next]_vars => TypeInv'
  <1> SUFFICES ASSUME TypeInv, [Next]_vars PROVE TypeInv'
    OBVIOUS
  <1>1. CASE OpenPage
    <2>1. <<Plain("get_dev_games")>> \in Seq(Frames)
      BY Requests
    <2>2. LinkTypeOK'
      BY <1>1, <2>1, SendAllType DEF OpenPage, TypeInv, TypeOK
    <2>3. Issue /\ timers' = timers
      BY <1>1 DEF OpenPage
    <2>4. /\ issued' \in 0 .. MaxIssued /\ timers' \in [{"publish", "delete"} -> 0 .. MaxIssued]
          /\ \A u \in {"publish", "delete"} : timers'[u] <= issued'
      BY <2>3, IssueType
    <2> QED BY <1>1, <2>2, <2>4 DEF OpenPage, TypeInv, TypeOK, editor
  <1>2. CASE \E g \in Games : Select(g)
    <2>1. LinkTypeOK'
      BY <1>2, LinkUnchanged DEF Select, TypeInv, TypeOK
    <2> QED BY <1>2, <2>1, OfCatalogue DEF Select, TypeInv, TypeOK
  <1>3. CASE \E i \in Icons : Browse(i)
    <2>1. LinkTypeOK'
      BY <1>3, LinkUnchanged DEF Browse, TypeInv, TypeOK
    <2> QED BY <1>3, <2>1 DEF Browse, TypeInv, TypeOK
  <1>4. CASE NewGame \/ Ask \/ Refuse
    <2>1. LinkTypeOK'
      BY <1>4, LinkUnchanged DEF NewGame, Ask, Refuse, TypeInv, TypeOK
    <2> QED BY <1>4, <2>1 DEF NewGame, Ask, Refuse, ClearAdminForm, TypeInv, TypeOK, editor
  <1>5. ASSUME NEW c \in Contents, PublishAdminGame(c) PROVE TypeInv'
    <2>1. Publication(c) \in Frames
      BY Requests DEF TypeInv
    <2>2. LinkTypeOK' /\ lost' \in BOOLEAN
      <3>1. SendCommands(<<Publication(c)>>) /\ LinkTypeOK /\ <<Publication(c)>> \in Seq(Frames)
        BY <1>5, <2>1 DEF PublishAdminGame, TypeInv, TypeOK
      <3> QED BY <3>1, SendCommandsType
    <2>3. Issue /\ timers' = [timers EXCEPT !["publish"] = @ + 1]
      BY <1>5 DEF PublishAdminGame
    <2>4. /\ issued' \in 0 .. MaxIssued /\ timers' \in [{"publish", "delete"} -> 0 .. MaxIssued]
          /\ \A u \in {"publish", "delete"} : timers'[u] <= issued'
      BY <2>3, IssueType
    <2>5. UNCHANGED <<catalogue, inflight, store, opened, list, editor, question, asked, chosenFor>>
      BY <1>5 DEF PublishAdminGame
    <2>6. opened' \in BOOLEAN /\ question' \in BOOLEAN
      BY <2>5 DEF TypeInv, TypeOK
    <2>7. /\ catalogue' \in Catalogue /\ inflight' \in Seq(Answer) /\ store' \in Catalogue /\ list' \in Catalogue
          /\ {item', editing', asked', chosenFor'} \subseteq Games \cup {None} /\ icon' \in Icons \cup {None}
      BY <2>5 DEF TypeInv, TypeOK, editor
    <2> QED BY <2>2, <2>4, <2>6, <2>7, Zenon DEF TypeInv, TypeOK
  <1>6. CASE Confirm
    <2>1. [Plain("delete_game") EXCEPT !.game = editing] \in Frames
      BY Requests DEF TypeInv, TypeOK
    <2>2. LinkTypeOK' /\ lost' \in BOOLEAN
      <3> DEFINE frame == [Plain("delete_game") EXCEPT !.game = editing]
      <3>1. SendCommands(<<frame>>) /\ LinkTypeOK
        BY <1>6 DEF Confirm, TypeInv, TypeOK
      <3>2. <<frame>> \in Seq(Frames)
        <4> HIDE DEF frame
        <4> QED BY <2>1 DEF frame
      <3> HIDE DEF frame
      <3> QED BY <3>1, <3>2, SendCommandsType
    <2>3. Issue /\ timers' = [timers EXCEPT !["delete"] = @ + 1]
      BY <1>6 DEF Confirm
    <2>4. /\ issued' \in 0 .. MaxIssued /\ timers' \in [{"publish", "delete"} -> 0 .. MaxIssued]
          /\ \A u \in {"publish", "delete"} : timers'[u] <= issued'
      BY <2>3, IssueType
    <2>5. /\ UNCHANGED <<catalogue, inflight, store, opened, list, item>>
          /\ question' = FALSE /\ asked' = None /\ editing' = None /\ icon' = None /\ chosenFor' = None
      BY <1>6 DEF Confirm, ClearAdminForm
    <2> QED BY <2>2, <2>4, <2>5 DEF TypeInv, TypeOK
  <1>7. ASSUME NEW t \in {"publish", "delete"}, Timer(t) PROVE TypeInv'
    <2>1. Refresh(t) \in Seq(Frames)
      BY Requests DEF Refresh
    <2>2. LinkTypeOK' /\ lost' \in BOOLEAN
      BY <1>7, <2>1, SendCommandsType DEF Timer, TypeInv, TypeOK
    <2>3. /\ timers' \in [{"publish", "delete"} -> 0 .. MaxIssued]
          /\ \A u \in {"publish", "delete"} : timers'[u] <= issued
      <3>1. timers[t] > 0 /\ timers' = [timers EXCEPT ![t] = @ - 1]
        BY <1>7 DEF Timer
      <3>2. /\ timers \in [{"publish", "delete"} -> 0 .. MaxIssued] /\ issued \in 0 .. MaxIssued
            /\ \A u \in {"publish", "delete"} : timers[u] <= issued
        BY DEF TypeInv, TypeOK
      <3>3. ASSUME NEW u \in {"publish", "delete"}
            PROVE  timers'[u] \in 0 .. MaxIssued /\ timers'[u] <= issued
        BY <3>1, <3>2, AdminAssumption
      <3> QED BY <3>1, <3>2, <3>3
    <2>4. UNCHANGED <<catalogue, inflight, store, opened, list, editor, question, issued, asked, chosenFor>>
      BY <1>7 DEF Timer
    <2> QED BY <2>2, <2>3, <2>4 DEF TypeInv, TypeOK, editor
  <1>8. CASE Connected
    <2>1. <<Plain("login")>> \in Seq(Frames)
      BY Requests
    <2>2. LinkTypeOK'
      BY <1>8, <2>1, ConnectType, AdminAssumption DEF Connected, TypeInv, TypeOK
    <2> QED BY <1>8, <2>2 DEF Connected, TypeInv, TypeOK, editor
  <1>9. CASE Disconnected
    <2>1. LinkTypeOK' /\ <<>> \in Seq(Answer)
      BY <1>9, LoseType DEF Disconnected, TypeInv, TypeOK
    <2> QED BY <1>9, <2>1 DEF Disconnected, TypeInv, TypeOK, editor
  <1>10. CASE ServerTakes
    <2>1. UNCHANGED <<store, opened, list, editor, question, timers, issued, lost, asked, chosenFor>>
      BY <1>10 DEF ServerTakes
    <2> QED BY <1>10, <2>1, ServerType DEF TypeInv, TypeOK, editor
  <1>11. CASE OnServerMessage
    <2>1. UNCHANGED <<catalogue, opened, question, timers, issued, asked, chosenFor>>
      BY <1>11 DEF OnServerMessage
    <2> QED BY <1>11, <2>1, MessageType DEF TypeInv, TypeOK
  <1>12. CASE UNCHANGED vars
    <2>1. LinkTypeOK'
      BY <1>12, LinkUnchanged DEF vars, TypeInv, TypeOK
    <2> QED BY <1>12, <2>1 DEF vars, editor, TypeInv, TypeOK
  <1> QED BY <1>1, <1>2, <1>3, <1>4, <1>5, <1>6, <1>7, <1>8, <1>9, <1>10, <1>11, <1>12 DEF Next

\* The page, the link and what is on its way keep their types, whoever is late.
THEOREM TypeCorrect == Spec => []TypeOK
  <1> QED BY InitType, NextType, PTL DEF Spec, TypeInv

LEMMA TypeInvAlways == Spec => []TypeInv
  <1> QED BY InitType, NextType, PTL DEF Spec

-----------------------------------------------------------------------------
\* The game that is deleted is the one the question was about, although lists and
\* timers come while it is open.
THEOREM DeletionIsOfTheQuestion == Spec => []DeletesWhatWasAsked
  <1>1. Init => DeletesWhatWasAsked
    BY DEF Init, DeletesWhatWasAsked
  <1>2. TypeInv /\ DeletesWhatWasAsked /\ [Next]_vars => DeletesWhatWasAsked'
    <2> SUFFICES ASSUME TypeInv, DeletesWhatWasAsked, [Next]_vars, question' PROVE editing' = asked' /\ editing' # None
      BY DEF DeletesWhatWasAsked
    <2>1. CASE Ask
      BY <2>1 DEF Ask, editor
    <2>2. CASE OnServerMessage
      <3>1. editing' = editing /\ UNCHANGED <<question, asked>>
        <4>1. Head(inflight).kind \in {"dev_games", "games", "user"}
          BY <2>2 DEF OnServerMessage, TypeInv, TypeOK, Answer
        <4> QED BY <2>2, <4>1 DEF OnServerMessage, RefreshAdminGames, RenderStore, RequestInitialData, editor
      <3> QED BY <3>1 DEF DeletesWhatWasAsked
    <2>3. CASE ServerTakes
      BY <2>3 DEF ServerTakes, DeletesWhatWasAsked, editor
    <2>4. CASE Next /\ ~(Ask \/ OnServerMessage \/ ServerTakes)
      BY <2>4 DEF Next, OpenPage, Select, Browse, NewGame, PublishAdminGame, Refuse, Confirm, Timer,
            Connected, Disconnected, Click, DeletesWhatWasAsked, editor
    <2>5. CASE UNCHANGED vars
      BY <2>5 DEF vars, editor, DeletesWhatWasAsked
    <2> QED BY <2>1, <2>2, <2>3, <2>4, <2>5
  <1> QED BY <1>1, <1>2, TypeInvAlways, PTL DEF Spec

-----------------------------------------------------------------------------
(* The list.  What is asked for stays behind every change that is on its way,   *)
(* or a timer will ask again.                                                   *)

Queue == IF online THEN wire ELSE pending
Changes == {"publish_game", "delete_game"}
Running == \E t \in {"publish", "delete"} : timers[t] > 0

ListDue ==
    Running \/ In(Queue, "get_dev_games") \/ Ends(inflight, "dev_games", list, {catalogue})
ListOrdered == Running \/ Ordered(Queue, Changes, "get_dev_games")
ListInv == opened /\ ~lost => ListDue /\ ListOrdered

LEMMA QueueType ==
    ASSUME TypeInv
    PROVE  Queue \in Seq(Frames)
  BY DEF TypeInv, TypeOK, LinkTypeOK, Queue

\* As long as nothing was lost, frames go behind those that wait.
LEMMA SentBehind ==
    ASSUME TypeInv, NEW frames \in Seq(Frames), SendCommands(frames), ~lost'
    PROVE  Queue' = Queue \o frames /\ ~lost
  <1>1. ~lost /\ (online \/ ~(Len(pending) + Len(frames) > MaxPending))
    BY DEF SendCommands
  <1>2. CASE online
    BY <1>1, <1>2 DEF SendCommands, SendAll, Queue
  <1>3. CASE ~online
    <2>1. pending \in Seq(Frames)
      BY DEF TypeInv, TypeOK, LinkTypeOK
    <2>2. Len(pending \o frames) = Len(pending) + Len(frames)
      BY <2>1
    <2>3. Latest(pending \o frames) = pending \o frames
      BY <1>1, <1>3, <2>2 DEF Latest
    <2> QED BY <1>1, <1>3, <2>3 DEF SendCommands, SendAll, Queue
  <1> QED BY <1>2, <1>3

LEMMA LatestEnds ==
    ASSUME NEW s \in Seq(Frames), NEW f \in Frames
    PROVE  LET q == Latest(s \o <<f>>) IN q # <<>> /\ q[Len(q)] = f
  <1> DEFINE all == s \o <<f>>
  <1>1. all \in Seq(Frames) /\ Len(all) = Len(s) + 1 /\ all[Len(s) + 1] = f /\ Len(s) \in Nat
    OBVIOUS
  <1>2. MaxPending \in Nat \ {0}
    BY AdminAssumption
  <1> HIDE DEF all
  <1>3. CASE Len(all) > MaxPending
    <2> DEFINE m == Len(all) - MaxPending + 1
    <2>1. m \in Int /\ Len(all) \in Int /\ m <= Len(all) /\ m >= 1
      BY <1>1, <1>2, <1>3
    <2>2. \A i \in m .. Len(all) : all[i] \in Frames
      BY <1>1, <2>1
    <2>3. /\ Len(SubSeq(all, m, Len(all))) = Len(all) - m + 1
          /\ \A i \in 1 .. Len(all) - m + 1 : SubSeq(all, m, Len(all))[i] = all[m + i - 1]
      <3> HIDE DEF m
      <3> QED BY <2>1, <2>2, SubSeqProperties
    <2>4. Len(SubSeq(all, m, Len(all))) = MaxPending /\ SubSeq(all, m, Len(all))[MaxPending] = f
      BY <1>1, <1>2, <2>1, <2>3
    <2>5. Latest(all) = SubSeq(all, m, Len(all))
      BY <1>3 DEF Latest
    <2>6. SubSeq(all, m, Len(all)) # <<>>
      BY <2>4, <1>2
    <2> QED BY <2>4, <2>5, <2>6 DEF all
  <1>4. CASE ~(Len(all) > MaxPending)
    <2>1. Latest(all) = all /\ all # <<>>
      BY <1>1, <1>4 DEF Latest
    <2> QED BY <1>1, <2>1 DEF all
  <1> QED BY <1>3, <1>4

\* What a step leaves alone keeps the list due.
LEMMA ListStays ==
    ASSUME ListInv, UNCHANGED <<link, catalogue, inflight, opened, list, timers, lost>>
    PROVE  ListInv'
  <1>1. Queue' = Queue /\ Running' = Running
    BY DEF link, Queue, Running
  <1> QED BY <1>1 DEF ListInv, ListDue, ListOrdered, In, Ordered, Ends

\* Requests and changes go behind the rest; a change comes with a timer.
LEMMA ListSends ==
    ASSUME TypeInv, ListInv, NEW frames \in Seq(Frames), SendCommands(frames),
           opened' = opened,
           Ends(inflight, "dev_games", list, {catalogue}) => Ends(inflight', "dev_games", list', {catalogue'}),
           \/ Running'
           \/ Ordered(frames, Changes, "get_dev_games")
              /\ (In(frames, "get_dev_games") \/ Running' = Running)
    PROVE  ListInv'
  <1> SUFFICES ASSUME opened', ~lost', ~Running' PROVE ListDue' /\ ListOrdered'
    BY DEF ListInv, ListDue, ListOrdered
  <1>1. Queue \in Seq(Frames) /\ Queue' = Queue \o frames /\ opened /\ ~lost
    BY QueueType, SentBehind
  <1>2. Ordered(frames, Changes, "get_dev_games")
    OBVIOUS
  <1>3. CASE In(frames, "get_dev_games")
    <2>1. In(Queue', "get_dev_games") /\ Ordered(Queue', Changes, "get_dev_games")
      BY <1>1, <1>2, <1>3, InConcat, OrderedBefore
    <2> QED BY <2>1 DEF ListDue, ListOrdered
  <1>4. CASE ~Running
    <2>1. In(Queue, "get_dev_games") \/ Ends(inflight, "dev_games", list, {catalogue})
      BY <1>1, <1>4 DEF ListInv, ListDue
    <2>2. Ordered(Queue', Changes, "get_dev_games")
      BY <1>1, <1>2, <1>4, OrderedConcat DEF ListInv, ListOrdered
    <2>3. In(Queue', "get_dev_games") \/ Ends(inflight', "dev_games", list', {catalogue'})
      BY <1>1, <2>1, InConcat
    <2> QED BY <2>2, <2>3 DEF ListDue, ListOrdered
  <1> QED BY <1>3, <1>4

LEMMA ListOpens ==
    ASSUME TypeInv, OpenPage
    PROVE  ListInv'
  <1> DEFINE f == Plain("get_dev_games")
  <1>1. f \in Frames /\ f.cmd = "get_dev_games"
    BY Requests DEF Plain
  <1>2. SendAll(<<f>>)
    BY DEF OpenPage
  <1>3. wire \in Seq(Frames) /\ pending \in Seq(Frames)
    BY DEF TypeInv, TypeOK, LinkTypeOK
  <1> HIDE DEF f
  <1>5. Queue' # <<>> /\ Queue'[Len(Queue')] = f
    <2>1. CASE online
      <3>1. Queue' = wire \o <<f>>
        BY <1>2, <2>1 DEF SendAll, Queue
      <3> QED BY <1>1, <1>3, <3>1
    <2>2. CASE ~online
      <3>1. Queue' = Latest(pending \o <<f>>)
        BY <1>2, <2>2 DEF SendAll, Queue
      <3> QED BY <1>1, <1>3, <3>1, LatestEnds
    <2> QED BY <2>1, <2>2
  <1>6. Queue' \in Seq(Frames)
    <2>1. LinkTypeOK'
      <3>1. <<f>> \in Seq(Frames)
        BY <1>1
      <3> QED BY <1>2, <3>1, SendAllType DEF TypeInv, TypeOK
    <2> QED BY <2>1 DEF LinkTypeOK, Queue
  <1>7. In(Queue', "get_dev_games") /\ Ordered(Queue', Changes, "get_dev_games")
    <2>1. Queue'[Len(Queue')].cmd = "get_dev_games"
      BY <1>1, <1>5
    <2>2. "get_dev_games" \notin Changes
      BY DEF Changes
    <2> QED BY <1>5, <1>6, <2>1, <2>2, OrderedByLast
  <1> QED BY <1>7 DEF ListInv, ListDue, ListOrdered

\* The server takes a frame: a change leaves a request behind, a request becomes
\* an answer with everything up to here.
LEMMA ListServed ==
    ASSUME TypeInv, ListInv, ServerTakes
    PROVE  ListInv'
  <1> DEFINE f == Head(wire)
             gdg == "get_dev_games"
  <1> SUFFICES ASSUME opened', ~lost', ~Running' PROVE ListDue' /\ ListOrdered'
    BY DEF ListInv, ListDue, ListOrdered
  <1>1. wire # <<>> /\ wire \in Seq(Frames) /\ online /\ online' = online /\ wire' = Tail(wire) /\ f \in Command
    <2>1. wire # <<>> /\ wire \in Seq(Frames) /\ online /\ online' = online /\ wire' = Tail(wire)
      BY DEF ServerTakes, Take, TypeInv, TypeOK, LinkTypeOK
    <2> QED BY <2>1, Cut, FramesAssumption
  <1>2. Queue = wire /\ Queue' = Tail(wire)
    BY <1>1 DEF Queue
  <1>3. opened /\ ~lost /\ ~Running /\ list' = list
    BY DEF ServerTakes, Running
  <1>4. In(wire, gdg) \/ Ends(inflight, "dev_games", list, {catalogue})
    BY <1>2, <1>3 DEF ListInv, ListDue
  <1>5. Ordered(wire, Changes, gdg)
    BY <1>2, <1>3 DEF ListInv, ListOrdered
  <1>6. Ordered(Tail(wire), Changes, gdg) /\ (f.cmd \in Changes => In(Tail(wire), gdg))
    BY <1>1, <1>5, OrderedTail
  <1>7. ListOrdered'
    BY <1>2, <1>6 DEF ListOrdered
  <1>8. inflight \in Seq(Answer) /\ catalogue \in Catalogue
    BY DEF TypeInv, TypeOK
  <1>9. CASE f.cmd \in Changes
    BY <1>2, <1>6, <1>7, <1>9 DEF ListDue
  <1>10. CASE f.cmd = gdg
    <2> DEFINE a == [kind |-> "dev_games", games |-> catalogue]
    <2>1. inflight' = Append(inflight, a) /\ catalogue' = catalogue
      BY <1>10 DEF ServerTakes
    <2>2. a \in Answer /\ a.kind = "dev_games" /\ a.games \in {catalogue'}
      BY <1>8, <2>1 DEF Answer
    <2> HIDE DEF a
    <2>3. Ends(inflight', "dev_games", list', {catalogue'})
      BY <1>3, <1>8, <2>1, <2>2, EndsAppend
    <2> QED BY <1>7, <2>3 DEF ListDue
  <1>11. CASE f.cmd \in {"login", "get_games"}
    <2>1. CASE In(wire, gdg)
      <3>1. In(Tail(wire), gdg)
        BY <1>1, <1>11, <2>1, InTail
      <3> QED BY <1>2, <1>7, <3>1 DEF ListDue
    <2>2. CASE Ends(inflight, "dev_games", list, {catalogue})
      <3>1. /\ inflight' = Append(inflight, IF f.cmd = "login" THEN [kind |-> "user"]
                                            ELSE [kind |-> "games", games |-> catalogue])
            /\ catalogue' = catalogue
        BY <1>11 DEF ServerTakes
      <3>2. PICK a \in Answer : inflight' = Append(inflight, a) /\ a.kind # "dev_games"
        BY <1>8, <3>1 DEF Answer
      <3>3. Ends(inflight', "dev_games", list', {catalogue'})
        BY <1>3, <1>8, <2>2, <3>1, <3>2, EndsAppend
      <3> QED BY <1>7, <3>3 DEF ListDue
    <2> QED BY <1>4, <2>1, <2>2
  <1> QED BY <1>1, <1>9, <1>10, <1>11 DEF Command, Request, PublishRequest, Changes

\* An answer is handled: it becomes what is shown, or asks for more.
LEMMA ListReceived ==
    ASSUME TypeInv, ListInv, OnServerMessage
    PROVE  ListInv'
  <1> DEFINE a == Head(inflight)
  <1>1. inflight # <<>> /\ inflight \in Seq(Answer) /\ inflight' = Tail(inflight) /\ a \in Answer
    BY DEF OnServerMessage, TypeInv, TypeOK
  <1>2. UNCHANGED <<catalogue, opened, timers>>
    BY DEF OnServerMessage
  <1>3. list' = IF a.kind = "dev_games" THEN a.games ELSE list
    BY <1>1 DEF OnServerMessage, RefreshAdminGames, RenderStore, RequestInitialData, Answer
  <1>4. Ends(inflight, "dev_games", list, {catalogue}) => Ends(inflight', "dev_games", list', {catalogue'})
    BY <1>1, <1>2, <1>3, EndsTail
  <1>5. CASE a.kind = "user"
    <2>1. SendCommands(<<Plain("get_games")>>)
      BY <1>5 DEF OnServerMessage, RequestInitialData
    <2>2. Ordered(<<Plain("get_games")>>, Changes, "get_dev_games")
      BY DEF Ordered, Plain, Changes
    <2>3. <<Plain("get_games")>> \in Seq(Frames) /\ Running' = Running
      BY <1>2, Requests DEF Running
    <2> QED BY <1>2, <1>4, <2>1, <2>2, <2>3, ListSends
  <1>6. CASE a.kind \in {"games", "dev_games"}
    <2>1. UNCHANGED <<link, lost>>
      BY <1>6 DEF OnServerMessage, RefreshAdminGames, RenderStore
    <2>2. Queue' = Queue /\ Running' = Running
      BY <1>2, <2>1 DEF link, Queue, Running
    <2> QED BY <1>2, <1>4, <2>1, <2>2 DEF ListInv, ListDue, ListOrdered
  <1> QED BY <1>1, <1>5, <1>6 DEF Answer

\* A connection comes, with the login before what waited.
LEMMA ListConnected ==
    ASSUME TypeInv, ListInv, Connected
    PROVE  ListInv'
  <1> DEFINE l == <<Plain("login")>>
  <1>1. Queue \in Seq(Frames) /\ l \in Seq(Frames)
    BY QueueType, Requests
  <1>2. Queue' = l \o Queue /\ UNCHANGED <<catalogue, inflight, opened, list, timers, lost>>
    BY DEF Connected, Connect, Queue
  <1>3. Running' = Running
    BY <1>2 DEF Running
  <1>4. Ordered(l, Changes, "get_dev_games")
    BY DEF Ordered, Plain, Changes
  <1> HIDE DEF l
  <1>5. In(Queue, "get_dev_games") => In(Queue', "get_dev_games")
    BY <1>1, <1>2, InConcat
  <1>6. Ordered(Queue, Changes, "get_dev_games") => Ordered(Queue', Changes, "get_dev_games")
    BY <1>1, <1>2, <1>4, OrderedConcat
  <1> QED BY <1>2, <1>3, <1>5, <1>6 DEF ListInv, ListDue, ListOrdered

\* A connection that goes loses nothing only when nothing was on its way.
LEMMA ListDisconnected ==
    ASSUME TypeInv, ListInv, Disconnected
    PROVE  ListInv'
  <1> SUFFICES ASSUME opened', ~lost' PROVE ListDue' /\ ListOrdered'
    BY DEF ListInv
  <1>1. opened /\ ~lost /\ wire = <<>> /\ inflight = <<>>
    BY DEF Disconnected
  <1>2. pending = <<>> /\ online /\ ~online' /\ pending' = pending
    BY DEF Disconnected, Lose, TypeInv, TypeOK, LinkTypeOK
  <1>3. UNCHANGED <<catalogue, list, timers>> /\ inflight' = <<>>
    BY DEF Disconnected
  <1>4. Queue' = Queue /\ Running' = Running
    BY <1>1, <1>2, <1>3 DEF Queue, Running
  <1> QED BY <1>1, <1>3, <1>4 DEF ListInv, ListDue, ListOrdered

LEMMA ListNext ==
    ASSUME TypeInv, ListInv, [Next]_vars
    PROVE  ListInv'
  <1>1. CASE \E g \in Games : Select(g)
    BY <1>1, ListStays DEF Select
  <1>2. CASE \E i \in Icons : Browse(i)
    BY <1>2, ListStays DEF Browse
  <1>3. CASE NewGame \/ Ask \/ Refuse
    BY <1>3, ListStays DEF NewGame, Ask, Refuse
  <1>4. ASSUME NEW c \in Contents, PublishAdminGame(c) PROVE ListInv'
    <2>1. <<Publication(c)>> \in Seq(Frames)
      BY Requests DEF TypeInv
    <2>2. SendCommands(<<Publication(c)>>) /\ UNCHANGED <<catalogue, inflight, opened, list>>
      BY <1>4 DEF PublishAdminGame
    <2>3. Running'
      <3>1. timers' = [timers EXCEPT !["publish"] = @ + 1] /\ timers \in [{"publish", "delete"} -> 0 .. MaxIssued]
        BY <1>4 DEF PublishAdminGame, TypeInv, TypeOK
      <3>2. timers'["publish"] > 0
        BY <3>1, AdminAssumption
      <3> QED BY <3>2 DEF Running
    <2> QED BY <2>1, <2>2, <2>3, ListSends
  <1>5. CASE Confirm
    <2> DEFINE f == [Plain("delete_game") EXCEPT !.game = editing]
    <2>1. f \in Frames
      BY Requests DEF TypeInv, TypeOK
    <2>2. SendCommands(<<f>>) /\ UNCHANGED <<catalogue, inflight, opened, list>>
      BY <1>5 DEF Confirm
    <2> HIDE DEF f
    <2>3. Running'
      <3>1. timers' = [timers EXCEPT !["delete"] = @ + 1] /\ timers \in [{"publish", "delete"} -> 0 .. MaxIssued]
        BY <1>5 DEF Confirm, TypeInv, TypeOK
      <3>2. timers'["delete"] > 0
        BY <3>1, AdminAssumption
      <3> QED BY <3>2 DEF Running
    <2>4. <<f>> \in Seq(Frames)
      BY <2>1
    <2> QED BY <2>2, <2>3, <2>4, ListSends
  <1>6. ASSUME NEW t \in {"publish", "delete"}, Timer(t) PROVE ListInv'
    <2>1. Refresh(t) \in Seq(Frames)
      BY Requests DEF Refresh
    <2>2. SendCommands(Refresh(t)) /\ UNCHANGED <<catalogue, inflight, opened, list>>
      BY <1>6 DEF Timer
    <2>3. Ordered(Refresh(t), Changes, "get_dev_games")
      BY DEF Ordered, Refresh, Plain, Changes
    <2>4. In(Refresh(t), "get_dev_games")
      <3>1. 1 \in DOMAIN Refresh(t) /\ Refresh(t)[1].cmd = "get_dev_games"
        BY DEF Refresh, Plain
      <3> QED BY <3>1 DEF In
    <2> QED BY <2>1, <2>2, <2>3, <2>4, ListSends
  <1>7. CASE UNCHANGED vars
    BY <1>7, ListStays DEF vars
  <1> QED BY <1>1, <1>2, <1>3, <1>4, <1>5, <1>6, <1>7,
             ListOpens, ListConnected, ListDisconnected, ListServed, ListReceived DEF Next

\* However publications, deletions, timers and answers overlap, the list that has
\* come to rest is the server's, unless something was lost.
THEOREM ListIsTheServers == Spec => []ListCatchesUp
  <1>1. Init => ListInv
    BY DEF Init, ListInv
  <1>2. TypeInv /\ ListInv => ListCatchesUp
    <2> SUFFICES ASSUME TypeInv, ListInv, opened, Quiet, ~lost PROVE list = catalogue
      BY DEF ListCatchesUp
    <2>1. ~Running /\ Queue = <<>> /\ inflight = <<>>
      <3>1. ASSUME NEW t \in {"publish", "delete"} PROVE ~(timers[t] > 0)
        BY DEF Quiet, TypeInv, TypeOK
      <3> QED BY <3>1 DEF Quiet, Queue, Running
    <2>2. Ends(<<>>, "dev_games", list, {catalogue})
      BY <2>1 DEF ListInv, ListDue, In
    <2> QED BY <2>2 DEF Ends
  <1>3. TypeInv /\ ListInv /\ [Next]_vars => ListInv'
    BY ListNext
  <1> QED BY <1>1, <1>2, <1>3, TypeInvAlways, PTL DEF Spec

-----------------------------------------------------------------------------
(* The store.  While there is a connection its games are asked for behind every *)
(* publication on the way, or a timer or the answer to the login will ask.      *)

LoginDue == In(wire, "login") \/ \E i \in DOMAIN inflight : inflight[i].kind = "user"
GamesDue == LoginDue \/ timers["publish"] > 0

UpToDate == {v \in Catalogue : \A g \in DOMAIN catalogue : g \in DOMAIN v /\ v[g] = catalogue[g]}

StoreInv ==
    online =>
        /\ GamesDue \/ In(wire, "get_games") \/ Ends(inflight, "games", store, UpToDate)
        /\ GamesDue \/ Ordered(wire, {"publish_game"}, "get_games")

LEMMA StoreStays ==
    ASSUME StoreInv, UNCHANGED <<link, catalogue, inflight, store, timers>>
    PROVE  StoreInv'
  <1>1. online' = online /\ wire' = wire /\ UpToDate' = UpToDate
    BY DEF link, UpToDate
  <1>2. GamesDue' = GamesDue
    BY <1>1 DEF GamesDue, LoginDue
  <1> QED BY <1>1, <1>2 DEF StoreInv

LEMMA EndsBetter ==
    ASSUME NEW q, NEW kind, NEW shown, NEW good, NEW better, good \subseteq better,
           Ends(q, kind, shown, good)
    PROVE  Ends(q, kind, shown, better)
  BY DEF Ends

\* Requests and publications go behind the rest; a publication comes with a timer.
LEMMA StoreSends ==
    ASSUME TypeInv, StoreInv, NEW frames \in Seq(Frames), SendAll(frames),
           UNCHANGED <<catalogue, inflight, store>>,
           \/ timers'["publish"] > 0
           \/ Ordered(frames, {"publish_game"}, "get_games")
              /\ (In(frames, "get_games") \/ timers'["publish"] = timers["publish"])
    PROVE  StoreInv'
  <1> SUFFICES ASSUME online', ~GamesDue'
               PROVE  /\ In(wire', "get_games") \/ Ends(inflight', "games", store', UpToDate')
                      /\ Ordered(wire', {"publish_game"}, "get_games")
    BY DEF StoreInv
  <1>1. online /\ wire' = wire \o frames /\ wire \in Seq(Frames)
    BY DEF SendAll, TypeInv, TypeOK, LinkTypeOK
  <1>2. ~LoginDue
    <2>1. In(wire, "login") => In(wire', "login")
      BY <1>1, InConcat
    <2> QED BY <2>1 DEF GamesDue, LoginDue
  <1>3. UpToDate' = UpToDate
    BY DEF UpToDate
  <1>4. CASE In(frames, "get_games") /\ Ordered(frames, {"publish_game"}, "get_games")
    BY <1>1, <1>4, InConcat, OrderedBefore
  <1>5. CASE Ordered(frames, {"publish_game"}, "get_games") /\ ~GamesDue
    <2>1. Ordered(wire', {"publish_game"}, "get_games")
      BY <1>1, <1>5, OrderedConcat DEF StoreInv
    <2>2. In(wire', "get_games") \/ Ends(inflight, "games", store, UpToDate)
      BY <1>1, <1>5, InConcat DEF StoreInv
    <2> QED BY <1>3, <2>1, <2>2
  <1> QED BY <1>2, <1>4, <1>5 DEF GamesDue

\* The login becomes an answer, and the answer a request.
LEMMA StoreServed ==
    ASSUME TypeInv, StoreInv, ServerTakes
    PROVE  StoreInv'
  <1> DEFINE f == Head(wire)
  <1>1. /\ wire # <<>> /\ wire \in Seq(Frames) /\ online /\ online' = online /\ wire' = Tail(wire)
        /\ inflight \in Seq(Answer) /\ catalogue \in Catalogue
    BY DEF ServerTakes, Take, TypeInv, TypeOK, LinkTypeOK
  <1>2. f \in Command
    BY <1>1, Cut, FramesAssumption
  <1>3. store' = store /\ timers' = timers
    BY DEF ServerTakes
  <1>4. CASE f.cmd = "login"
    <2>1. inflight' = Append(inflight, [kind |-> "user"])
      BY <1>4 DEF ServerTakes
    <2>2. Len(inflight) + 1 \in DOMAIN inflight' /\ inflight'[Len(inflight) + 1].kind = "user"
      BY <1>1, <2>1
    <2> QED BY <2>2 DEF StoreInv, GamesDue, LoginDue
  <1>5. ASSUME f.cmd # "login", GamesDue PROVE StoreInv'
    <2>1. In(wire, "login") => In(wire', "login")
      BY <1>1, <1>5, InTail
    <2>2. (\E i \in DOMAIN inflight : inflight[i].kind = "user") => \E i \in DOMAIN inflight' : inflight'[i].kind = "user"
      <3>1. inflight' = inflight \/ \E a \in Answer : inflight' = Append(inflight, a)
        <4>1. CASE f.cmd = "get_games"
          BY <1>1, <4>1 DEF ServerTakes, Answer
        <4>2. CASE f.cmd = "get_dev_games"
          BY <1>1, <4>2 DEF ServerTakes, Answer
        <4>3. CASE f.cmd \in {"delete_game", "publish_game"}
          BY <4>3 DEF ServerTakes
        <4> QED BY <1>2, <1>5, <4>1, <4>2, <4>3 DEF Command, Request, PublishRequest
      <3>2. \A i \in DOMAIN inflight : i \in DOMAIN inflight' /\ inflight'[i] = inflight[i]
        <4>1. ASSUME NEW a \in Answer, inflight' = Append(inflight, a), NEW i \in DOMAIN inflight
              PROVE  i \in DOMAIN inflight' /\ inflight'[i] = inflight[i]
          BY <1>1, <4>1
        <4> QED BY <3>1, <4>1
      <3> QED BY <3>2
    <2>3. GamesDue'
      BY <1>3, <1>5, <2>1, <2>2 DEF GamesDue, LoginDue
    <2> QED BY <2>3 DEF StoreInv
  <1>6. ASSUME f.cmd # "login", ~GamesDue PROVE StoreInv'
    <2>1. /\ In(wire, "get_games") \/ Ends(inflight, "games", store, UpToDate)
          /\ Ordered(wire, {"publish_game"}, "get_games")
      BY <1>1, <1>6 DEF StoreInv
    <2>2. Ordered(wire', {"publish_game"}, "get_games") /\ (f.cmd = "publish_game" => In(wire', "get_games"))
      BY <1>1, <2>1, OrderedTail
    <2>3. In(wire', "get_games") \/ Ends(inflight', "games", store', UpToDate')
      <3>1. CASE f.cmd = "publish_game"
        BY <2>2, <3>1
      <3>2. CASE f.cmd = "get_games"
        <4> DEFINE a == [kind |-> "games", games |-> catalogue]
        <4>1. inflight' = Append(inflight, a) /\ catalogue' = catalogue
          BY <3>2 DEF ServerTakes
        <4>2. a \in Answer /\ a.kind = "games" /\ a.games \in UpToDate'
          BY <1>1, <4>1 DEF Answer, UpToDate
        <4> HIDE DEF a
        <4> QED BY <1>1, <4>1, <4>2, EndsAppend
      <3>3. CASE f.cmd \in {"get_dev_games", "delete_game"}
        <4>1. In(wire, "get_games") => In(wire', "get_games")
          BY <1>1, <3>3, InTail
        <4>2. UpToDate \subseteq UpToDate'
          BY <3>3 DEF ServerTakes, UpToDate
        <4>3. Ends(inflight, "games", store, UpToDate) => Ends(inflight', "games", store', UpToDate)
          <5>1. CASE inflight' = inflight
            BY <1>3, <5>1
          <5>2. CASE inflight' = Append(inflight, [kind |-> "dev_games", games |-> catalogue])
            <6>1. PICK a \in Answer : inflight' = Append(inflight, a) /\ a.kind # "games"
              BY <1>1, <5>2 DEF Answer
            <6> QED BY <1>1, <1>3, <6>1, EndsAppend
          <5> QED BY <3>3, <5>1, <5>2 DEF ServerTakes
        <4> QED BY <2>1, <4>1, <4>2, <4>3, EndsBetter
      <3> QED BY <1>2, <1>6, <3>1, <3>2, <3>3 DEF Command, Request, PublishRequest
    <2> QED BY <2>2, <2>3 DEF StoreInv
  <1> QED BY <1>4, <1>5, <1>6

LEMMA StoreReceived ==
    ASSUME TypeInv, StoreInv, OnServerMessage
    PROVE  StoreInv'
  <1> DEFINE a == Head(inflight)
  <1>1. inflight # <<>> /\ inflight \in Seq(Answer) /\ inflight' = Tail(inflight) /\ a \in Answer
    BY DEF OnServerMessage, TypeInv, TypeOK
  <1>2. UNCHANGED <<catalogue, timers>>
    BY DEF OnServerMessage
  <1>3. CASE a.kind = "user"
    <2> DEFINE frames == <<Plain("get_games")>>
    <2>1. frames \in Seq(Frames) /\ SendAll(frames) /\ UNCHANGED <<catalogue, store, timers>>
      <3>1. SendCommands(frames) /\ store' = store
        BY <1>3 DEF OnServerMessage, RequestInitialData
      <3>2. frames \in Seq(Frames)
        BY Requests
      <3> HIDE DEF frames
      <3>3. SendAll(frames)
        BY <3>1 DEF SendCommands
      <3> QED BY <1>2, <3>1, <3>2, <3>3
    <2>2. In(frames, "get_games") /\ Ordered(frames, {"publish_game"}, "get_games")
      <3>1. frames # <<>> /\ frames[Len(frames)].cmd = "get_games" /\ "get_games" \notin {"publish_game"}
        BY DEF Plain
      <3> HIDE DEF frames
      <3> QED BY <2>1, <3>1, OrderedByLast
    <2> HIDE DEF frames
    <2> SUFFICES ASSUME online'
                 PROVE  In(wire', "get_games") /\ Ordered(wire', {"publish_game"}, "get_games")
      BY DEF StoreInv
    <2>3. wire' = wire \o frames /\ wire \in Seq(Frames)
      BY <2>1 DEF SendAll, TypeInv, TypeOK, LinkTypeOK
    <2> QED BY <2>1, <2>2, <2>3, InConcat, OrderedBefore
  <1>4. CASE a.kind \in {"games", "dev_games"}
    <2>1. UNCHANGED link /\ store' = IF a.kind = "games" THEN a.games ELSE store
      BY <1>4 DEF OnServerMessage, RefreshAdminGames, RenderStore
    <2>2. online' = online /\ wire' = wire /\ UpToDate' = UpToDate
      BY <1>2, <2>1 DEF link, UpToDate
    <2>3. Ends(inflight, "games", store, UpToDate) => Ends(inflight', "games", store', UpToDate')
      BY <1>1, <2>1, <2>2, EndsTail
    <2>4. GamesDue => GamesDue'
      <3>1. ASSUME NEW i \in DOMAIN inflight, inflight[i].kind = "user"
            PROVE  i - 1 \in DOMAIN inflight' /\ inflight'[i - 1].kind = "user"
        <4>1. i # 1 /\ i \in Nat \ {0}
          BY <1>1, <1>4, <3>1, Cut
        <4> QED BY <1>1, <3>1, <4>1, Cut
      <3> QED BY <1>2, <2>2, <3>1 DEF GamesDue, LoginDue
    <2> QED BY <2>2, <2>3, <2>4 DEF StoreInv
  <1> QED BY <1>1, <1>3, <1>4 DEF Answer

LEMMA StoreConnected ==
    ASSUME TypeInv, Connected
    PROVE  StoreInv'
  <1> DEFINE l == <<Plain("login")>>
  <1>1. wire' = l \o pending /\ pending \in Seq(Frames) /\ l \in Seq(Frames)
    BY Requests DEF Connected, Connect, TypeInv, TypeOK, LinkTypeOK
  <1>2. In(l, "login")
    <2>1. 1 \in DOMAIN l /\ l[1].cmd = "login"
      BY DEF Plain
    <2> QED BY <2>1 DEF In
  <1> HIDE DEF l
  <1>3. In(wire', "login")
    BY <1>1, <1>2, InConcat
  <1> QED BY <1>3 DEF StoreInv, GamesDue, LoginDue

LEMMA StoreNext ==
    ASSUME TypeInv, StoreInv, [Next]_vars
    PROVE  StoreInv'
  <1>1. CASE \/ \E g \in Games : Select(g)
             \/ \E i \in Icons : Browse(i)
             \/ NewGame \/ Ask \/ Refuse
    BY <1>1, StoreStays DEF Select, Browse, NewGame, Ask, Refuse
  <1>2. CASE OpenPage
    <2> DEFINE f == Plain("get_dev_games")
    <2>1. <<f>> \in Seq(Frames) /\ SendAll(<<f>>) /\ UNCHANGED <<catalogue, inflight, store, timers>>
      BY <1>2, Requests DEF OpenPage
    <2>2. Ordered(<<f>>, {"publish_game"}, "get_games")
      BY DEF Ordered, Plain
    <2> HIDE DEF f
    <2> QED BY <2>1, <2>2, StoreSends
  <1>3. ASSUME NEW c \in Contents, PublishAdminGame(c) PROVE StoreInv'
    <2>1. <<Publication(c)>> \in Seq(Frames)
      BY Requests DEF TypeInv
    <2>2. SendAll(<<Publication(c)>>) /\ UNCHANGED <<catalogue, inflight, store>>
      BY <1>3 DEF PublishAdminGame, SendCommands
    <2>3. timers'["publish"] > 0
      <3>1. timers' = [timers EXCEPT !["publish"] = @ + 1] /\ timers \in [{"publish", "delete"} -> 0 .. MaxIssued]
        BY <1>3 DEF PublishAdminGame, TypeInv, TypeOK
      <3> QED BY <3>1, AdminAssumption
    <2> QED BY <2>1, <2>2, <2>3, StoreSends
  <1>4. CASE Confirm
    <2> DEFINE f == [Plain("delete_game") EXCEPT !.game = editing]
    <2>1. <<f>> \in Seq(Frames)
      <3>1. f \in Frames
        BY Requests DEF TypeInv, TypeOK
      <3> HIDE DEF f
      <3> QED BY <3>1
    <2>2. SendAll(<<f>>) /\ UNCHANGED <<catalogue, inflight, store>> /\ timers'["publish"] = timers["publish"]
      <3>1. SendAll(<<f>>) /\ UNCHANGED <<catalogue, inflight, store>>
        BY <1>4 DEF Confirm, SendCommands
      <3>2. timers'["publish"] = timers["publish"]
        BY <1>4 DEF Confirm, TypeInv, TypeOK
      <3> QED BY <3>1, <3>2
    <2>3. Ordered(<<f>>, {"publish_game"}, "get_games")
      BY DEF Ordered, Plain
    <2> HIDE DEF f
    <2> QED BY <2>1, <2>2, <2>3, StoreSends
  <1>5. ASSUME NEW t \in {"publish", "delete"}, Timer(t) PROVE StoreInv'
    <2>1. Refresh(t) \in Seq(Frames)
      BY Requests DEF Refresh
    <2>2. SendAll(Refresh(t)) /\ UNCHANGED <<catalogue, inflight, store>>
      BY <1>5 DEF Timer, SendCommands
    <2>3. Ordered(Refresh(t), {"publish_game"}, "get_games")
      BY DEF Ordered, Refresh, Plain
    <2>4. In(Refresh(t), "get_games") \/ timers'["publish"] = timers["publish"]
      <3>1. CASE t = "publish"
        <4>1. 2 \in DOMAIN Refresh(t) /\ Refresh(t)[2].cmd = "get_games"
          BY <3>1 DEF Refresh, Plain
        <4> QED BY <4>1 DEF In
      <3>2. CASE t = "delete"
        BY <1>5, <3>2 DEF Timer, TypeInv, TypeOK
      <3> QED BY <3>1, <3>2
    <2> QED BY <2>1, <2>2, <2>3, <2>4, StoreSends
  <1>6. CASE Disconnected
    BY <1>6 DEF Disconnected, Lose, StoreInv
  <1>7. CASE UNCHANGED vars
    BY <1>7, StoreStays DEF vars
  <1> QED BY <1>1, <1>2, <1>3, <1>4, <1>5, <1>6, <1>7, StoreConnected, StoreServed, StoreReceived DEF Next

\* The store is up to date with every connection that has nothing left to bring,
\* whatever earlier ones lost: each asks anew.
THEOREM StoreIsUpToDate == Spec => []StoreCatchesUp
  <1>1. Init => StoreInv
    BY DEF Init, LinkInit, StoreInv
  <1>2. TypeInv /\ StoreInv => StoreCatchesUp
    <2> SUFFICES ASSUME TypeInv, StoreInv, online, Quiet PROVE store \in UpToDate
      BY DEF StoreCatchesUp, UpToDate
    <2>1. ~(timers["publish"] > 0) /\ wire = <<>> /\ inflight = <<>>
      BY DEF Quiet, TypeInv, TypeOK
    <2>2. ~GamesDue /\ ~In(wire, "get_games")
      BY <2>1 DEF GamesDue, LoginDue, In
    <2>3. Ends(<<>>, "games", store, UpToDate)
      BY <2>1, <2>2 DEF StoreInv
    <2> QED BY <2>3 DEF Ends
  <1>3. TypeInv /\ StoreInv /\ [Next]_vars => StoreInv'
    BY StoreNext
  <1> QED BY <1>1, <1>2, <1>3, TypeInvAlways, PTL DEF Spec
=============================================================================
