------------------------ MODULE DownloadManagerProofs ------------------------
(* Invariants of DownloadManager for any number of games and versions, any      *)
(* package sizes, bounds and surroundings: failed writes, cancelled             *)
(* installations and restarts included.                                         *)
EXTENDS DownloadManager, TLAPS

USE DEF Row

\* Whatever runs or waits for an answer runs on behalf of a known request.
CurrentKnown ==
    hasCurrent \/ reply # None \/ watch # None \/ boxes # <<>> => current \in Request

\* The inductive invariant.  OutputFollowsReply and CurrentKnown are what the
\* type of library and of watched jobs rests on; NoDuplicateTask and
\* NoLostWakeup need each other's view of hasCurrent, hence the conjunction.
IInv ==
    /\ TypeOK
    /\ CurrentKnown
    /\ OutputFollowsReply
    /\ CurrentHasDriver
    /\ NoLostWakeup
    /\ NoDuplicateTask

-----------------------------------------------------------------------------
(* Sequences and files. *)

\* Front of a part file is a part file.
LEMMA FrontType ==
    ASSUME NEW S, NEW s \in Seq(S), s # <<>>
    PROVE  Front(s) \in Seq(S)
  BY SMT DEF Front

\* Removing a part file leaves part files.
LEMMA AfterRemoveType ==
    ASSUME TypeOK, NEW g, NEW open
    PROVE  AfterRemove(g, open) \subseteq [Games -> Seq(Chunk)]
<1>1. part \in [Games -> Seq(Chunk)]
  BY DEF TypeOK
<1>2. <<>> \in Seq(Chunk)
  OBVIOUS
<1>3. [part EXCEPT ![g] = <<>>] \in [Games -> Seq(Chunk)]
  BY <1>1, <1>2
<1> QED
  BY <1>1, <1>3 DEF AfterRemove

\* Closing m_output leaves part files, the full disk included.
LEMMA AfterCloseType ==
    ASSUME TypeOK, NEW g \in Games
    PROVE  AfterClose(g) \subseteq [Games -> Seq(Chunk)]
<1>1. part \in [Games -> Seq(Chunk)] /\ part[g] \in Seq(Chunk)
  BY DEF TypeOK
<1>2. CASE part[g] # <<>>
  <2>1. Front(part[g]) \in Seq(Chunk)
    BY <1>1, <1>2, FrontType
  <2> QED
    BY <1>1, <2>1 DEF AfterClose
<1>3. CASE part[g] = <<>>
  BY <1>1, <1>3 DEF AfterClose
<1> QED
  BY <1>2, <1>3

\* Head and Tail of a queue without duplicates: the head's game is not in the tail.
LEMMA HeadTail ==
    ASSUME TypeOK, NoDuplicateTask, queue # <<>>
    PROVE  /\ Head(queue) \in Request
           /\ Tail(queue) \in Seq(Request)
           /\ \A i, j \in DOMAIN Tail(queue) : Tail(queue)[i].game = Tail(queue)[j].game => i = j
           /\ \A i \in DOMAIN Tail(queue) : Tail(queue)[i].game # Head(queue).game
<1>1. queue \in Seq(Request) /\ Len(queue) > 0 /\ Len(queue) \in Nat
  BY DEF TypeOK
<1>2. Head(queue) = queue[1] /\ 1 \in DOMAIN queue
  BY <1>1
<1>3. /\ Tail(queue) \in Seq(Request)
      /\ DOMAIN Tail(queue) = 1 .. Len(queue) - 1
      /\ \A i \in DOMAIN Tail(queue) : i \in Nat /\ i + 1 \in DOMAIN queue /\ Tail(queue)[i] = queue[i + 1]
  BY <1>1
<1>4. \A i \in DOMAIN queue : queue[i] \in Request
  BY <1>1
<1>5. \A i, j \in DOMAIN Tail(queue) : Tail(queue)[i].game = Tail(queue)[j].game => i = j
  <2> SUFFICES ASSUME NEW i \in DOMAIN Tail(queue), NEW j \in DOMAIN Tail(queue),
                      Tail(queue)[i].game = Tail(queue)[j].game
               PROVE  i = j
    OBVIOUS
  <2>1. queue[i + 1].game = queue[j + 1].game /\ i + 1 \in DOMAIN queue /\ j + 1 \in DOMAIN queue
    BY <1>3
  <2>2. i + 1 = j + 1
    BY <2>1 DEF NoDuplicateTask
  <2> QED
    BY <2>2, <1>3
<1>6. \A i \in DOMAIN Tail(queue) : Tail(queue)[i].game # Head(queue).game
  <2> SUFFICES ASSUME NEW i \in DOMAIN Tail(queue), Tail(queue)[i].game = Head(queue).game
               PROVE  FALSE
    OBVIOUS
  <2>1. queue[i + 1].game = queue[1].game /\ i + 1 \in DOMAIN queue
    BY <1>2, <1>3
  <2>2. i + 1 = 1
    BY <2>1, <1>2 DEF NoDuplicateTask
  <2> QED
    BY <2>2, <1>3
<1> QED
  BY <1>2, <1>3, <1>4, <1>5, <1>6

-----------------------------------------------------------------------------
(* The helpers the actions share. *)

ShownType == [Games -> State \cup {None}]

\* fail() up to its box: no reply, no open file, an open box.
LEMMA FailStep ==
    ASSUME TypeOK, NEW r \in Request, NEW s \in ShownType, NEW frame \in Frame,
           Fail(r, s, frame)
    PROVE  /\ state' = "Failed" /\ reply' = None /\ output' = None
           /\ shown' \in ShownType
           /\ boxes' \in Seq(Frame) /\ boxes' # <<>>
<1>1. boxes \in Seq(Frame) /\ boxes' = <<frame>> \o boxes
  BY DEF TypeOK, Fail
<1>2. boxes' \in Seq(Frame) /\ Len(boxes') = 1 + Len(boxes)
  BY <1>1
<1>3. boxes' # <<>>
  BY <1>1, <1>2
<1>4. shown' \in ShownType
  BY DEF Fail, ShownType, State
<1> QED
  BY <1>2, <1>3, <1>4 DEF Fail

\* startDownload(): a live reply on the task's own part file, or an open box.
LEMMA StartDownloadStep ==
    ASSUME TypeOK, part' \in [Games -> Seq(Chunk)],
           NEW r \in Request, NEW s \in ShownType, StartDownload(r, s)
    PROVE  /\ output' = IF reply' = None THEN None ELSE r.game
           /\ reply' \in Reply \cup {None}
           /\ shown' \in ShownType
           /\ boxes' \in Seq(Frame)
           /\ \/ state' = "Downloading" /\ reply' # None
              \/ state' = "Failed" /\ boxes' # <<>>
<1>1. CASE Fail(r, s, "fail")
  <2>1. "fail" \in Frame
    BY DEF Frame
  <2> QED
    BY <1>1, <2>1, FailStep
<1>2. CASE ~Fail(r, s, "fail")
  <2>1. PICK status \in Statuses(Len(part'[r.game]), served[r.game]) :
               reply' = [status |-> status, version |-> served[r.game],
                         next |-> IF status = "206" THEN Len(part'[r.game]) + 1 ELSE 1,
                         restart |-> status = "200" /\ part'[r.game] # <<>>]
    BY <1>2 DEF StartDownload
  <2>2. status \in {"200", "206", "error"}
    BY DEF Statuses
  <2>3. served[r.game] \in Versions
    BY DEF TypeOK, Request
  <2>4. (IF status = "206" THEN Len(part'[r.game]) + 1 ELSE 1) \in Nat
    BY DEF Request
  <2>5. reply' \in Reply
    BY <2>1, <2>2, <2>3, <2>4 DEF Reply
  <2> QED
    BY <1>2, <2>5, NamesAssumption DEF StartDownload, TypeOK
<1> QED
  BY <1>1, <1>2

\* startNext(): the oldest request becomes the current one and is running or
\* failing, or nothing waits and everything is as the caller left it.
LEMMA StartNextStep ==
    ASSUME TypeOK, NoDuplicateTask, part' \in [Games -> Seq(Chunk)],
           NEW s \in ShownType, NEW rp \in Reply \cup {None}, NEW st \in State, NEW out,
           out = IF rp = None THEN None ELSE current.game,
           rp # None => current \in Request,
           StartNext(s, rp, out, st)
    PROVE  /\ queue' \in Seq(Request) /\ hasCurrent' \in BOOLEAN /\ state' \in State
           /\ current' \in Request \cup {None}
           /\ reply' \in Reply \cup {None} /\ output' \in Games \cup {None}
           /\ shown' \in ShownType /\ boxes' \in Seq(Frame)
           /\ OutputFollowsReply' /\ CurrentHasDriver' /\ NoDuplicateTask'
           /\ queue' # <<>> => hasCurrent'
           /\ \/ current' \in Request
              \/ current' = current /\ reply' = rp /\ boxes' = boxes /\ ~hasCurrent'
<1>1. CASE queue = <<>>
  <2>1. /\ hasCurrent' = FALSE /\ reply' = rp /\ output' = out /\ state' = st /\ shown' = s
        /\ queue' = queue /\ current' = current /\ boxes' = boxes
    BY <1>1 DEF StartNext
  <2>2. DOMAIN queue' = {}
    BY <1>1, <2>1
  <2>3. NoDuplicateTask'
    BY <2>1, <2>2 DEF NoDuplicateTask
  <2>4. out \in Games \cup {None}
    BY DEF Request
  <2> QED
    BY <1>1, <2>1, <2>3, <2>4 DEF TypeOK, OutputFollowsReply, CurrentHasDriver
<1>2. CASE queue # <<>>
  <2>1. /\ hasCurrent' = TRUE /\ current' = Head(queue) /\ queue' = Tail(queue)
        /\ StartDownload(Head(queue), s)
    BY <1>2 DEF StartNext
  <2>2. Head(queue) \in Request /\ Tail(queue) \in Seq(Request)
    BY <1>2, HeadTail
  <2>3. NoDuplicateTask'
    BY <1>2, <2>1, HeadTail DEF NoDuplicateTask
  <2>4. /\ output' = IF reply' = None THEN None ELSE Head(queue).game
        /\ reply' \in Reply \cup {None}
        /\ shown' \in ShownType
        /\ boxes' \in Seq(Frame)
        /\ \/ state' = "Downloading" /\ reply' # None
           \/ state' = "Failed" /\ boxes' # <<>>
    BY <2>1, <2>2, StartDownloadStep
  <2>5. Head(queue).game \in Games
    BY <2>2 DEF Request
  <2>6. OutputFollowsReply' /\ CurrentHasDriver'
    BY <2>1, <2>4 DEF OutputFollowsReply, CurrentHasDriver
  <2> QED
    BY <2>1, <2>2, <2>3, <2>4, <2>5, <2>6 DEF State
<1> QED
  BY <1>1, <1>2
-----------------------------------------------------------------------------
(* The invariant is inductive. *)

\* Every start of the launcher satisfies the invariant.
LEMMA InitIInv == Init => IInv
<1> SUFFICES ASSUME Init PROVE IInv
  OBVIOUS
<1>1. <<>> \in Seq(Chunk) /\ <<>> \in Seq(Request) /\ <<>> \in Seq(Frame)
  OBVIOUS
<1>2. part \in [Games -> Seq(Chunk)] /\ disk \in [Games -> Seq(Chunk)]
  BY <1>1 DEF Init
<1>3. /\ library \in [Games -> Versions \cup {None}]
      /\ shown \in [Games -> State \cup {None}]
  BY DEF Init
<1>4. TypeOK
  BY <1>1, <1>2, <1>3 DEF Init, TypeOK, State
<1> QED
  BY <1>4 DEF Init, IInv, CurrentKnown, OutputFollowsReply, CurrentHasDriver, NoLostWakeup,
              NoDuplicateTask

\* enqueue() keeps the invariant.
LEMMA EnqueueStep ==
    ASSUME IInv, NEW r \in Request, Enqueue(r)
    PROVE  IInv'
<1>1. /\ queue' = Append(queue, r)
      /\ UNCHANGED <<hasCurrent, current, state, reply, output, watch, boxes>>
      /\ posted' = IF hasCurrent THEN posted ELSE posted + 1
  BY DEF Enqueue, task, jobs
<1>2. queue \in Seq(Request) /\ posted \in Nat
  BY DEF IInv, TypeOK
<1>3. /\ queue' \in Seq(Request)
      /\ DOMAIN queue' = 1 .. Len(queue) + 1
      /\ DOMAIN queue = 1 .. Len(queue)
      /\ Len(queue) \in Nat
      /\ queue'[Len(queue) + 1] = r
      /\ \A i \in DOMAIN queue : queue'[i] = queue[i]
  BY <1>1, <1>2
<1>4. TypeOK'
  <2>1. posted' \in Nat
    BY <1>1, <1>2
  <2>2. shown' \in [Games -> State \cup {None}]
    BY DEF IInv, TypeOK, Enqueue, State
  <2> QED
    BY <1>1, <1>3, <2>1, <2>2 DEF IInv, TypeOK, Enqueue, files, jobs
<1>5. NoDuplicateTask'
  <2>1. ASSUME NEW i \in DOMAIN queue', NEW j \in DOMAIN queue', queue'[i].game = queue'[j].game
        PROVE  i = j
    <3>1. CASE i \in DOMAIN queue /\ j \in DOMAIN queue
      BY <2>1, <3>1, <1>3 DEF IInv, NoDuplicateTask
    <3>2. CASE i = Len(queue) + 1 /\ j \in DOMAIN queue
      BY <2>1, <3>2, <1>3 DEF Enqueue, HasTask
    <3>3. CASE j = Len(queue) + 1 /\ i \in DOMAIN queue
      BY <2>1, <3>3, <1>3 DEF Enqueue, HasTask
    <3> QED
      BY <2>1, <3>1, <3>2, <3>3, <1>3
  <2>2. ASSUME hasCurrent', NEW i \in DOMAIN queue'
        PROVE  queue'[i].game # current'.game
    <3>1. CASE i \in DOMAIN queue
      BY <2>2, <3>1, <1>1, <1>3 DEF IInv, NoDuplicateTask
    <3>2. CASE i = Len(queue) + 1
      BY <2>2, <3>2, <1>1, <1>3 DEF Enqueue, HasTask
    <3> QED
      BY <2>2, <3>1, <3>2, <1>3
  <2> QED
    BY <2>1, <2>2 DEF NoDuplicateTask
<1>6. CurrentKnown' /\ OutputFollowsReply' /\ CurrentHasDriver'
  BY <1>1 DEF IInv, CurrentKnown, OutputFollowsReply, CurrentHasDriver
<1>7. NoLostWakeup'
  BY <1>1, <1>2 DEF NoLostWakeup
<1> QED
  BY <1>4, <1>5, <1>6, <1>7 DEF IInv

\* A step that ends in startNext() keeps the invariant, whatever it does to the
\* files and the watched job before.
LEMMA StartNextKeeps ==
    ASSUME IInv,
           NEW s \in ShownType, NEW rp \in Reply \cup {None}, NEW st \in State, NEW out,
           out = IF rp = None THEN None ELSE current.game,
           rp \in {None, reply},
           StartNext(s, rp, out, st),
           served' = served, disk' = disk, orphans' = orphans,
           part' \in [Games -> Seq(Chunk)],
           library' \in [Games -> Versions \cup {None}],
           watch' \in {None, watch},
           posted' \in Nat
    PROVE  IInv'
<1>1. TypeOK /\ NoDuplicateTask /\ CurrentKnown
  BY DEF IInv
<1>2. rp # None => current \in Request
  BY <1>1 DEF CurrentKnown
<1>3. /\ queue' \in Seq(Request) /\ hasCurrent' \in BOOLEAN /\ state' \in State
      /\ current' \in Request \cup {None}
      /\ reply' \in Reply \cup {None} /\ output' \in Games \cup {None}
      /\ shown' \in ShownType /\ boxes' \in Seq(Frame)
      /\ OutputFollowsReply' /\ CurrentHasDriver' /\ NoDuplicateTask'
      /\ queue' # <<>> => hasCurrent'
      /\ \/ current' \in Request
         \/ current' = current /\ reply' = rp /\ boxes' = boxes /\ ~hasCurrent'
  BY <1>1, <1>2, StartNextStep
<1>4. TypeOK'
  BY <1>1, <1>3 DEF TypeOK, ShownType
<1>5. CurrentKnown'
  BY <1>1, <1>3 DEF CurrentKnown
<1>6. NoLostWakeup'
  BY <1>3 DEF NoLostWakeup
<1> QED
  BY <1>3, <1>4, <1>5, <1>6 DEF IInv
\* A step that ends in fail() keeps the invariant.
LEMMA FailKeeps ==
    ASSUME IInv, current \in Request, NEW frame \in Frame,
           Fail(current, shown, frame),
           UNCHANGED <<served, disk, orphans, library, posted, queue, hasCurrent, current>>,
           part' \in [Games -> Seq(Chunk)],
           watch' \in {None, watch}
    PROVE  IInv'
<1>1. TypeOK /\ shown \in ShownType
  BY DEF IInv, TypeOK, ShownType
<1>2. /\ state' = "Failed" /\ reply' = None /\ output' = None
      /\ shown' \in ShownType
      /\ boxes' \in Seq(Frame) /\ boxes' # <<>>
  BY <1>1, FailStep
<1>3. TypeOK'
  BY <1>1, <1>2 DEF TypeOK, ShownType, State
<1> QED
  BY <1>2, <1>3 DEF IInv, CurrentKnown, OutputFollowsReply, CurrentHasDriver, NoLostWakeup,
                    NoDuplicateTask

\* A live reply, its task and its open file.
LEMMA LiveReply ==
    ASSUME IInv, reply # None
    PROVE  /\ current \in Request /\ reply \in Reply
           /\ output = current.game /\ output \in Games
           /\ Kept \in Seq(Chunk) /\ NextChunk \in Chunk
<1>1. current \in Request /\ reply \in Reply /\ output = current.game
  BY DEF IInv, CurrentKnown, OutputFollowsReply, TypeOK
<1>2. output \in Games
  BY <1>1 DEF Request
<1>3. <<>> \in Seq(Chunk)
  OBVIOUS
<1>4. Kept \in Seq(Chunk)
  BY <1>2, <1>3 DEF IInv, TypeOK, Kept
<1>5. NextChunk \in Chunk
  BY <1>1 DEF NextChunk, Reply, Chunk
<1> QED
  BY <1>1, <1>2, <1>4, <1>5

\* Every step keeps the invariant.
LEMMA NextIInv == IInv /\ [Next]_vars => IInv'
<1> SUFFICES ASSUME IInv, [Next]_vars PROVE IInv'
  OBVIOUS
<1>t. /\ TypeOK /\ shown \in ShownType /\ part \in [Games -> Seq(Chunk)]
      /\ library \in [Games -> Versions \cup {None}] /\ posted \in Nat
  BY DEF IInv, TypeOK, ShownType
<1>c. hasCurrent \/ reply # None \/ watch # None \/ boxes # <<>> => current \in Request
  BY DEF IInv, CurrentKnown
<1>1. ASSUME NEW g \in Games, NEW v \in Versions, Publish(g, v)
      PROVE  IInv'
  <2>1. TypeOK'
    BY <1>1 DEF IInv, TypeOK, Publish, task, jobs
  <2> QED
    BY <1>1, <2>1 DEF IInv, Publish, task, jobs, CurrentKnown, OutputFollowsReply,
                      CurrentHasDriver, NoLostWakeup, NoDuplicateTask
<1>2. ASSUME NEW r \in Request, Enqueue(r)
      PROVE  IInv'
  BY <1>2, EnqueueStep
<1>3. CASE Pause
  <2>1. part' \in [Games -> Seq(Chunk)]
    BY <1>3, <1>t, LiveReply, AfterCloseType DEF Pause
  <2>2. shown' \in ShownType
    BY <1>3, <1>t DEF Pause, ShownType, State
  <2>3. TypeOK'
    BY <1>3, <1>t, <2>1, <2>2 DEF TypeOK, Pause, jobs, State, ShownType
  <2> QED
    BY <1>3, <1>c, <2>3 DEF IInv, Pause, jobs, CurrentKnown, OutputFollowsReply,
                      CurrentHasDriver, NoLostWakeup, NoDuplicateTask
<1>4. CASE Resume
  <2>1. /\ current \in Request /\ StartDownload(current, shown)
        /\ part' \in [Games -> Seq(Chunk)]
    BY <1>4, <1>c, <1>t DEF Resume
  <2>2. /\ output' = IF reply' = None THEN None ELSE current.game
        /\ reply' \in Reply \cup {None}
        /\ shown' \in ShownType
        /\ boxes' \in Seq(Frame)
        /\ \/ state' = "Downloading" /\ reply' # None
           \/ state' = "Failed" /\ boxes' # <<>>
    BY <1>t, <2>1, StartDownloadStep
  <2>3. TypeOK'
    BY <1>4, <1>t, <2>1, <2>2 DEF TypeOK, Resume, jobs, State, ShownType, Request
  <2> QED
    BY <1>4, <2>1, <2>2, <2>3 DEF IInv, Resume, jobs, CurrentKnown, OutputFollowsReply,
                      CurrentHasDriver, NoLostWakeup, NoDuplicateTask
<1>5. CASE Cancel
  <2>1. Row(shown, current.game, "Cancelled") \in ShownType
    BY <1>t DEF ShownType, State
  <2>2. part' \in [Games -> Seq(Chunk)]
    BY <1>5, <1>t, AfterRemoveType DEF Cancel
  <2>3. state \in State
    BY <1>t DEF TypeOK
  <2> QED
    BY <1>5, <1>t, <2>1, <2>2, <2>3, StartNextKeeps DEF Cancel, jobs
<1>6. CASE RunStartNext
  <2>1. posted' \in Nat
    BY <1>6, <1>t DEF RunStartNext
  <2>2. CASE hasCurrent /\ UNCHANGED <<task, queue, shown, boxes>>
    <3>1. TypeOK'
      BY <1>6, <1>t, <2>1, <2>2 DEF TypeOK, RunStartNext, files, jobs, task
    <3> QED
      BY <1>6, <2>2, <3>1 DEF IInv, RunStartNext, files, jobs, task, CurrentKnown,
            OutputFollowsReply, CurrentHasDriver, NoLostWakeup, NoDuplicateTask
  <2>3. CASE ~hasCurrent /\ StartNext(shown, reply, output, state)
    <3>1. /\ reply \in Reply \cup {None} /\ state \in State
          /\ output = IF reply = None THEN None ELSE current.game
      BY <1>t DEF TypeOK, IInv, OutputFollowsReply
    <3> QED
      BY <1>6, <1>t, <2>1, <2>3, <3>1, StartNextKeeps DEF RunStartNext, files, jobs
  <2> QED
    BY <1>6, <2>2, <2>3 DEF RunStartNext
<1>7. CASE OnReadyRead
  <2>1. /\ current \in Request /\ reply \in Reply /\ reply # None
        /\ output \in Games /\ Append(Kept, NextChunk) \in Seq(Chunk)
    BY <1>7, LiveReply DEF OnReadyRead
  <2>2. part' \in [Games -> Seq(Chunk)]
    BY <1>7, <1>t, <2>1 DEF OnReadyRead
  <2>3. reply' \in Reply /\ reply' # None
    <3>1. reply' = [reply EXCEPT !.next = reply.next + 1, !.restart = FALSE]
      BY <1>7 DEF OnReadyRead
    <3>2. reply.next + 1 \in Nat
      BY <2>1 DEF Reply
    <3>3. reply' \in Reply
      BY <2>1, <3>1, <3>2 DEF Reply
    <3> QED
      BY <3>3, NamesAssumption
  <2>4. shown' \in ShownType
    <3>1. PICK d \in {shown[current.game], "Downloading"} :
                 shown' = Row(shown, current.game, d)
      BY <1>7 DEF OnReadyRead
    <3>2. d \in State \cup {None}
      BY <1>t, <2>1 DEF ShownType, Request, State
    <3> QED
      BY <1>t, <3>1, <3>2 DEF ShownType
  <2>5. TypeOK'
    BY <1>7, <1>t, <2>2, <2>3, <2>4 DEF TypeOK, OnReadyRead, jobs, ShownType
  <2> QED
    BY <1>7, <2>1, <2>3, <2>5 DEF IInv, OnReadyRead, jobs, CurrentKnown, OutputFollowsReply,
                      CurrentHasDriver, NoLostWakeup, NoDuplicateTask
<1>8. CASE OnWriteError
  <2>1. current \in Request /\ part' \in [Games -> Seq(Chunk)]
    BY <1>8, <1>t, LiveReply DEF OnWriteError
  <2>2. "failAgain" \in Frame
    BY DEF Frame
  <2> QED
    BY <1>8, <2>1, <2>2, FailKeeps DEF OnWriteError, jobs
<1>9. CASE FinishVerified
  <2>1. current \in Request /\ part' \in [Games -> Seq(Chunk)]
    BY <1>9, <1>t, LiveReply, AfterCloseType DEF FinishVerified
  <2>2. shown' \in ShownType
    BY <1>9, <1>t DEF FinishVerified, ShownType, State
  <2>3. watch' \in Job
    BY <1>9, <2>1 DEF FinishVerified, Job
  <2>4. orphans' \subseteq Request
    BY <1>9, <1>t DEF FinishVerified, TypeOK, Job
  <2>5. TypeOK'
    BY <1>9, <1>t, <2>1, <2>2, <2>3, <2>4 DEF TypeOK, FinishVerified, ShownType, State
  <2> QED
    BY <1>9, <2>1, <2>3, <2>5, NamesAssumption
       DEF IInv, FinishVerified, CurrentKnown, OutputFollowsReply, CurrentHasDriver, NoLostWakeup,
           NoDuplicateTask
<1>10. CASE FinishRefused
  <2>1. current \in Request /\ part' \in [Games -> Seq(Chunk)]
    BY <1>10, <1>t, LiveReply, AfterRemoveType DEF FinishRefused
  <2>2. "fail" \in Frame
    BY DEF Frame
  <2> QED
    BY <1>10, <2>1, <2>2, FailKeeps DEF FinishRefused, jobs
<1>11. CASE FinishError
  <2>1. current \in Request /\ part' \in [Games -> Seq(Chunk)]
    BY <1>11, <1>t, LiveReply, AfterCloseType DEF FinishError
  <2>2. "fail" \in Frame
    BY DEF Frame
  <2> QED
    BY <1>11, <2>1, <2>2, FailKeeps DEF FinishError, jobs
<1>12. CASE OnExtractionFinished
  <2>1. current \in Request /\ watch' = None
    BY <1>12, <1>c DEF OnExtractionFinished
  <2>2. CASE /\ Fail(current, shown, "fail")
             /\ UNCHANGED <<part, library, queue, hasCurrent, current>>
    <3>1. "fail" \in Frame
      BY DEF Frame
    <3> QED
      BY <1>12, <1>t, <2>1, <2>2, <3>1, FailKeeps DEF OnExtractionFinished
  <2>3. CASE /\ part' \in AfterRemove(current.game, output)
             /\ Record(current)
             /\ StartNext(Row(shown, current.game, "Completed"), reply, output, "Completed")
    <3>1. Row(shown, current.game, "Completed") \in ShownType
      BY <1>t DEF ShownType, State
    <3>2. part' \in [Games -> Seq(Chunk)]
      BY <1>t, <2>3, AfterRemoveType
    <3>3. library' \in [Games -> Versions \cup {None}]
      BY <1>t, <2>1, <2>3 DEF Record, Request
    <3>4. /\ reply \in Reply \cup {None} /\ "Completed" \in State
          /\ output = IF reply = None THEN None ELSE current.game
      BY <1>t DEF TypeOK, IInv, OutputFollowsReply, State
    <3> QED
      BY <1>12, <1>t, <2>1, <2>3, <3>1, <3>2, <3>3, <3>4, StartNextKeeps DEF OnExtractionFinished
  <2> QED
    BY <1>12, <2>2, <2>3 DEF OnExtractionFinished
<1>13. CASE CloseBox
  <2>1. boxes \in Seq(Frame) /\ boxes # <<>> /\ current \in Request
    BY <1>13, <1>t, <1>c DEF CloseBox, TypeOK
  <2>2. Tail(boxes) \in Seq(Frame) /\ "fail" \in Frame
    BY <2>1 DEF Frame
  <2>3. <<"fail">> \o Tail(boxes) \in Seq(Frame)
    BY <2>2
  <2>4. boxes' \in Seq(Frame) /\ posted' \in Nat /\ posted' > 0 /\ hasCurrent' = FALSE
    <3>1. boxes' = Tail(boxes) \/ boxes' = <<"fail">> \o Tail(boxes)
      BY <1>13 DEF CloseBox
    <3>2. posted' = posted + 1 /\ hasCurrent' = FALSE
      BY <1>13 DEF CloseBox
    <3>3. boxes' \in Seq(Frame)
      BY <2>2, <2>3, <3>1
    <3>4. posted' \in Nat /\ posted' > 0
      BY <1>t, <3>2
    <3> QED
      BY <3>2, <3>3, <3>4
  <2>5. shown' \in ShownType /\ state' \in State
    BY <1>13, <1>t DEF CloseBox, ShownType, State, TypeOK
  <2>6. TypeOK'
    BY <1>13, <1>t, <2>4, <2>5 DEF TypeOK, CloseBox, files, jobs, ShownType
  <2>7. OutputFollowsReply'
    BY <1>13 DEF IInv, CloseBox, OutputFollowsReply
  <2> QED
    BY <1>13, <2>1, <2>4, <2>6, <2>7 DEF IInv, CloseBox, files, jobs, CurrentKnown,
                      CurrentHasDriver, NoLostWakeup, NoDuplicateTask
<1>14. CASE Extract
  <2>1. watch \in Job /\ watch # None
    BY <1>14, <1>t DEF Extract, TypeOK
  <2>2. PICK result \in {"ok", "error"} :
               Extraction(watch.req, result) /\ watch' = [watch EXCEPT !.result = result]
    BY <1>14 DEF Extract
  <2>3. watch' \in Job
    BY <2>1, <2>2 DEF Job
  <2>4. disk' \in [Games -> Seq(Chunk)]
    BY <1>t, <2>1, <2>2 DEF Extraction, TypeOK, Job, Request
  <2>5. TypeOK'
    BY <1>14, <1>t, <2>3, <2>4 DEF TypeOK, Extract, task
  <2> QED
    BY <1>14, <2>1, <2>3, <2>5, NamesAssumption
       DEF IInv, Extract, task, CurrentKnown, OutputFollowsReply, CurrentHasDriver, NoLostWakeup,
           NoDuplicateTask
<1>15. ASSUME NEW r \in Request, OrphanExtract(r)
       PROVE  IInv'
  <2>1. PICK result \in {"ok", "error"} : Extraction(r, result)
    BY <1>15 DEF OrphanExtract
  <2>2. disk' \in [Games -> Seq(Chunk)]
    BY <1>t, <2>1 DEF Extraction, TypeOK, Request
  <2>3. TypeOK'
    BY <1>15, <1>t, <2>2 DEF TypeOK, OrphanExtract, task
  <2> QED
    BY <1>15, <2>3 DEF IInv, OrphanExtract, task, CurrentKnown, OutputFollowsReply,
                      CurrentHasDriver, NoLostWakeup, NoDuplicateTask
<1>16. CASE Restart
  <2>1. part' \in [Games -> Seq(Chunk)]
    <3>1. CASE output # None /\ part[output] # <<>>
      <4>1. output \in Games /\ part[output] \in Seq(Chunk)
        BY <1>t, <3>1 DEF TypeOK
      <4>2. Front(part[output]) \in Seq(Chunk)
        BY <3>1, <4>1, FrontType
      <4> QED
        BY <1>16, <1>t, <3>1, <4>2 DEF Restart
    <3> QED
      BY <1>16, <1>t, <3>1 DEF Restart
  <2>2. shown' \in ShownType
    BY <1>16 DEF Restart, ShownType
  <2>3. orphans' \subseteq Request
    BY <1>16, <1>t DEF Restart, TypeOK, Job
  <2>4. <<>> \in Seq(Request) /\ <<>> \in Seq(Frame)
    OBVIOUS
  <2>5. TypeOK'
    BY <1>16, <1>t, <2>1, <2>2, <2>3, <2>4 DEF TypeOK, Restart, ShownType, State
  <2> QED
    BY <1>16, <2>5 DEF IInv, Restart, CurrentKnown, OutputFollowsReply, CurrentHasDriver,
                      NoLostWakeup, NoDuplicateTask
<1>17. CASE UNCHANGED vars
  <2>1. TypeOK'
    BY <1>17, <1>t DEF TypeOK, vars
  <2> QED
    BY <1>17, <2>1 DEF IInv, vars, CurrentKnown, OutputFollowsReply, CurrentHasDriver,
                      NoLostWakeup, NoDuplicateTask
<1> QED
  BY <1>1, <1>2, <1>3, <1>4, <1>5, <1>6, <1>7, <1>8, <1>9, <1>10, <1>11, <1>12, <1>13, <1>14,
     <1>15, <1>16, <1>17 DEF Next

-----------------------------------------------------------------------------
(* The theorems. *)

\* The inductive invariant holds in every reachable state.
THEOREM AlwaysIInv == Spec => []IInv
<1>1. Init => IInv
  BY InitIInv
<1>2. IInv /\ [Next]_vars => IInv'
  BY NextIInv
<1> QED
  BY <1>1, <1>2, PTL DEF Spec

\* The variables keep their types: in particular the library only ever records
\* versions of known requests, and a finished job always has a task to speak of.
THEOREM TypeCorrect == Spec => []TypeOK
<1>1. IInv => TypeOK
  BY DEF IInv
<1> QED
  BY <1>1, AlwaysIInv, PTL

\* A waiting request is never forgotten (enqueue, fail, startNext).
THEOREM NeverForgets == Spec => []NoLostWakeup
<1>1. IInv => NoLostWakeup
  BY DEF IInv
<1> QED
  BY <1>1, AlwaysIInv, PTL

\* The current task can always be ended or resumed by something that is going on.
THEOREM NeverStuck == Spec => []CurrentHasDriver
<1>1. IInv => CurrentHasDriver
  BY DEF IInv
<1> QED
  BY <1>1, AlwaysIInv, PTL

\* What a reply delivers goes to the part file of its own task.
THEOREM WritesOwnFile == Spec => []OutputFollowsReply
<1>1. IInv => OutputFollowsReply
  BY DEF IInv
<1> QED
  BY <1>1, AlwaysIInv, PTL

\* No game is downloaded twice at once.
THEOREM OneTaskPerGame == Spec => []NoDuplicateTask
<1>1. IInv => NoDuplicateTask
  BY DEF IInv
<1> QED
  BY <1>1, AlwaysIInv, PTL

-----------------------------------------------------------------------------
(* Calm surroundings: every package has a hash, no write fails, no task is      *)
(* cancelled while it installs, and the launcher is not ended.  Refusals, error *)
(* pages and packages that change on the server remain.                         *)

Calm == Hashed = Versions /\ Env \cap {"write_error", "cancel_installing", "quit"} = {}

\* Jobs, replies and boxes are the current task's, a job has its verified package,
\* and the row of a task that has failed says so.
OnTask ==
    /\ watch # None => /\ hasCurrent /\ state = "Installing"
                       /\ watch.req = current
                       /\ part[current.game] = Package(current.version)
    /\ orphans = {}
    /\ reply # None => hasCurrent /\ state = "Downloading"
    /\ boxes # <<>> => hasCurrent /\ state = "Failed" /\ boxes = <<"fail">>
    /\ hasCurrent /\ state = "Failed" => shown[current.game] \notin Active
    /\ ActiveRowsAreOwned

Placed == watch # None /\ watch.result = "ok" => disk[watch.req.game] = Package(watch.req.version)

Installed == Placed /\ RecordedIsInstalled /\ OnlyWholePackagesInstalled

CalmInv == IInv /\ OnTask /\ Installed

\* What a task that starts leaves: a live reply, or one box and its row.
LEMMA StartDownloadCalm ==
    ASSUME TypeOK, boxes = <<>>, NEW r \in Request, NEW s \in ShownType, StartDownload(r, s)
    PROVE  \/ state' = "Downloading" /\ shown' = s /\ boxes' = <<>>
           \/ /\ state' = "Failed" /\ reply' = None /\ boxes' = <<"fail">>
              /\ shown' = [s EXCEPT ![r.game] = "Failed"]
<1>1. CASE Fail(r, s, "fail")
  <2>1. <<"fail">> \o <<>> = <<"fail">>
    OBVIOUS
  <2> QED
    BY <1>1, <2>1 DEF Fail
<1>2. CASE ~Fail(r, s, "fail")
  BY <1>2 DEF StartDownload
<1> QED
  BY <1>1, <1>2

\* Every active row but that of the task that ends belongs to one that waits.
RowsWait(s) == \A g \in Games : s[g] \in Active => \E i \in DOMAIN queue : queue[i].game = g

\* startNext() after the end of a task.
LEMMA StartNextCalm ==
    ASSUME CalmInv, boxes = <<>>, NEW s \in ShownType, RowsWait(s), NEW st \in State,
           StartNext(s, None, None, st),
           watch' = None, orphans' = {}
    PROVE  OnTask' /\ (hasCurrent' => state' \in {"Downloading", "Failed"})
<1>t. TypeOK /\ NoDuplicateTask
  BY DEF CalmInv, IInv
<1>1. CASE queue = <<>>
  <2>1. hasCurrent' = FALSE /\ reply' = None /\ shown' = s /\ boxes' = <<>>
    BY <1>1 DEF StartNext
  <2>2. \A g \in Games : s[g] \notin Active
    BY <1>1 DEF RowsWait
  <2> QED
    BY <2>1, <2>2 DEF OnTask, ActiveRowsAreOwned
<1>2. CASE queue # <<>>
  <2>1. /\ hasCurrent' = TRUE /\ current' = Head(queue) /\ queue' = Tail(queue)
        /\ StartDownload(Head(queue), s)
    BY <1>2 DEF StartNext
  <2>2. Head(queue) \in Request /\ Head(queue).game \in Games
    BY <1>t, <1>2, HeadTail DEF Request
  <2>3. \A i \in DOMAIN queue : queue[i] = Head(queue) \/ \E j \in DOMAIN Tail(queue) : Tail(queue)[j] = queue[i]
    <3>1. queue \in Seq(Request)
      BY <1>t DEF TypeOK
    <3>2. ASSUME NEW i \in DOMAIN queue, i # 1
          PROVE  i - 1 \in DOMAIN Tail(queue) /\ Tail(queue)[i - 1] = queue[i]
      BY <1>2, <3>1, <3>2
    <3>3. Head(queue) = queue[1]
      BY <1>2, <3>1
    <3> QED
      BY <3>2, <3>3
  <2>4. \/ state' = "Downloading" /\ shown' = s /\ boxes' = <<>>
        \/ /\ state' = "Failed" /\ reply' = None /\ boxes' = <<"fail">>
           /\ shown' = [s EXCEPT ![Head(queue).game] = "Failed"]
    BY <1>t, <2>1, <2>2, StartDownloadCalm
  <2>5. ASSUME NEW g \in Games, shown'[g] \in Active
        PROVE  HasTask(g)'
    <3>1. s[g] \in Active
      BY <2>2, <2>4, <2>5 DEF ShownType, Active
    <3>2. PICK i \in DOMAIN queue : queue[i].game = g
      BY <3>1 DEF RowsWait
    <3> QED
      BY <2>1, <2>3, <3>2 DEF HasTask
  <2>6. state' = "Failed" => shown'[current'.game] \notin Active
    BY <2>1, <2>2, <2>4 DEF ShownType, Active
  <2> QED
    BY <2>1, <2>4, <2>5, <2>6 DEF OnTask, ActiveRowsAreOwned
<1> QED
  BY <1>1, <1>2

\* fail() of the current task.
LEMMA FailCalm ==
    ASSUME CalmInv, boxes = <<>>, hasCurrent, current \in Request, Fail(current, shown, "fail"),
           watch' = None, orphans' = {}, UNCHANGED <<queue, hasCurrent, current>>
    PROVE  OnTask' /\ state' = "Failed"
<1>t. shown \in ShownType /\ current.game \in Games
  BY DEF CalmInv, IInv, TypeOK, ShownType, Request
<1>1. /\ state' = "Failed" /\ reply' = None /\ shown' = [shown EXCEPT ![current.game] = "Failed"]
      /\ boxes' = <<"fail">>
  <2>1. <<"fail">> \o <<>> = <<"fail">>
    OBVIOUS
  <2> QED
    BY <2>1 DEF Fail
<1>2. shown'[current'.game] \notin Active
  BY <1>t, <1>1 DEF ShownType, Active
<1>3. ActiveRowsAreOwned'
  BY <1>t, <1>1 DEF CalmInv, OnTask, ActiveRowsAreOwned, HasTask, ShownType, Active
<1> QED
  BY <1>1, <1>2, <1>3 DEF OnTask

\* Jobs, replies, boxes and rows stay the current task's.
LEMMA OnTaskNext ==
    ASSUME Calm, CalmInv, [Next]_vars
    PROVE  OnTask'
<1> USE DEF CalmInv
<1>t. /\ TypeOK /\ shown \in ShownType /\ NoDuplicateTask /\ CurrentKnown /\ OutputFollowsReply
      /\ watch # None \/ reply # None \/ hasCurrent => current \in Request /\ current.game \in Games
      /\ ~hasCurrent => watch = None /\ reply = None /\ boxes = <<>> /\ output = None
  BY DEF IInv, TypeOK, ShownType, CurrentKnown, Request, OnTask, OutputFollowsReply
<1>e. "write_error" \notin Env /\ "cancel_installing" \notin Env /\ "quit" \notin Env
  BY DEF Calm
<1>w. ASSUME hasCurrent, boxes = <<>>, NEW st \in {"Cancelled", "Completed"}
      PROVE  /\ [shown EXCEPT ![current.game] = st] \in ShownType
             /\ RowsWait([shown EXCEPT ![current.game] = st])
  BY <1>t, <1>w DEF ShownType, State, RowsWait, OnTask, ActiveRowsAreOwned, HasTask, Active
<1>1. CASE \/ \E g \in Games, v \in Versions : Publish(g, v)
           \/ UNCHANGED vars
  <2>1. UNCHANGED <<watch, orphans, reply, boxes, hasCurrent, current, state, part, shown, queue>>
    BY <1>1 DEF Publish, task, jobs, vars
  <2> QED
    BY <2>1 DEF OnTask, ActiveRowsAreOwned, HasTask
<1>2. ASSUME NEW r \in Request, Enqueue(r) PROVE OnTask'
  <2>1. /\ UNCHANGED <<watch, orphans, reply, boxes, hasCurrent, current, state, part>>
        /\ queue' = Append(queue, r) /\ shown' = [shown EXCEPT ![r.game] = "Queued"]
        /\ hasCurrent => current.game # r.game
    BY <1>2 DEF Enqueue, task, jobs, files, HasTask
  <2>2. /\ \A i \in DOMAIN queue : i \in DOMAIN queue' /\ queue'[i] = queue[i]
        /\ Len(queue) + 1 \in DOMAIN queue' /\ queue'[Len(queue) + 1] = r
    <3>1. queue \in Seq(Request)
      BY <1>t DEF TypeOK
    <3> QED
      BY <2>1, <3>1
  <2>3. ASSUME NEW g \in Games, shown'[g] \in Active PROVE HasTask(g)'
    <3>1. CASE g = r.game
      BY <2>2, <3>1 DEF HasTask
    <3>2. CASE g # r.game
      <4>1. HasTask(g)
        BY <1>t, <2>1, <2>3, <3>2 DEF ShownType, OnTask, ActiveRowsAreOwned
      <4> QED
        BY <2>1, <2>2, <4>1 DEF HasTask
    <3> QED
      BY <3>1, <3>2
  <2>4. hasCurrent' /\ state' = "Failed" => shown'[current'.game] \notin Active
    BY <1>t, <2>1 DEF ShownType, OnTask
  <2> QED
    BY <2>1, <2>3, <2>4 DEF OnTask, ActiveRowsAreOwned
<1>3. CASE Pause
  <2>1. /\ UNCHANGED <<watch, orphans, boxes, hasCurrent, current, queue>>
        /\ hasCurrent /\ state = "Downloading" /\ state' = "Paused" /\ reply' = None
        /\ shown' = [shown EXCEPT ![current.game] = "Paused"] /\ watch = None /\ boxes = <<>>
    BY <1>3 DEF Pause, jobs, OnTask
  <2> QED
    BY <1>t, <2>1 DEF OnTask, ActiveRowsAreOwned, HasTask, ShownType
<1>4. CASE Resume
  <2>1. /\ UNCHANGED <<watch, orphans, hasCurrent, current, queue>>
        /\ hasCurrent /\ state = "Paused" /\ StartDownload(current, shown) /\ watch = None /\ boxes = <<>>
    BY <1>4 DEF Resume, jobs, OnTask
  <2>2. CASE Fail(current, shown, "fail")
    BY <1>t, <2>1, <2>2, FailCalm DEF OnTask
  <2>3. CASE ~Fail(current, shown, "fail")
    <3>1. state' = "Downloading" /\ shown' = shown /\ boxes' = boxes
      BY <2>1, <2>3 DEF StartDownload
    <3> QED
      BY <2>1, <3>1 DEF OnTask, ActiveRowsAreOwned, HasTask
  <2> QED
    BY <2>2, <2>3
<1>5. CASE Cancel
  <2>1. /\ boxes = <<>> /\ hasCurrent /\ state # "Installing" /\ state \in State
        /\ StartNext([shown EXCEPT ![current.game] = "Cancelled"], None, None, state)
        /\ watch' = watch /\ orphans' = orphans
    BY <1>5, <1>e, <1>t DEF Cancel, jobs, TypeOK
  <2>2. watch' = None /\ orphans' = {}
    BY <2>1 DEF OnTask
  <2> QED
    BY <1>w, <2>1, <2>2, StartNextCalm
<1>6. CASE RunStartNext
  <2>1. watch' = watch /\ orphans' = orphans /\ part' = part
    BY <1>6 DEF RunStartNext, jobs, files
  <2>2. CASE hasCurrent /\ UNCHANGED <<task, queue, shown, boxes>>
    BY <2>1, <2>2 DEF task, OnTask, ActiveRowsAreOwned, HasTask
  <2>3. CASE ~hasCurrent /\ StartNext(shown, reply, output, state)
    <3>1. reply = None /\ output = None /\ boxes = <<>> /\ watch' = None /\ orphans' = {} /\ state \in State
      BY <1>t, <2>1, <2>3 DEF OnTask, TypeOK
    <3>2. RowsWait(shown)
      BY <2>3 DEF RowsWait, OnTask, ActiveRowsAreOwned, HasTask
    <3>3. StartNext(shown, None, None, state)
      BY <2>3, <3>1
    <3> QED
      BY <1>t, <3>1, <3>2, <3>3, StartNextCalm
  <2> QED
    BY <1>6, <2>2, <2>3 DEF RunStartNext
<1>7. CASE OnReadyRead
  <2>1. /\ UNCHANGED <<watch, orphans, boxes, hasCurrent, current, state, queue>>
        /\ hasCurrent /\ state = "Downloading" /\ watch = None /\ boxes = <<>>
    BY <1>7 DEF OnReadyRead, jobs, OnTask
  <2>2. \E d \in {shown[current.game], "Downloading"} : shown' = [shown EXCEPT ![current.game] = d]
    BY <1>7 DEF OnReadyRead
  <2>3. \A g \in Games : g # current.game => shown'[g] = shown[g]
    BY <1>t, <2>1, <2>2 DEF ShownType
  <2>4. ActiveRowsAreOwned'
    BY <2>1, <2>3 DEF OnTask, ActiveRowsAreOwned, HasTask
  <2> QED
    BY <2>1, <2>4 DEF OnTask
<1>8. CASE FinishVerified
  <2>1. /\ UNCHANGED <<boxes, hasCurrent, current, queue>>
        /\ hasCurrent /\ state = "Downloading" /\ watch = None /\ boxes = <<>> /\ reply' = None
        /\ state' = "Installing" /\ watch' = [req |-> current, result |-> "running"]
        /\ orphans' = orphans /\ Verified(current, part'[output])
        /\ shown' = [shown EXCEPT ![current.game] = "Installing"]
    BY <1>8 DEF FinishVerified, OnTask
  <2>2. output = current.game
    BY <1>8, <1>t DEF FinishVerified, OutputFollowsReply
  <2>3. part'[current.game] = Package(current.version)
    BY <1>t, <2>1, <2>2 DEF Verified, Calm, Request
  <2>4. ActiveRowsAreOwned'
    BY <1>t, <2>1 DEF OnTask, ActiveRowsAreOwned, HasTask, ShownType
  <2> QED
    BY <2>1, <2>3, <2>4 DEF OnTask, Package
<1>9. CASE FinishRefused \/ FinishError
  <2>1. /\ UNCHANGED <<watch, orphans, hasCurrent, current, queue>> /\ Fail(current, shown, "fail")
        /\ reply # None /\ watch = None /\ hasCurrent /\ boxes = <<>> /\ orphans = {}
    BY <1>9 DEF FinishRefused, FinishError, jobs, OnTask
  <2> QED
    BY <1>t, <2>1, FailCalm
<1>10. CASE OnExtractionFinished
  <2>1. watch # None /\ watch' = None /\ hasCurrent /\ reply = None /\ output = None /\ boxes = <<>>
        /\ orphans' = {}
    BY <1>10, <1>t DEF OnExtractionFinished, OnTask, OutputFollowsReply
  <2>2. CASE Fail(current, shown, "fail") /\ UNCHANGED <<queue, hasCurrent, current>>
    BY <1>t, <2>1, <2>2, FailCalm
  <2>3. CASE StartNext([shown EXCEPT ![current.game] = "Completed"], reply, output, "Completed")
    <3>1. StartNext([shown EXCEPT ![current.game] = "Completed"], None, None, "Completed")
      BY <2>1, <2>3
    <3>2. "Completed" \in State
      BY DEF State
    <3> QED
      BY <1>w, <2>1, <3>1, <3>2, StartNextCalm
  <2> QED
    BY <1>10, <2>2, <2>3 DEF OnExtractionFinished
<1>11. CASE CloseBox
  <2>1. boxes = <<"fail">> /\ hasCurrent /\ state = "Failed"
    BY <1>11 DEF CloseBox, OnTask
  <2>2. Head(boxes) = "fail" /\ Tail(boxes) = <<>>
    BY <2>1
  <2>3. /\ hasCurrent' = FALSE /\ boxes' = <<>> /\ UNCHANGED <<watch, orphans, reply, shown, queue>>
        /\ watch = None /\ reply = None
    BY <1>11, <2>1, <2>2 DEF CloseBox, jobs, OnTask
  <2>4. ActiveRowsAreOwned'
    BY <2>1, <2>3 DEF OnTask, ActiveRowsAreOwned, HasTask
  <2> QED
    BY <2>3, <2>4 DEF OnTask
<1>12. CASE Extract
  <2>1. /\ UNCHANGED <<orphans, reply, boxes, hasCurrent, current, state, part, shown, queue>>
        /\ watch # None /\ watch \in Job /\ \E result \in {"ok", "error"} : watch' = [watch EXCEPT !.result = result]
    BY <1>12, <1>t DEF Extract, task, TypeOK
  <2>2. watch'.req = watch.req
    BY <2>1 DEF Job
  <2> QED
    BY <2>1, <2>2 DEF OnTask, ActiveRowsAreOwned, HasTask, Package
<1>13. ~(\E r \in Request : OrphanExtract(r)) /\ ~OnWriteError /\ ~Restart
  BY <1>e DEF OnTask, OrphanExtract, OnWriteError, Restart
<1> QED
  BY <1>1, <1>2, <1>3, <1>4, <1>5, <1>6, <1>7, <1>8, <1>9, <1>10, <1>11, <1>12, <1>13 DEF Next

\* A verified package replaces what was installed, and only then is it recorded.
LEMMA InstalledNext ==
    ASSUME Calm, CalmInv, [Next]_vars
    PROVE  Installed'
<1> USE DEF CalmInv
<1>t. /\ TypeOK /\ watch \in Job \cup {None}
      /\ watch # None => current \in Request /\ current.game \in Games /\ current.version \in Versions
  BY DEF IInv, TypeOK, CurrentKnown, Request
<1>1. ASSUME UNCHANGED <<disk, library, watch>> PROVE Installed'
  BY <1>1 DEF Installed, Placed, RecordedIsInstalled, OnlyWholePackagesInstalled, Package
<1>2. CASE FinishVerified
  <2>1. watch = None /\ UNCHANGED <<disk, library>> /\ watch' = [req |-> current, result |-> "running"]
    BY <1>2 DEF FinishVerified, OnTask
  <2> QED
    BY <2>1 DEF Installed, Placed, RecordedIsInstalled, OnlyWholePackagesInstalled, Package
<1>3. CASE OnExtractionFinished
  <2>1. watch # None /\ watch' = None /\ disk' = disk /\ watch.req = current
    BY <1>3 DEF OnExtractionFinished, OnTask
  <2>2. CASE watch.result # "ok" /\ library' = library
    BY <2>1, <2>2 DEF Installed, Placed, RecordedIsInstalled, OnlyWholePackagesInstalled, Package
  <2>3. CASE watch.result = "ok" /\ Record(current)
    <3>1. disk[current.game] = Package(current.version)
      BY <2>1, <2>3 DEF Installed, Placed
    <3>2. library' = [library EXCEPT ![current.game] = current.version] /\ library \in [Games -> Versions \cup {None}]
      BY <1>t, <2>3 DEF Record, TypeOK
    <3>3. RecordedIsInstalled'
      <4> SUFFICES ASSUME NEW g \in Games, library'[g] # None
                   PROVE  disk'[g] = Package(library'[g])
        BY <2>1 DEF RecordedIsInstalled, Package
      <4>1. CASE g = current.game
        BY <1>t, <2>1, <3>1, <3>2, <4>1
      <4>2. CASE g # current.game
        BY <1>t, <2>1, <3>2, <4>2 DEF Installed, RecordedIsInstalled
      <4> QED
        BY <4>1, <4>2
    <3> QED
      BY <2>1, <3>3 DEF Installed, Placed, OnlyWholePackagesInstalled, Package
  <2> QED
    BY <1>3, <2>2, <2>3 DEF OnExtractionFinished, Succeeded
<1>4. CASE Extract
  <2>1. /\ library' = library /\ watch # None /\ watch \in Job /\ watch.result = "running"
        /\ watch.req = current /\ part[current.game] = Package(current.version)
    BY <1>4, <1>t DEF Extract, OnTask
  <2>2. PICK result \in {"ok", "error"} : Extraction(current, result) /\ watch' = [watch EXCEPT !.result = result]
    BY <1>4, <2>1 DEF Extract
  <2>3. watch'.req = current /\ watch'.result = result /\ watch' # None
    <3>1. watch' \in Job
      BY <2>1, <2>2 DEF Job
    <3> QED
      BY <2>1, <2>2, <3>1, NamesAssumption DEF Job
  <2>4. CASE result = "error"
    BY <2>1, <2>2, <2>3, <2>4 DEF Extraction, Installed, Placed, RecordedIsInstalled, OnlyWholePackagesInstalled, Package
  <2>5. CASE result = "ok"
    <3>1. disk' = [disk EXCEPT ![current.game] = Package(current.version)] /\ disk \in [Games -> Seq(Chunk)]
      BY <1>t, <2>1, <2>2, <2>5 DEF Extraction, TypeOK
    <3>2. disk'[current.game] = Package(current.version)
      BY <1>t, <2>1, <3>1
    <3>3. \A g \in Games : g # current.game => disk'[g] = disk[g]
      BY <3>1
    <3>4. OnlyWholePackagesInstalled'
      <4> SUFFICES ASSUME NEW g \in Games, disk'[g] # <<>>
                   PROVE  \E v \in Versions : disk'[g] = Package(v)
        BY DEF OnlyWholePackagesInstalled, Package
      <4>1. CASE g = current.game
        BY <1>t, <2>1, <3>2, <4>1
      <4>2. CASE g # current.game
        BY <3>3, <4>2 DEF Installed, OnlyWholePackagesInstalled
      <4> QED
        BY <4>1, <4>2
    <3>5. RecordedIsInstalled'
      BY <2>1, <2>3, <2>5, <3>2, <3>3 DEF Installed, RecordedIsInstalled, Package
    <3> QED
      BY <2>3, <3>2, <3>4, <3>5 DEF Installed, Placed, Package
  <2> QED
    BY <2>4, <2>5
<1>5. CASE \/ \E g \in Games, v \in Versions : Publish(g, v)
           \/ \E r \in Request : Enqueue(r)
           \/ Pause \/ Resume \/ Cancel \/ RunStartNext \/ OnReadyRead
           \/ FinishRefused \/ FinishError \/ CloseBox \/ UNCHANGED vars
  <2>1. UNCHANGED <<disk, library, watch>>
    BY <1>5 DEF Publish, Enqueue, Pause, Resume, Cancel, RunStartNext, OnReadyRead, FinishRefused,
                FinishError, CloseBox, vars, jobs, files
  <2> QED
    BY <1>1, <2>1
<1>6. ~(\E r \in Request : OrphanExtract(r)) /\ ~OnWriteError /\ ~Restart
  BY DEF OnTask, OrphanExtract, OnWriteError, Restart, Calm
<1> QED
  BY <1>2, <1>3, <1>4, <1>5, <1>6 DEF Next

\* In calm surroundings every reachable state is calm.
LEMMA AlwaysCalm ==
    ASSUME Calm
    PROVE  Spec => []CalmInv
<1>1. Init => CalmInv
  <2> SUFFICES ASSUME Init PROVE OnTask /\ Installed
    BY InitIInv DEF CalmInv
  <2>1. \A g \in Games : shown[g] = None /\ disk[g] = <<>> /\ library[g] = None
    BY DEF Init
  <2>2. None \notin Active
    BY NamesAssumption DEF Active, State
  <2>3. OnTask
    BY <2>1, <2>2 DEF Init, OnTask, ActiveRowsAreOwned
  <2>4. Installed
    BY <2>1 DEF Init, Installed, Placed, RecordedIsInstalled, OnlyWholePackagesInstalled
  <2> QED
    BY <2>3, <2>4
<1>2. CalmInv /\ [Next]_vars => CalmInv'
  BY NextIInv, OnTaskNext, InstalledNext DEF CalmInv
<1> QED
  BY <1>1, <1>2, PTL DEF Spec

\* Pause, resume and cancel reach every row that shows them.
THEOREM RowsAreOwned == ASSUME Calm PROVE Spec => []ActiveRowsAreOwned
<1>1. CalmInv => ActiveRowsAreOwned
  BY DEF CalmInv, OnTask
<1> QED
  BY <1>1, AlwaysCalm, PTL

\* The library records what is installed.
THEOREM LibraryIsTrue == ASSUME Calm PROVE Spec => []RecordedIsInstalled
<1>1. CalmInv => RecordedIsInstalled
  BY DEF CalmInv, Installed
<1> QED
  BY <1>1, AlwaysCalm, PTL

\* Whatever error pages and new versions leave in the part files, what is
\* installed is one package.
THEOREM OnlyPackages == ASSUME Calm PROVE Spec => []OnlyWholePackagesInstalled
<1>1. CalmInv => OnlyWholePackagesInstalled
  BY DEF CalmInv, Installed
<1> QED
  BY <1>1, AlwaysCalm, PTL

-----------------------------------------------------------------------------
(* The queue that is implemented.                                               *)

\* A package names its version.
LEMMA PackageHead ==
    ASSUME NEW v \in Versions
    PROVE  Package(v) # <<>> /\ Head(Package(v))[1] = v
<1>1. Size[v] \in Nat \ {0}
  BY ConstantsAssumption
<1>2. Package(v) \in Seq(Versions \X Nat) /\ Len(Package(v)) = Size[v]
  BY <1>1 DEF Package
<1>3. Package(v)[1] = <<v, 1>>
  BY <1>1 DEF Package
<1>4. Head(Package(v)) = Package(v)[1]
  BY <1>1, <1>2
<1> QED
  BY <1>1, <1>2, <1>3, <1>4

Tree == [g \in Games |-> IF disk[g] = <<>> THEN None ELSE Head(disk[g])[1]]
Served == IF Serving THEN current ELSE None
InPlace == Serving /\ watch # None /\ watch.result = "ok"

\* The step of the queue, in the words of the mapping.
QueueStep ==
    \/ UNCHANGED <<queue, Served, InPlace, Tree, library>>
    \/ \E r \in Request :
          /\ \A i \in DOMAIN queue : queue[i].game # r.game
          /\ Served # None => Served.game # r.game
          /\ queue' = Append(queue, r)
          /\ UNCHANGED <<Served, InPlace, Tree, library>>
    \/ /\ InPlace' = FALSE
       /\ \/ Served' = None /\ UNCHANGED queue
          \/ queue # <<>> /\ Served' \in {Head(queue), None} /\ queue' = Tail(queue)
       /\ UNCHANGED Tree
       /\ \/ Served # None /\ UNCHANGED library
          \/ Served = None /\ queue # <<>> /\ UNCHANGED library
          \/ /\ Served # None /\ InPlace
             /\ library' = [library EXCEPT ![Served.game] = Served.version]
    \/ /\ Served # None /\ InPlace'
       /\ Tree' = [Tree EXCEPT ![Served.game] = Served.version]
       /\ UNCHANGED <<queue, Served, library>>

LEMMA StepOfQueue == QueueStep => [Promise!QNext]_(Promise!qvars)
  BY DEF QueueStep, Promise!QNext, Promise!qvars, Promise!Add, Promise!Start, Promise!GiveUp,
         Promise!Place, Promise!Complete, Promise!Advance, Promise!Request, Request,
         Tree, Served, InPlace

\* The end of a task hands its place to nobody, or to the first that waits.
LEMMA AdvanceStep ==
    ASSUME CalmInv, boxes = <<>>, NEW s \in ShownType, NEW st \in State, StartNext(s, None, None, st),
           watch' = None
    PROVE  /\ InPlace' = FALSE
           /\ \/ queue = <<>> /\ Served' = None /\ UNCHANGED queue
              \/ queue # <<>> /\ Served' \in {Head(queue), None} /\ queue' = Tail(queue)
<1>1. CASE queue = <<>>
  BY <1>1 DEF StartNext, Served, Serving, InPlace
<1>2. CASE queue # <<>>
  BY <1>2 DEF StartNext, Served, Serving, InPlace
<1> QED
  BY <1>1, <1>2

LEMMA CalmQueueStep ==
    ASSUME Calm, CalmInv, [Next]_vars
    PROVE  QueueStep
<1> USE DEF CalmInv
<1>t. /\ TypeOK /\ shown \in ShownType /\ state \in State /\ OutputFollowsReply
      /\ hasCurrent => current \in Request /\ current # None /\ current.game \in Games /\ current.version \in Versions
      /\ ~hasCurrent => watch = None /\ reply = None /\ boxes = <<>> /\ output = None
  BY NamesAssumption DEF IInv, TypeOK, ShownType, CurrentKnown, Request, OnTask, OutputFollowsReply
<1>s. ASSUME hasCurrent, boxes = <<>> PROVE Serving /\ Served = current /\ Served # None
  BY <1>t, <1>s DEF IInv, CurrentHasDriver, Serving, Served
<1>r. ASSUME hasCurrent, NEW st \in {"Cancelled", "Completed"}
      PROVE  [shown EXCEPT ![current.game] = st] \in ShownType
  BY <1>t, <1>r DEF ShownType, State
<1>1. ASSUME UNCHANGED <<queue, hasCurrent, current, disk, library>>, Serving' = Serving, InPlace' = InPlace
      PROVE  QueueStep
  BY <1>1 DEF QueueStep, Served, Tree
<1>2. CASE \/ \E g \in Games, v \in Versions : Publish(g, v)
           \/ UNCHANGED vars
           \/ Pause \/ OnReadyRead
           \/ RunStartNext /\ hasCurrent
  <2>1. UNCHANGED <<queue, hasCurrent, current, disk, library, watch>> /\ Serving' = Serving
    BY <1>2 DEF Publish, task, jobs, vars, Pause, OnReadyRead, RunStartNext, files, Serving, OnTask
  <2> QED
    BY <1>1, <2>1 DEF InPlace
<1>3. ASSUME NEW r \in Request, Enqueue(r) PROVE QueueStep
  <2>1. /\ UNCHANGED <<hasCurrent, current, state, disk, library, watch>> /\ queue' = Append(queue, r)
        /\ ~HasTask(r.game)
    BY <1>3 DEF Enqueue, task, jobs, files
  <2>2. UNCHANGED <<Served, InPlace, Tree, library>>
    BY <2>1 DEF Served, Serving, InPlace, Tree
  <2>3. /\ \A i \in DOMAIN queue : queue[i].game # r.game
        /\ Served # None => Served.game # r.game
    BY <2>1 DEF HasTask, Served, Serving
  <2> QED
    BY <2>1, <2>2, <2>3 DEF QueueStep
<1>4. ASSUME hasCurrent, boxes = <<>>, Fail(current, shown, "fail"),
             UNCHANGED <<queue, hasCurrent, current, disk, library>>
      PROVE  QueueStep
  <2>1. Served' = None /\ InPlace' = FALSE /\ Tree' = Tree
    BY <1>4 DEF Fail, Served, Serving, InPlace, Tree
  <2> QED
    BY <1>4, <1>s, <2>1 DEF QueueStep
<1>5. CASE Resume
  <2>1. /\ UNCHANGED <<queue, hasCurrent, current, disk, library, watch>>
        /\ hasCurrent /\ boxes = <<>> /\ state = "Paused" /\ StartDownload(current, shown)
    BY <1>5 DEF Resume, jobs
  <2>2. CASE Fail(current, shown, "fail")
    BY <1>4, <2>1, <2>2
  <2>3. CASE ~Fail(current, shown, "fail")
    BY <1>1, <2>1, <2>3 DEF StartDownload, Serving, InPlace
  <2> QED
    BY <2>2, <2>3
<1>6. CASE FinishRefused \/ FinishError
  <2>1. /\ UNCHANGED <<queue, hasCurrent, current, disk, library>> /\ Fail(current, shown, "fail")
        /\ hasCurrent /\ boxes = <<>>
    BY <1>6 DEF FinishRefused, FinishError, OnTask
  <2> QED
    BY <1>4, <2>1
<1>7. CASE FinishVerified
  <2>1. /\ UNCHANGED <<queue, hasCurrent, current, disk, library>>
        /\ watch = None /\ watch' = [req |-> current, result |-> "running"]
        /\ state = "Downloading" /\ state' = "Installing"
    BY <1>7 DEF FinishVerified, OnTask
  <2>2. watch'.result # "ok"
    BY <2>1
  <2> QED
    BY <1>1, <2>1, <2>2 DEF Serving, InPlace
<1>8. CASE Cancel
  <2>1. /\ boxes = <<>> /\ hasCurrent /\ state # "Installing"
        /\ StartNext([shown EXCEPT ![current.game] = "Cancelled"], None, None, state)
        /\ watch' = watch /\ disk' = disk /\ library' = library
    BY <1>8 DEF Cancel, jobs, Calm
  <2>2. watch' = None /\ Tree' = Tree
    BY <2>1 DEF OnTask, Tree
  <2> QED
    BY <1>t, <1>s, <1>r, <2>1, <2>2, AdvanceStep DEF QueueStep
<1>9. CASE RunStartNext /\ ~hasCurrent
  <2>1. /\ StartNext(shown, None, None, state) /\ boxes = <<>>
        /\ watch = None /\ watch' = None /\ disk' = disk /\ library' = library
    BY <1>9, <1>t DEF RunStartNext, jobs, files
  <2>2. Served = None /\ InPlace = FALSE /\ Tree' = Tree
    BY <1>9, <2>1 DEF Served, Serving, InPlace, Tree
  <2>3. /\ InPlace' = FALSE
        /\ \/ queue = <<>> /\ Served' = None /\ UNCHANGED queue
           \/ queue # <<>> /\ Served' \in {Head(queue), None} /\ queue' = Tail(queue)
    BY <1>t, <2>1, AdvanceStep
  <2> QED
    BY <2>1, <2>2, <2>3 DEF QueueStep
<1>10. CASE OnExtractionFinished
  <2>1. /\ watch # None /\ watch' = None /\ disk' = disk
        /\ hasCurrent /\ boxes = <<>> /\ reply = None /\ output = None
    BY <1>10, <1>t DEF OnExtractionFinished, OnTask, OutputFollowsReply
  <2>2. CASE Fail(current, shown, "fail") /\ UNCHANGED <<library, queue, hasCurrent, current>>
    BY <1>4, <2>1, <2>2
  <2>3. CASE /\ watch.result = "ok" /\ Record(current)
             /\ StartNext([shown EXCEPT ![current.game] = "Completed"], reply, output, "Completed")
    <3>1. Served = current /\ Served # None /\ InPlace
      BY <1>s, <2>1, <2>3 DEF InPlace
    <3>2. library' = [library EXCEPT ![Served.game] = Served.version]
      BY <2>3, <3>1 DEF Record
    <3>3. StartNext([shown EXCEPT ![current.game] = "Completed"], None, None, "Completed")
      BY <2>1, <2>3
    <3>4. "Completed" \in State /\ [shown EXCEPT ![current.game] = "Completed"] \in ShownType
      BY <1>r, <2>1 DEF State
    <3>5. /\ InPlace' = FALSE
          /\ \/ queue = <<>> /\ Served' = None /\ UNCHANGED queue
             \/ queue # <<>> /\ Served' \in {Head(queue), None} /\ queue' = Tail(queue)
      BY <2>1, <3>3, <3>4, AdvanceStep
    <3>6. Tree' = Tree
      BY <2>1 DEF Tree
    <3> QED
      BY <3>1, <3>2, <3>5, <3>6 DEF QueueStep
  <2> QED
    BY <1>10, <2>2, <2>3 DEF OnExtractionFinished, Succeeded
<1>11. CASE CloseBox
  <2>1. /\ UNCHANGED <<queue, disk, library>> /\ hasCurrent' = FALSE /\ state = "Failed"
    BY <1>11 DEF CloseBox, files, OnTask
  <2> QED
    BY <2>1 DEF QueueStep, Served, Serving, InPlace, Tree
<1>12. CASE Extract
  <2>1. /\ UNCHANGED <<queue, hasCurrent, current, state, library>> /\ watch # None /\ watch \in Job
        /\ watch.result = "running" /\ hasCurrent /\ state = "Installing" /\ watch.req = current
        /\ part[current.game] = Package(current.version)
    BY <1>12, <1>t DEF Extract, task, OnTask, TypeOK
  <2>2. PICK result \in {"ok", "error"} : Extraction(current, result) /\ watch' = [watch EXCEPT !.result = result]
    BY <1>12, <2>1 DEF Extract
  <2>3. watch'.result = result /\ watch' # None
    <3>1. watch' \in Job
      BY <2>1, <2>2 DEF Job
    <3> QED
      BY <2>1, <2>2, <3>1, NamesAssumption DEF Job
  <2>4. CASE result = "error"
    <3>1. disk' = disk /\ ~InPlace /\ Serving' = Serving
      BY <2>1, <2>2, <2>4 DEF Extraction, InPlace, Serving
    <3> QED
      BY <1>1, <2>1, <2>3, <2>4, <3>1 DEF InPlace
  <2>5. CASE result = "ok"
    <3>1. disk' = [disk EXCEPT ![current.game] = Package(current.version)] /\ disk \in [Games -> Seq(Chunk)]
      BY <1>t, <2>1, <2>2, <2>5 DEF Extraction, TypeOK
    <3>2. Served = current /\ Served # None /\ Served' = Served /\ InPlace'
      BY <1>t, <2>1, <2>3, <2>5 DEF Served, Serving, InPlace
    <3>3. Package(current.version) # <<>> /\ Head(Package(current.version))[1] = current.version
      BY <1>t, <2>1, PackageHead
    <3>4. Tree' = [Tree EXCEPT ![Served.game] = Served.version]
      <4>1. \A g \in Games : Tree'[g] = IF g = current.game THEN current.version ELSE Tree[g]
        <5> DEFINE p == Package(current.version)
        <5>1. disk' = [disk EXCEPT ![current.game] = p] /\ p # <<>> /\ Head(p)[1] = current.version
          BY <3>1, <3>3
        <5> HIDE DEF p
        <5> QED
          BY <1>t, <2>1, <3>1, <5>1 DEF Tree
      <4> QED
        BY <3>2, <4>1 DEF Tree
    <3> QED
      BY <2>1, <3>2, <3>4 DEF QueueStep
  <2> QED
    BY <2>4, <2>5
<1>13. ~(\E r \in Request : OrphanExtract(r)) /\ ~OnWriteError /\ ~Restart
  BY DEF OnTask, OrphanExtract, OnWriteError, Restart, Calm
<1> QED
  BY <1>2, <1>3, <1>5, <1>6, <1>7, <1>8, <1>9, <1>10, <1>11, <1>12, <1>13 DEF Next

\* In calm surroundings the manager is the queue the launcher counts on: requests
\* in order, one at a time, each installed before it is recorded.
THEOREM ServesInOrder == ASSUME Calm PROVE Spec => ImplementsQueue
<1>1. Init => Promise!QInit
  BY DEF Init, Promise!QInit, Serving
<1>2. CalmInv /\ [Next]_vars => [Promise!QNext]_(Promise!qvars)
  BY CalmQueueStep, StepOfQueue
<1> QED
  BY <1>1, <1>2, AlwaysCalm, PTL DEF Spec, ImplementsQueue, Promise!QSpec

-----------------------------------------------------------------------------
(* Part files.                                                                  *)

\* A lost buffer shortens a file by one chunk.
LEMMA FrontLength ==
    ASSUME NEW S, NEW s \in Seq(S), s # <<>>
    PROVE  /\ Front(s) \in Seq(S) /\ Len(Front(s)) = Len(s) - 1
           /\ \A i \in DOMAIN Front(s) : i \in DOMAIN s /\ Front(s)[i] = s[i]
  BY SMT DEF Front

\* Closing touches one file, by one chunk at most.
LEMMA CloseKeeps ==
    ASSUME TypeOK, NEW g \in Games, part' \in AfterClose(g)
    PROVE  /\ \A h \in Games : h # g => part'[h] = part[h]
           /\ part'[g] = part[g] \/ Len(part'[g]) = Len(part[g]) - 1
<1>1. part \in [Games -> Seq(Chunk)] /\ part[g] \in Seq(Chunk)
  BY DEF TypeOK
<1>2. part' = part \/ (part[g] # <<>> /\ part' = [part EXCEPT ![g] = Front(part[g])])
  BY DEF AfterClose
<1>3. CASE part[g] # <<>> /\ part' = [part EXCEPT ![g] = Front(part[g])]
  <2>1. Len(Front(part[g])) = Len(part[g]) - 1
    BY <1>1, <1>3, FrontLength
  <2>2. part'[g] = Front(part[g]) /\ \A h \in Games : h # g => part'[h] = part[h]
    BY <1>1, <1>3
  <2> QED
    BY <2>1, <2>2
<1> QED
  BY <1>2, <1>3

LEMMA RemoveKeeps ==
    ASSUME TypeOK, NEW g \in Games, NEW open, part' \in AfterRemove(g, open)
    PROVE  \A h \in Games : h # g => part'[h] = part[h]
<1>1. part \in [Games -> Seq(Chunk)]
  BY DEF TypeOK
<1> QED
  BY <1>1 DEF AfterRemove

\* The row of the task that has ended is not that of the one that starts.
LEMMA EndIsShown ==
    ASSUME IInv, hasCurrent, current \in Request, NEW s \in ShownType, NEW rp, NEW out, NEW st,
           StartNext(s, rp, out, st)
    PROVE  shown'[current.game] = s[current.game]
<1>1. CASE queue = <<>>
  BY <1>1 DEF StartNext
<1>2. CASE queue # <<>>
  <2>1. Head(queue).game # current.game
    <3>1. Head(queue) = queue[1] /\ 1 \in DOMAIN queue
      BY <1>2 DEF IInv, TypeOK
    <3> QED
      BY <3>1 DEF IInv, NoDuplicateTask
  <2>2. shown' = s \/ shown' = [s EXCEPT ![Head(queue).game] = "Failed"]
    BY <1>2 DEF StartNext, StartDownload, Fail
  <2> QED
    BY <2>1, <2>2 DEF ShownType, Request
<1> QED
  BY <1>1, <1>2

\* In calm surroundings a part file grows, or there is a reason.
LEMMA BytesStep ==
    ASSUME Calm, CalmInv, [Next]_vars, NEW g \in Games, Len(part'[g]) < Len(part[g])
    PROVE  \/ shown'[g] \in {"Cancelled", "Completed"}
           \/ output = g /\ reply.restart
           \/ output = g /\ reply' = None /\ Len(part'[g]) = Len(part[g]) - 1
           \/ output = g /\ reply' = None /\ shown'[g] = "Failed" /\ reply.next > Size[reply.version]
<1> USE DEF CalmInv
<1>t. /\ TypeOK /\ shown \in ShownType /\ part \in [Games -> Seq(Chunk)]
      /\ hasCurrent => current \in Request /\ current.game \in Games
      /\ watch # None \/ reply # None => hasCurrent
  BY DEF IInv, TypeOK, ShownType, CurrentKnown, Request, OnTask
<1>p. part' # part
  BY DEF IInv
<1>r. ASSUME hasCurrent, NEW st \in {"Cancelled", "Completed"}
      PROVE  /\ [shown EXCEPT ![current.game] = st] \in ShownType
             /\ [shown EXCEPT ![current.game] = st][current.game] = st
  BY <1>t, <1>r DEF ShownType, State
<1>1. ASSUME reply # None, part' \in AfterClose(output), reply' = None
      PROVE  output = g /\ reply' = None /\ Len(part'[g]) = Len(part[g]) - 1
  <2>1. output \in Games
    BY <1>1, LiveReply
  <2> QED
    BY <1>1, <1>t, <2>1, CloseKeeps
<1>2. CASE Pause \/ FinishVerified \/ FinishError
  <2>1. reply # None /\ part' \in AfterClose(output) /\ reply' = None
    BY <1>2 DEF Pause, FinishVerified, FinishError, Fail
  <2> QED
    BY <1>1, <2>1
<1>3. CASE Cancel
  <2>1. hasCurrent /\ part' \in AfterRemove(current.game, None)
        /\ StartNext([shown EXCEPT ![current.game] = "Cancelled"], None, None, state)
    BY <1>3 DEF Cancel
  <2>2. g = current.game
    BY <1>t, <2>1, RemoveKeeps
  <2> QED
    BY <1>t, <1>r, <2>1, <2>2, EndIsShown
<1>4. CASE OnReadyRead
  <2>1. output \in Games /\ Kept \in Seq(Chunk) /\ NextChunk \in Chunk
        /\ part' = [part EXCEPT ![output] = Append(Kept, NextChunk)]
    BY <1>4, LiveReply DEF OnReadyRead
  <2>2. g = output /\ part'[g] = Append(Kept, NextChunk)
    BY <1>t, <2>1
  <2>3. Len(part'[g]) = Len(Kept) + 1
    BY <2>1, <2>2
  <2>4. ~reply.restart => Kept = part[g]
    BY <2>2 DEF Kept
  <2> QED
    BY <1>t, <2>2, <2>3, <2>4
<1>5. CASE FinishRefused
  <2>1. /\ reply # None /\ reply.next > Size[reply.version] /\ part' \in AfterRemove(output, None)
        /\ reply' = None /\ shown' = [shown EXCEPT ![current.game] = "Failed"]
    BY <1>5 DEF FinishRefused, Fail
  <2>2. output \in Games /\ output = current.game
    BY <2>1, LiveReply
  <2>3. g = output
    BY <1>t, <2>1, <2>2, RemoveKeeps
  <2> QED
    BY <1>t, <2>1, <2>2, <2>3 DEF ShownType
<1>6. CASE OnExtractionFinished
  <2>1. /\ hasCurrent /\ part' \in AfterRemove(current.game, output)
        /\ StartNext([shown EXCEPT ![current.game] = "Completed"], reply, output, "Completed")
    BY <1>6, <1>t, <1>p DEF OnExtractionFinished
  <2>2. g = current.game
    BY <1>t, <2>1, RemoveKeeps
  <2> QED
    BY <1>t, <1>r, <2>1, <2>2, EndIsShown
<1>7. ~ \/ \E h \in Games, v \in Versions : Publish(h, v)
        \/ \E r \in Request : Enqueue(r) \/ OrphanExtract(r)
        \/ Resume \/ RunStartNext \/ OnWriteError \/ CloseBox \/ Extract \/ Restart \/ UNCHANGED vars
  BY <1>p DEF Publish, Enqueue, OrphanExtract, Resume, RunStartNext, OnWriteError, CloseBox, Extract,
              Restart, vars, files, Calm
<1> QED
  BY <1>2, <1>3, <1>4, <1>5, <1>6, <1>7 DEF Next

\* What was downloaded is given up for a reason, or lost with one buffer.
THEOREM BytesAreKept == ASSUME Calm PROVE Spec => DownloadedBytesAreKept
<1> DEFINE Kind(g) ==
      \/ shown'[g] \in {"Cancelled", "Completed"}
      \/ output = g /\ reply.restart
      \/ output = g /\ reply' = None /\ Len(part'[g]) = Len(part[g]) - 1
      \/ output = g /\ reply' = None /\ shown'[g] = "Failed" /\ reply.next > Size[reply.version]
<1>1. CalmInv /\ [Next]_vars => [\A g \in Games : Len(part'[g]) < Len(part[g]) => Kind(g)]_vars
  BY BytesStep
<1> QED
  BY <1>1, AlwaysCalm, PTL DEF Spec, DownloadedBytesAreKept

-----------------------------------------------------------------------------
(* A part file that a Range can continue.                                       *)

\* Nothing is replaced on the server, and a refusal has no body.
Steady == Env \cap {"republish", "error_body"} = {}

Starts(s, v) == Len(s) <= Size[v] /\ \A i \in DOMAIN s : s[i] = <<v, i>>

ReplyFits ==
    reply # None =>
        /\ reply.version = served[current.game]
        /\ reply.status # "error" => reply.next = Len(Kept) + 1

PrefixInv ==
    /\ IInv
    /\ \A g \in Games : Starts(part[g], served[g])
    /\ ReplyFits

LEMMA EmptyStarts == \A v \in Versions : Starts(<<>>, v)
  BY ConstantsAssumption DEF Starts

LEMMA FrontStarts ==
    ASSUME NEW s \in Seq(Chunk), s # <<>>, NEW v \in Versions, Starts(s, v)
    PROVE  Starts(Front(s), v)
<1>1. /\ Front(s) \in Seq(Chunk) /\ Len(Front(s)) = Len(s) - 1
      /\ \A i \in DOMAIN Front(s) : i \in DOMAIN s /\ Front(s)[i] = s[i]
  BY FrontLength
<1>2. Size[v] \in Nat
  BY ConstantsAssumption
<1> QED
  BY <1>1, <1>2 DEF Starts

\* Closing and removing leave beginnings.
LEMMA FilesStart ==
    ASSUME PrefixInv, NEW g \in Games,
           \/ part' \in AfterClose(g) \/ \E open : part' \in AfterRemove(g, open)
           \/ part' = part
           \/ part[g] # <<>> /\ part' = [part EXCEPT ![g] = Front(part[g])]
    PROVE  \A h \in Games : Starts(part'[h], served[h])
<1>1. part \in [Games -> Seq(Chunk)] /\ part[g] \in Seq(Chunk) /\ served \in [Games -> Versions]
  BY DEF PrefixInv, IInv, TypeOK
<1>2. \/ part' = part \/ part' = [part EXCEPT ![g] = <<>>]
      \/ part[g] # <<>> /\ part' = [part EXCEPT ![g] = Front(part[g])]
  BY DEF AfterClose, AfterRemove
<1>3. CASE part' = part
  BY <1>3 DEF PrefixInv
<1>4. CASE part' = [part EXCEPT ![g] = <<>>]
  BY <1>1, <1>4, EmptyStarts DEF PrefixInv
<1>5. CASE part[g] # <<>> /\ part' = [part EXCEPT ![g] = Front(part[g])]
  <2>1. Starts(Front(part[g]), served[g])
    BY <1>1, <1>5, FrontStarts DEF PrefixInv
  <2> QED
    BY <1>1, <1>5, <2>1 DEF PrefixInv
<1> QED
  BY <1>2, <1>3, <1>4, <1>5

\* A request goes out for what is missing.
LEMMA StartFits ==
    ASSUME TypeOK, NEW r \in Request, NEW s, StartDownload(r, s), served' = served, current' = r,
           part' \in [Games -> Seq(Chunk)]
    PROVE  ReplyFits'
<1>1. CASE Fail(r, s, "fail")
  BY <1>1 DEF Fail, ReplyFits
<1>2. CASE ~Fail(r, s, "fail")
  <2>1. /\ output' = r.game
        /\ \E status \in Statuses(Len(part'[r.game]), served[r.game]) :
             reply' = [status |-> status, version |-> served[r.game],
                       next |-> IF status = "206" THEN Len(part'[r.game]) + 1 ELSE 1,
                       restart |-> status = "200" /\ part'[r.game] # <<>>]
    BY <1>2 DEF StartDownload
  <2>2. PICK status \in Statuses(Len(part'[r.game]), served[r.game]) :
             /\ reply'.status = status /\ reply'.version = served[r.game]
             /\ reply'.next = IF status = "206" THEN Len(part'[r.game]) + 1 ELSE 1
             /\ reply'.restart = (status = "200" /\ part'[r.game] # <<>>)
    BY <2>1
  <2>3. CASE status = "206"
    BY <2>1, <2>2, <2>3 DEF ReplyFits, Kept
  <2>4. CASE status = "200"
    <3>1. Kept' = <<>>
      BY <2>1, <2>2, <2>4 DEF Kept
    <3>2. Len(<<>>) = 0
      OBVIOUS
    <3> QED
      BY <2>1, <2>2, <2>4, <3>1, <3>2 DEF ReplyFits
  <2>5. CASE status = "error"
    BY <2>2, <2>5 DEF ReplyFits
  <2> QED
    BY <2>2, <2>3, <2>4, <2>5 DEF Statuses
<1> QED
  BY <1>1, <1>2

LEMMA StartNextFits ==
    ASSUME PrefixInv, NEW s, NEW rp, NEW out, NEW st, StartNext(s, rp, out, st), served' = served,
           part' \in [Games -> Seq(Chunk)],
           rp = None \/ (rp = reply /\ out = output /\ part' = part)
    PROVE  ReplyFits'
<1>1. CASE queue = <<>>
  BY <1>1 DEF StartNext, PrefixInv, ReplyFits, Kept
<1>2. CASE queue # <<>>
  <2>1. Head(queue) \in Request /\ StartDownload(Head(queue), s) /\ current' = Head(queue)
    BY <1>2, HeadTail DEF StartNext, PrefixInv, IInv
  <2> QED
    BY <2>1, StartFits DEF PrefixInv, IInv
<1> QED
  BY <1>1, <1>2

\* Steps that leave the reply and its file alone, or end it.
LEMMA SteadyFits ==
    ASSUME PrefixInv, served' = served,
           reply' = None \/ UNCHANGED <<reply, output, current, part>>
    PROVE  ReplyFits'
  BY DEF PrefixInv, ReplyFits, Kept

LEMMA PrefixNext ==
    ASSUME Steady, PrefixInv, [Next]_vars
    PROVE  PrefixInv'
<1> DEFINE Files == \A g \in Games : Starts(part'[g], served[g])
<1> SUFFICES served' = served /\ Files /\ ReplyFits'
  BY NextIInv DEF PrefixInv, Starts
<1>t. /\ TypeOK /\ IInv /\ part \in [Games -> Seq(Chunk)] /\ part' \in [Games -> Seq(Chunk)]
      /\ served \in [Games -> Versions]
      /\ hasCurrent \/ watch # None => current \in Request /\ current.game \in Games
  BY NextIInv DEF PrefixInv, IInv, TypeOK, CurrentKnown, Request
<1>e. "republish" \notin Env /\ "error_body" \notin Env
  BY DEF Steady
<1>f. part' = part => Files
  BY DEF PrefixInv
<1> HIDE DEF Files
<1>1. ~\E g \in Games, v \in Versions : Publish(g, v)
  BY <1>e DEF Publish
<1>2. CASE \/ \E r \in Request : Enqueue(r)
           \/ \E r \in Request : OrphanExtract(r)
           \/ Extract \/ CloseBox \/ (RunStartNext /\ hasCurrent) \/ UNCHANGED vars
  <2>1. served' = served /\ part' = part /\ (reply' = None \/ UNCHANGED <<reply, output, current>>)
    BY <1>2 DEF Enqueue, OrphanExtract, Extract, CloseBox, RunStartNext, vars, files, task
  <2> QED
    BY <1>f, <2>1, SteadyFits
<1>3. CASE Pause \/ FinishVerified \/ FinishError
  <2>1. served' = served /\ reply # None /\ reply' = None /\ part' \in AfterClose(output)
    BY <1>3 DEF Pause, FinishVerified, FinishError, Fail
  <2>2. output \in Games
    BY <1>t, <2>1, LiveReply
  <2> QED
    BY <2>1, <2>2, FilesStart, SteadyFits DEF Files
<1>4. CASE FinishRefused
  <2>1. served' = served /\ reply # None /\ reply' = None /\ part' \in AfterRemove(output, None)
    BY <1>4 DEF FinishRefused, Fail
  <2>2. output \in Games
    BY <1>t, <2>1, LiveReply
  <2> QED
    BY <2>1, <2>2, FilesStart, SteadyFits DEF Files
<1>5. CASE Resume
  <2>1. served' = served /\ part' = part /\ hasCurrent /\ current' = current /\ StartDownload(current, shown)
    BY <1>5 DEF Resume
  <2> QED
    BY <1>t, <1>f, <2>1, StartFits
<1>6. CASE Cancel
  <2>1. /\ served' = served /\ hasCurrent /\ part' \in AfterRemove(current.game, None)
        /\ StartNext([shown EXCEPT ![current.game] = "Cancelled"], None, None, state)
    BY <1>6 DEF Cancel
  <2> QED
    BY <1>t, <2>1, FilesStart, StartNextFits DEF Files
<1>7. CASE RunStartNext /\ ~hasCurrent
  <2>1. served' = served /\ part' = part /\ StartNext(shown, reply, output, state)
    BY <1>7 DEF RunStartNext, files
  <2> QED
    BY <1>t, <1>f, <2>1, StartNextFits
<1>8. CASE OnReadyRead
  <2>1. /\ reply # None /\ reply.status # "error" /\ reply.next <= Size[reply.version] /\ served' = served
        /\ part' = [part EXCEPT ![output] = Append(Kept, <<reply.version, reply.next>>)]
        /\ reply' = [reply EXCEPT !.next = @ + 1, !.restart = FALSE]
        /\ UNCHANGED <<output, current>>
    BY <1>8, <1>e DEF OnReadyRead, NextChunk
  <2>2. /\ output = current.game /\ output \in Games /\ Kept \in Seq(Chunk) /\ reply \in Reply
        /\ <<reply.version, reply.next>> \in Chunk
    BY <1>t, <2>1, LiveReply DEF NextChunk
  <2>3. reply.version = served[output] /\ reply.next = Len(Kept) + 1 /\ served[output] \in Versions
    BY <1>t, <2>1, <2>2 DEF PrefixInv, ReplyFits
  <2>4. Starts(Kept, served[output])
    BY <2>2, <2>3, EmptyStarts DEF Kept, PrefixInv
  <2> DEFINE c == <<reply.version, reply.next>>
             k == Append(Kept, c)
  <2>5. /\ k \in Seq(Chunk) /\ Len(k) = Len(Kept) + 1 /\ k[Len(Kept) + 1] = c
        /\ \A i \in DOMAIN k : i = Len(Kept) + 1 \/ (i \in DOMAIN Kept /\ k[i] = Kept[i])
    BY <2>2
  <2>6. c = <<served[output], Len(Kept) + 1>> /\ Len(Kept) + 1 <= Size[served[output]]
    BY <2>1, <2>3
  <2> HIDE DEF c
  <2>7. part'[output] = k /\ \A h \in Games : h # output => part'[h] = part[h]
    BY <1>t, <2>1, <2>2 DEF c
  <2> HIDE DEF k
  <2>8. Starts(k, served[output])
    BY <2>4, <2>5, <2>6 DEF Starts
  <2>9. Files
    BY <2>7, <2>8 DEF Files, PrefixInv
  <2>10. /\ reply'.version = reply.version /\ reply'.next = reply.next + 1 /\ reply'.restart = FALSE
    BY <2>1, <2>2 DEF Reply
  <2>11. Kept' = k
    BY <2>1, <2>7, <2>10 DEF Kept
  <2>12. ReplyFits'
    BY <2>1, <2>2, <2>3, <2>5, <2>10, <2>11 DEF ReplyFits
  <2> QED
    BY <2>1, <2>9, <2>12
<1>9. CASE OnWriteError
  <2>1. reply # None /\ served' = served /\ reply' = None /\ part' = [part EXCEPT ![output] = Kept]
    BY <1>9 DEF OnWriteError, Fail
  <2>2. output \in Games
    BY <1>t, <2>1, LiveReply
  <2>3. Starts(Kept, served[output])
    BY <1>t, <2>2, EmptyStarts DEF Kept, PrefixInv
  <2>4. Files
    BY <1>t, <2>1, <2>2, <2>3 DEF Files, PrefixInv
  <2> QED
    BY <2>1, <2>4, SteadyFits
<1>10. CASE OnExtractionFinished
  <2>1. served' = served /\ watch # None
    BY <1>10 DEF OnExtractionFinished
  <2>2. CASE Fail(current, shown, "fail") /\ part' = part
    BY <1>f, <2>1, <2>2, SteadyFits DEF Fail
  <2>3. CASE /\ part' \in AfterRemove(current.game, output)
             /\ StartNext([shown EXCEPT ![current.game] = "Completed"], reply, output, "Completed")
    <3>1. reply # None => part' = part
      BY <1>t, <2>3 DEF AfterRemove, IInv, OutputFollowsReply
    <3>2. ReplyFits'
      BY <1>t, <2>1, <2>3, <3>1, StartNextFits
    <3> QED
      BY <1>t, <2>1, <2>3, <3>2, FilesStart DEF Files
  <2> QED
    BY <1>10, <2>2, <2>3 DEF OnExtractionFinished
<1>11. CASE Restart
  <2>1. served' = served /\ reply' = None
    BY <1>11 DEF Restart
  <2>2. \/ part' = part
        \/ output # None /\ part[output] # <<>> /\ part' = [part EXCEPT ![output] = Front(part[output])]
    BY <1>11 DEF Restart
  <2>3. output # None => output \in Games
    BY <1>t DEF TypeOK
  <2> QED
    BY <1>f, <2>1, <2>2, <2>3, FilesStart, SteadyFits DEF Files
<1>12. Next =>
         \/ \E g \in Games, v \in Versions : Publish(g, v)
         \/ \E r \in Request : Enqueue(r)
         \/ \E r \in Request : OrphanExtract(r)
         \/ Extract \/ CloseBox \/ (RunStartNext /\ hasCurrent) \/ (RunStartNext /\ ~hasCurrent)
         \/ Pause \/ FinishVerified \/ FinishError \/ FinishRefused \/ Resume \/ Cancel
         \/ OnReadyRead \/ OnWriteError \/ OnExtractionFinished \/ Restart
  BY DEF Next
<1> QED
  BY <1>1, <1>2, <1>3, <1>4, <1>5, <1>6, <1>7, <1>8, <1>9, <1>10, <1>11, <1>12

\* A part file that agrees with a package chunk by chunk is a prefix of it.
LEMMA StartsIsPrefix ==
    ASSUME NEW s \in Seq(Chunk), NEW v \in Versions, Starts(s, v)
    PROVE  IsPrefix(s, Package(v))
<1>1. Size[v] \in Nat
  BY ConstantsAssumption
<1>2. Package(v) \in Seq(Versions \X Nat) /\ Len(Package(v)) = Size[v]
      /\ \A i \in 1 .. Size[v] : Package(v)[i] = <<v, i>>
  BY <1>1 DEF Package
<1>3. Len(s) \in Nat /\ Len(s) <= Size[v] /\ \A i \in 1 .. Len(s) : s[i] = <<v, i>>
  BY DEF Starts
<1>4. ASSUME NEW i \in 1 .. Len(s) PROVE s[i] = Package(v)[i]
  <2>1. i \in 1 .. Size[v]
    BY <1>1, <1>3
  <2> QED
    BY <1>2, <1>3, <2>1
<1>5. SubSeq(s, 1, Len(s)) = SubSeq(Package(v), 1, Len(s))
  BY <1>1, <1>2, <1>3, <1>4
<1> QED
  BY <1>2, <1>3, <1>5 DEF IsPrefix

\* Pauses, failures, retries and restarts leave what a Range can continue.
THEOREM PartsContinue == ASSUME Steady PROVE Spec => []PartIsPrefix
<1>1. Init => PrefixInv
  <2> SUFFICES ASSUME Init PROVE PrefixInv
    OBVIOUS
  <2>1. \A g \in Games : part[g] = <<>> /\ served[g] \in Versions
    BY DEF Init
  <2>2. \A g \in Games : Starts(part[g], served[g])
    BY <2>1, EmptyStarts
  <2> QED
    BY <2>2, InitIInv DEF Init, PrefixInv, ReplyFits
<1>2. PrefixInv /\ [Next]_vars => PrefixInv'
  BY PrefixNext
<1>3. PrefixInv => PartIsPrefix
  <2> SUFFICES ASSUME PrefixInv, NEW g \in Games
               PROVE  \E v \in Versions : IsPrefix(part[g], Package(v))
    BY DEF PartIsPrefix
  <2>1. part[g] \in Seq(Chunk) /\ served[g] \in Versions /\ Starts(part[g], served[g])
    BY DEF PrefixInv, IInv, TypeOK
  <2> QED
    BY <2>1, StartsIsPrefix
<1> QED
  BY <1>1, <1>2, <1>3, PTL DEF Spec
=============================================================================
