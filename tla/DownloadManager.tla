--------------------------- MODULE DownloadManager ---------------------------
(* The download manager of the launcher (src/src/core/DownloadManager.cpp)      *)
(* with the two MainWindow slots its signals run synchronously.                 *)
(*                                                                              *)
(* Every action but Extract and OrphanExtract is one event of the GUI thread,   *)
(* run to the point where control returns to an event loop.  A failure opens a  *)
(* modal message box INSIDE fail() (MainWindow::onDownloadFailed), whose nested *)
(* event loop runs further events before the rest of fail(): the rest is a      *)
(* frame on the stack `boxes', and CloseBox runs it.  Extract steps belong to   *)
(* the worker thread.                                                           *)
(*                                                                              *)
(* A package is the chunks <<v, 1>> .. <<v, Size[v]>>; Junk is a chunk of an     *)
(* error page.  m_pausing and m_cancelling are set and cleared within one       *)
(* handler (abort() emits finished() before it returns) and need no variable;   *)
(* m_resumeOffset and m_resumeChecked matter only until the first readyRead of  *)
(* a reply: reply.restart.                                                      *)
EXTENDS Naturals, Sequences, SequencesExt, FiniteSets

CONSTANTS
    Games,      \* game ids
    Versions,   \* package versions the server publishes
    Size,       \* Size[v]: number of chunks of the package of version v
    Hashed,     \* versions whose details carry a SHA-256
    Env,        \* what the surroundings may do, see Events
    MaxPart,    \* bound: chunks in a part file
    MaxPosted,  \* bound: startNext calls waiting in the event queue
    MaxBoxes,   \* bound: failure boxes open at once
    Junk,       \* a chunk that belongs to no package
    None        \* no value

Events == {"republish", "error_body", "open_error", "write_error", "flush_error", "quit",
           "cancel_installing"}

ASSUME ConstantsAssumption ==
    /\ Size \in [Versions -> Nat \ {0}]
    /\ Hashed \subseteq Versions
    /\ Env \subseteq Events
    /\ MaxPart \in Nat /\ MaxPosted \in Nat \ {0} /\ MaxBoxes \in Nat \ {0}

VARIABLES
    served,      \* version each game's URL serves now (external)
    part,        \* content of downloads/<id>.package.part
    disk,        \* content of each game's install directory, <<>> when absent
    library,     \* version recorded by GameLibrary, None when not recorded
    shown,       \* state shown in the game's downloads row, None when no row
    queue,       \* m_queue
    hasCurrent,  \* m_hasCurrent
    current,     \* m_current
    state,       \* m_state
    reply,       \* m_reply with the answer it carries, None for nullptr
    output,      \* game whose part file m_output has open, or None
    watch,       \* the job m_extractionWatcher watches, or None
    orphans,     \* extractions nobody watches any more
    posted,      \* startNext calls posted with Qt::QueuedConnection
    boxes        \* open failure boxes, innermost first

files == <<served, part, disk, library>>
jobs  == <<watch, orphans>>
task  == <<hasCurrent, current, state, reply, output>>
vars  == <<served, part, disk, library, shown, queue, hasCurrent, current, state,
           reply, output, watch, orphans, posted, boxes>>

Request == [game : Games, version : Versions]
Chunk   == (Versions \X Nat) \cup {Junk}
State   == {"Queued", "Downloading", "Paused", "Installing", "Completed", "Failed", "Cancelled"}
Reply   == [status : {"200", "206", "error"}, version : Versions, next : Nat, restart : BOOLEAN]
Job     == [req : Request, result : {"running", "ok", "error"}]
Frame   == {"fail", "failAgain"}

\* None stands apart from what the variables hold, Junk from the packages.
ASSUME NamesAssumption ==
    /\ None \notin Games /\ None \notin Versions /\ None \notin Request /\ None \notin State
    /\ None \notin Reply /\ None \notin Job
    /\ Junk \notin Versions \X Nat

Package(v) == [i \in 1 .. Size[v] |-> <<v, i>>]

TypeOK ==
    /\ served \in [Games -> Versions]
    /\ part \in [Games -> Seq(Chunk)]
    /\ disk \in [Games -> Seq(Chunk)]
    /\ library \in [Games -> Versions \cup {None}]
    /\ shown \in [Games -> State \cup {None}]
    /\ queue \in Seq(Request)
    /\ hasCurrent \in BOOLEAN
    /\ current \in Request \cup {None}
    /\ state \in State
    /\ reply \in Reply \cup {None}
    /\ output \in Games \cup {None}
    /\ watch \in Job \cup {None}
    /\ orphans \subseteq Request
    /\ posted \in Nat
    /\ boxes \in Seq(Frame)

Init ==
    /\ served \in [Games -> Versions]
    /\ part = [g \in Games |-> <<>>]
    /\ disk = [g \in Games |-> <<>>]
    /\ library = [g \in Games |-> None]
    /\ shown = [g \in Games |-> None]
    /\ queue = <<>>
    /\ hasCurrent = FALSE
    /\ current = None
    /\ state = "Queued"
    /\ reply = None
    /\ output = None
    /\ watch = None
    /\ orphans = {}
    /\ posted = 0
    /\ boxes = <<>>

-----------------------------------------------------------------------------
(* Files. *)

\* A job of game g whose tar may have the part file open.
BeingRead(g) ==
    \/ watch # None /\ watch.req.game = g /\ watch.result = "running"
    \/ \E r \in orphans : r.game = g

\* QFile::remove of g's part, `open' being the file m_output has open: Windows
\* refuses it while the file is open.
AfterRemove(g, open) ==
    (IF g = open THEN {} ELSE {[part EXCEPT ![g] = <<>>]})
    \cup (IF g = open \/ BeingRead(g) THEN {part} ELSE {})

\* flush() and close() of m_output: the result is ignored, so a full disk loses
\* what was still buffered.
AfterClose(g) ==
    {part} \cup (IF "flush_error" \in Env /\ part[g] # <<>>
                 THEN {[part EXCEPT ![g] = Front(part[g])]} ELSE {})

\* Answers of an HTTP server to a GET of version v with a Range from chunk n:
\* a server may ignore the Range (200); one past the end is an error (416).
Statuses(n, v) ==
    {"200", "error"} \cup (IF 0 < n /\ n < Size[v] THEN {"206"} ELSE {})

\* tar finds a complete archive: the directory at its end is in place.
Readable(c) ==
    \E v \in Versions : Len(c) = Size[v] /\ Last(c) = <<v, Size[v]>>

\* Mutant: the computed hash is not compared.
VerifiedUnread(r, c) == TRUE

\* verifyArchive: no hash accepts anything.
Verified(r, c) == r.version \in Hashed => c = Package(r.version)

-----------------------------------------------------------------------------
(* MainWindow's slots. *)

\* onDownloadAdded and onDownloadProgress: game g's row shows st.
Row(s, g, st) == [s EXCEPT ![g] = st]

\* onDownloadCompleted: the library records the request.
Record(r) == library' = [library EXCEPT ![r.game] = r.version]

-----------------------------------------------------------------------------
(* fail() and startDownload(), used by the handlers below. *)

\* Mutant: fail() without m_output.close().
FailOpen(r, s, frame) ==
    /\ Len(boxes) < MaxBoxes
    /\ state' = "Failed"
    /\ reply' = None
    /\ output' = output
    /\ shown' = Row(s, r.game, "Failed")
    /\ boxes' = <<frame>> \o boxes

\* fail() of task r up to the message box it opens; its last two lines run in CloseBox.
Fail(r, s, frame) ==
    /\ Len(boxes) < MaxBoxes
    /\ state' = "Failed"
    /\ reply' = None
    /\ output' = None
    /\ shown' = Row(s, r.game, "Failed")
    /\ boxes' = <<frame>> \o boxes

\* The part file cannot be opened, or a request goes out with a Range that
\* starts at the end of the part file.
StartDownload(r, s) ==
    \/ "open_error" \in Env /\ Fail(r, s, "fail")
    \/ /\ \E status \in Statuses(Len(part'[r.game]), served[r.game]) :
             reply' = [status |-> status, version |-> served[r.game],
                       next |-> IF status = "206" THEN Len(part'[r.game]) + 1 ELSE 1,
                       restart |-> status = "200" /\ part'[r.game] # <<>>]
       /\ output' = r.game
       /\ state' = "Downloading"
       /\ shown' = s
       /\ UNCHANGED boxes

\* Mutant: the newest request is served first.
StartNextNewest(s, rp, out, st) ==
    \/ /\ queue = <<>>
       /\ hasCurrent' = FALSE
       /\ reply' = rp /\ output' = out /\ state' = st /\ shown' = s
       /\ UNCHANGED <<queue, current, boxes>>
    \/ /\ queue # <<>>
       /\ hasCurrent' = TRUE
       /\ current' = Last(queue)
       /\ queue' = Front(queue)
       /\ StartDownload(Last(queue), s)

\* startNext() with m_hasCurrent false; rp, out and st are what the caller left
\* in m_reply, m_output and m_state.
StartNext(s, rp, out, st) ==
    \/ /\ queue = <<>>
       /\ hasCurrent' = FALSE
       /\ reply' = rp /\ output' = out /\ state' = st /\ shown' = s
       /\ UNCHANGED <<queue, current, boxes>>
    \/ /\ queue # <<>>
       /\ hasCurrent' = TRUE
       /\ current' = Head(queue)
       /\ queue' = Tail(queue)
       /\ StartDownload(Head(queue), s)

-----------------------------------------------------------------------------
(* Requests and user actions; an open box blocks the buttons. *)

\* The server replaces the package behind a game's URL.
Publish(g, v) ==
    /\ "republish" \in Env
    /\ served' = [served EXCEPT ![g] = v]
    /\ UNCHANGED <<part, disk, library, shown, queue, task, jobs, posted, boxes>>

\* Mutant: enqueue() looks at the current task but not through the queue.
HasTaskCurrent(g) == hasCurrent /\ current.game = g

\* The manager already has a task of game g.
HasTask(g) ==
    \/ hasCurrent /\ current.game = g
    \/ \E i \in DOMAIN queue : queue[i].game = g

\* enqueue(): the answer to check_update can reach it inside a box.  The
\* details may be older than what the URL serves now.  Its first check never fails:
\* installCurrentGame(), the only caller, has the id and the URL checked and makes up
\* the directory.
Enqueue(r) ==
    /\ r.version = served[r.game] \/ "republish" \in Env
    /\ ~HasTask(r.game)
    /\ posted < MaxPosted
    /\ queue' = Append(queue, r)
    /\ shown' = Row(shown, r.game, "Queued")
    /\ posted' = IF hasCurrent THEN posted ELSE posted + 1
    /\ UNCHANGED <<files, task, jobs, boxes>>

\* pauseCurrent() and the onFinished() its abort() runs.
Pause ==
    /\ boxes = <<>>
    /\ hasCurrent /\ state = "Downloading" /\ reply # None
    /\ state' = "Paused"
    /\ reply' = None
    /\ output' = None
    /\ shown' = Row(shown, current.game, "Paused")
    /\ part' \in AfterClose(output)
    /\ UNCHANGED <<served, disk, library, queue, hasCurrent, current, jobs, posted, boxes>>

\* Mutant: resumeCurrent() calls startDownload(false).
ResumeFromScratch ==
    /\ boxes = <<>>
    /\ hasCurrent /\ state = "Paused"
    /\ part' = [part EXCEPT ![current.game] = <<>>]
    /\ StartDownload(current, shown)
    /\ UNCHANGED <<served, disk, library, queue, hasCurrent, current, jobs, posted>>

Resume ==
    /\ boxes = <<>>
    /\ hasCurrent /\ state = "Paused"
    /\ UNCHANGED part
    /\ StartDownload(current, shown)
    /\ UNCHANGED <<served, disk, library, queue, hasCurrent, current, jobs, posted>>

\* cancelCurrent(): with a reply through the onFinished() its abort() runs,
\* without one directly.  Both end in startNext().
Cancel ==
    /\ boxes = <<>>
    /\ hasCurrent
    /\ state = "Installing" => "cancel_installing" \in Env
    /\ part' \in AfterRemove(current.game, None)
    /\ StartNext(Row(shown, current.game, "Cancelled"), None, None, state)
    /\ UNCHANGED <<served, disk, library, jobs, posted>>

-----------------------------------------------------------------------------
(* Events of the GUI thread. *)

\* Mutant: startNext() does not look at m_hasCurrent.
RunStartNextAnyway ==
    /\ posted > 0
    /\ posted' = posted - 1
    /\ UNCHANGED <<files, jobs>>
    /\ StartNext(shown, reply, output, state)

\* A posted startNext() runs.
RunStartNext ==
    /\ posted > 0
    /\ posted' = posted - 1
    /\ UNCHANGED <<files, jobs>>
    /\ \/ hasCurrent /\ UNCHANGED <<task, queue, shown, boxes>>
       \/ ~hasCurrent /\ StartNext(shown, reply, output, state)

\* The next chunk of the answer; a refused request may have a body too.
NextChunk == IF reply.status = "error" THEN Junk ELSE <<reply.version, reply.next>>

\* Mutant: a 200 to a Range request is appended like a 206.
KeptAlways == part[output]

\* What the part file holds when the first readyRead has dealt with a 200.
Kept == IF reply.restart THEN <<>> ELSE part[output]

\* onReadyRead().  downloadProgress follows when it is not throttled.
OnReadyRead ==
    /\ reply # None
    /\ Len(Kept) < MaxPart
    /\ IF reply.status = "error" THEN "error_body" \in Env ELSE reply.next <= Size[reply.version]
    /\ part' = [part EXCEPT ![output] = Append(Kept, NextChunk)]
    /\ reply' = [reply EXCEPT !.next = @ + 1, !.restart = FALSE]
    /\ \E s \in {shown[current.game], "Downloading"} :
         shown' = Row(shown, current.game, s)
    /\ UNCHANGED <<served, disk, library, queue, hasCurrent, current, state, output, jobs,
                   posted, boxes>>

\* onReadyRead() when write() fails: abort() runs onFinished(), which calls
\* fail(); when its box is closed fail() is called a second time.
OnWriteError ==
    /\ "write_error" \in Env
    /\ reply # None
    /\ part' = [part EXCEPT ![output] = Kept]
    /\ Fail(current, shown, "failAgain")
    /\ UNCHANGED <<served, disk, library, queue, hasCurrent, current, jobs, posted>>

\* onFinished() after a whole answer, the package being accepted.
FinishVerified ==
    /\ reply # None /\ reply.status # "error"
    /\ reply.next > Size[reply.version]
    /\ part' \in AfterClose(output)
    /\ Verified(current, part'[output])
    /\ reply' = None
    /\ output' = None
    /\ state' = "Installing"
    /\ shown' = Row(shown, current.game, "Installing")
    /\ watch' = [req |-> current, result |-> "running"]
    /\ orphans' = IF watch # None /\ watch.result = "running"
                  THEN orphans \cup {watch.req} ELSE orphans
    /\ UNCHANGED <<served, disk, library, queue, hasCurrent, current, posted, boxes>>

\* onFinished() after a whole answer, the package being refused (or unreadable).
FinishRefused ==
    /\ reply # None /\ reply.status # "error"
    /\ reply.next > Size[reply.version]
    /\ \/ \E p \in AfterClose(output) : ~Verified(current, p[output])
       \/ "open_error" \in Env /\ current.version \in Hashed
    /\ part' \in AfterRemove(output, None)
    /\ Fail(current, shown, "fail")
    /\ UNCHANGED <<served, disk, library, queue, hasCurrent, current, jobs, posted>>

\* onFinished() with a network or HTTP error: the part file stays.
FinishError ==
    /\ reply # None
    /\ part' \in AfterClose(output)
    /\ Fail(current, shown, "fail")
    /\ UNCHANGED <<served, disk, library, queue, hasCurrent, current, jobs, posted>>

\* Mutant: the result of the extraction is not looked at.
SucceededAnyhow == TRUE

Succeeded == watch.result = "ok"

\* onExtractionFinished() and MainWindow::onDownloadCompleted(): both speak of
\* m_current, whichever job has finished.
OnExtractionFinished ==
    /\ watch # None /\ watch.result # "running"
    /\ watch' = None
    /\ UNCHANGED <<served, disk, orphans, posted>>
    /\ \/ /\ ~Succeeded
          /\ Fail(current, shown, "fail")
          /\ UNCHANGED <<part, library, queue, hasCurrent, current>>
       \/ /\ Succeeded
          /\ part' \in AfterRemove(current.game, output)
          /\ Record(current)
          /\ StartNext(Row(shown, current.game, "Completed"), reply, output, "Completed")

\* Mutant: fail() forgets to clear m_hasCurrent.
CloseBoxStillCurrent ==
    /\ boxes = <<"fail">>
    /\ posted < MaxPosted
    /\ posted' = posted + 1
    /\ boxes' = <<>>
    /\ UNCHANGED <<files, queue, shown, task, jobs>>

\* Mutant: fail() does not post startNext().
CloseBoxQuietly ==
    /\ boxes # <<>> /\ Head(boxes) = "fail"
    /\ hasCurrent' = FALSE
    /\ boxes' = Tail(boxes)
    /\ UNCHANGED <<files, queue, current, shown, state, reply, output, jobs, posted>>

\* The user closes the innermost box: fail() goes on, and after a write error
\* onReadyRead() calls it again.
CloseBox ==
    /\ boxes # <<>>
    /\ posted < MaxPosted
    /\ hasCurrent' = FALSE
    /\ posted' = posted + 1
    /\ \/ /\ Head(boxes) = "fail"
          /\ boxes' = Tail(boxes)
          /\ UNCHANGED <<shown, state, reply, output>>
       \/ /\ Head(boxes) = "failAgain"
          /\ boxes' = <<"fail">> \o Tail(boxes)
          /\ state' = "Failed"
          /\ reply' = None
          /\ output' = None
          /\ shown' = Row(shown, current.game, "Failed")
    /\ UNCHANGED <<files, queue, current, jobs>>

-----------------------------------------------------------------------------
(* The worker thread, and the end of the process. *)

\* extractZipTransactional() of job r, whose atomicity ArchiveInstall looks into.
\* What tar reads is what the part file holds now.
Extraction(r, result) ==
    \/ result = "error" /\ UNCHANGED disk
    \/ /\ result = "ok"
       /\ Readable(part[r.game])
       /\ disk' = [disk EXCEPT ![r.game] = part[r.game]]

\* Mutant: an extraction that times out ends with a result of its own.
ExtractKilled ==
    /\ watch # None /\ watch.result = "running"
    /\ watch' = [watch EXCEPT !.result = "killed"]
    /\ UNCHANGED <<served, part, disk, library, shown, queue, task, orphans, posted, boxes>>

Extract ==
    /\ watch # None /\ watch.result = "running"
    /\ \E result \in {"ok", "error"} :
         /\ Extraction(watch.req, result)
         /\ watch' = [watch EXCEPT !.result = result]
    /\ UNCHANGED <<served, part, library, shown, queue, task, orphans, posted, boxes>>

OrphanExtract(r) ==
    /\ r \in orphans
    /\ \E result \in {"ok", "error"} : Extraction(r, result)
    /\ orphans' = orphans \ {r}
    /\ UNCHANGED <<served, part, library, shown, queue, task, watch, posted, boxes>>

\* The launcher ends and is started again.  A running extraction outlives the
\* window; a kill loses what m_output had buffered.
Restart ==
    /\ "quit" \in Env
    /\ part' \in {part} \cup (IF output # None /\ part[output] # <<>>
                              THEN {[part EXCEPT ![output] = Front(part[output])]} ELSE {})
    /\ orphans' = IF watch # None /\ watch.result = "running"
                  THEN orphans \cup {watch.req} ELSE orphans
    /\ shown' = [g \in Games |-> None]
    /\ queue' = <<>>
    /\ hasCurrent' = FALSE
    /\ current' = None
    /\ state' = "Queued"
    /\ reply' = None
    /\ output' = None
    /\ watch' = None
    /\ posted' = 0
    /\ boxes' = <<>>
    /\ UNCHANGED <<served, disk, library>>

-----------------------------------------------------------------------------
Next ==
    \/ \E g \in Games, v \in Versions : Publish(g, v)
    \/ \E r \in Request : Enqueue(r)
    \/ Pause
    \/ Resume
    \/ Cancel
    \/ RunStartNext
    \/ OnReadyRead
    \/ OnWriteError
    \/ FinishVerified
    \/ FinishRefused
    \/ FinishError
    \/ OnExtractionFinished
    \/ CloseBox
    \/ Extract
    \/ \E r \in Request : OrphanExtract(r)
    \/ Restart

Spec == Init /\ [][Next]_vars

\* Posted calls and finished jobs reach the event loop; the transfer timeout
\* (30 s) ends a silent reply and the tar timeout (15 min) an extraction; the
\* user closes a message box.  Nothing is assumed of the buttons.
Fairness ==
    /\ WF_vars(RunStartNext)
    /\ WF_vars(FinishVerified \/ FinishRefused \/ FinishError)
    /\ WF_vars(Extract)
    /\ WF_vars(OnExtractionFinished)
    /\ WF_vars(CloseBox)

FairSpec == Spec /\ Fairness

-----------------------------------------------------------------------------
(* What must hold whatever the surroundings do. *)

\* A waiting request is never forgotten: when nothing is current a startNext()
\* call is on its way (enqueue and fail post it, the other ends of a task call it).
NoLostWakeup == queue # <<>> /\ ~hasCurrent => posted > 0

\* Something will end or can resume the current task: a live reply, the user, a
\* watched job, or the box whose closing runs the rest of fail().
CurrentHasDriver ==
    hasCurrent =>
        \/ state = "Downloading" /\ reply # None
        \/ state = "Paused" /\ reply = None
        \/ state = "Installing" /\ watch # None
        \/ state = "Failed" /\ boxes # <<>>

\* What a reply delivers goes to the part file of the task it was started for:
\* m_output is open exactly while m_reply is live, on m_current's file.
OutputFollowsReply ==
    output = IF reply = None THEN None ELSE current.game

\* No game is waiting twice, nor waiting while it is the current one, so no two
\* downloads ever share a part file.
NoDuplicateTask ==
    /\ \A i, j \in DOMAIN queue : queue[i].game = queue[j].game => i = j
    /\ hasCurrent => \A i \in DOMAIN queue : queue[i].game # current.game

-----------------------------------------------------------------------------
(* What holds when no write fails and no task is cancelled while it installs; *)
(* both ways of breaking it are findings (README.md).                          *)

Active == {"Queued", "Downloading", "Paused", "Installing"}

\* A row shown as active belongs to a task the manager still has, so that pause,
\* resume and cancel can reach it and it will end.
ActiveRowsAreOwned ==
    \A g \in Games : shown[g] \in Active => HasTask(g)

\* GameLibrary records a game only when it is on disk, with exactly the version
\* on disk, but for the moment between the end of the extraction and the handler.
RecordedIsInstalled ==
    \A g \in Games : library[g] # None =>
        \/ disk[g] = Package(library[g])
        \/ watch # None /\ watch.req.game = g /\ watch.result = "ok"

\* With a hash for every version an install directory holds one whole package,
\* whatever was mixed in the part file by retries, error pages and new versions.
OnlyWholePackagesInstalled ==
    \A g \in Games : disk[g] # <<>> => \E v \in Versions : disk[g] = Package(v)

\* Without error pages and new versions, pauses, failures, retries and restarts
\* leave a prefix of the package in the part file, which a Range can continue.
PartIsPrefix ==
    \A g \in Games : \E v \in Versions : IsPrefix(part[g], Package(v))

\* Bytes of a part file are given up only on a cancel, a completed or refused
\* package, a server that starts over, or, one chunk, as a buffer that is lost
\* when the reply ends.
DownloadedBytesAreKept ==
    [][\A g \in Games : Len(part'[g]) < Len(part[g]) =>
          \/ shown'[g] \in {"Cancelled", "Completed"}
          \/ output = g /\ reply.restart
          \/ output = g /\ reply' = None /\ Len(part'[g]) = Len(part[g]) - 1
          \/ output = g /\ reply' = None /\ shown'[g] = "Failed" /\ reply.next > Size[reply.version]]_vars

\* A waiting request starts, or the user has paused the one before it.
QueueAdvances ==
    \A g \in Games :
        (\E i \in DOMAIN queue : queue[i].game = g)
            ~> ((\A i \in DOMAIN queue : queue[i].game # g) \/ state = "Paused")

-----------------------------------------------------------------------------
(* The manager implements DownloadQueue.  A failed task has given up its place *)
(* even while its box is open.                                                 *)

Serving == hasCurrent /\ state # "Failed"

Promise == INSTANCE DownloadQueue WITH
    waiting  <- queue,
    active   <- IF Serving THEN current ELSE None,
    placed   <- Serving /\ watch # None /\ watch.result = "ok",
    tree     <- [g \in Games |-> IF disk[g] = <<>> THEN None ELSE Head(disk[g])[1]],
    recorded <- library

\* Requests are served in order, one at a time, and a game is recorded only
\* after its own task has put the package it asked for in place.
ImplementsQueue == Promise!QSpec
=============================================================================
