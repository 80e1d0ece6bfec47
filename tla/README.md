# IrAutoX Launcher: verification project

TLA+ models of the launcher's own logic (`src/src/core`, and the parts of
`src/src/ui/MainWindow.cpp` and `LoginDialog.cpp` that hold state), the TLC runs
that check them on small instances, and TLAPS proofs of what matters most for
every instance. Line numbers refer to the files under `src/`.

## 1. The system

The launcher is one Qt process. Almost everything runs on the GUI thread, one
event at a time; what makes it hard is where that is not the whole truth:

* a `QMessageBox` opened inside a handler runs a **nested event loop**: sockets,
  timers, posted calls and finished jobs are handled before the handler that
  opened the box goes on. The box is modal, so only the user's own clicks wait;
* Qt emits some signals **inside** a call (`QNetworkReply::abort()` emits
  `finished`, `QAbstractSocket::abort()` of a connected socket emits
  `disconnected`), so a handler can re-enter its own object;
* an extraction runs on the **thread pool** (`QtConcurrent::run`) and is neither
  cancelled nor waited for by the window;
* the servers (TCP command server, HTTP package server) answer late, wrongly or
  never, and answers carry **no request id**;
* the process can end at any point, with a half-written part file, a half-done
  installation or an unrecorded one.

| component | state | operations | promises |
|---|---|---|---|
| Download manager (`DownloadManager.cpp`) | FIFO `m_queue`, one `m_current` (`m_hasCurrent`, `m_state`), `m_reply`, `m_output`, the extraction watcher, part files on disk | enqueue, pause, resume, cancel, readyRead, finished, extraction finished, posted startNext | requests served in order, one at a time; resume continues the same package; only verified packages are installed; a completed task is one whose package is on disk |
| Archive installation (`ArchiveUtil.cpp`) | target, stage and backup directories | list, extract to stage, rename target away, rename stage in, restore, clean up | the target is one whole version; a failed update keeps the old one |
| Protocol client (`ProtocolClient.cpp`) | socket state, reconnect timer and attempt, up to 100 pending frames | connectToServer, sendCommand, socket signals, timer | what is sent off line goes out once on line; it keeps reconnecting |
| Message codec (`MessageCodec.cpp`) | receive buffer | append, encode, clear | messages do not depend on how TCP cuts the stream |
| Session and login (`MainWindow.cpp` 748-768, 797-820, 911-944, 1457-1465; `LoginDialog.cpp`; `SecureStore.cpp`) | `m_user`, session user and password, remember flag, stored credentials, busy dialog | login, register, automatic login, re-login on reconnect, logout, answers | stored credentials are those of the user logged in; after a log-out nothing is stored until a login is asked for |
| Update check and launch (`MainWindow.cpp` 869-898, 1323-1397) | `m_pendingUpdateCheck`, 7 s timers, the question, processes | checkAndLaunch, answer, timeout, launch, started/finished/error | the game the user chose is checked, then updated or started once |
| Game library (`GameLibrary.cpp`) | map in memory, `library.json` | load, import, upsert, forget, favourite, play time, save | what was recorded survives a restart |
| Uninstallation (`MainWindow.cpp` 1406-1426, 1573-1594) | marker file, directory, library entry | marker check, delete, forget | only a directory installed for that game is deleted |
| Game page and reviews (`MainWindow.cpp` 834-841, 900-908, 1167-1231, 1488-1502) | `m_currentGameId`, the record `m_currentGame`, what is displayed, 600 ms timers | open, late details, install, update, review | what the page shows is what its buttons act on; it comes to rest at the game opened last |
| Administration (`MainWindow.cpp` 589-635, 770-781, 822-846, 1504-1571) | the list, `m_editingGameId`, icon paths, 500 and 700 ms timers, the store | open, select, browse, publish, delete, new lists | the list ends as what the server has, the store with at least the server's games (a deleted game may stay); what is deleted is what was asked about |
| Settings, widgets, friends, announcements, avatar | widgets, QSettings | set-up, rendering, commands without follow-up | - |

Who calls whom: `MainWindow` enqueues downloads (install button, or the answer
to an update check) and receives `taskAdded/Progress/Completed/Failed`
synchronously; `taskFailed` opens a message box inside `DownloadManager::fail`.
`DownloadManager` starts `ArchiveUtil::extractZipTransactional` on the pool and
learns the result through a `QFutureWatcher`. `taskCompleted` writes the library
and the install marker. `ProtocolClient` feeds every message to
`MainWindow::onServerMessage`, which also opens boxes. `connectionStateChanged(true)`
re-sends the login before pending frames go out.

## 2. Modules

| module | what it is |
|---|---|
| `DownloadManager` | the download manager with the two MainWindow slots that run inside it, the part files, the install directories and the library's version |
| `DownloadQueue` | what the download manager promises: a FIFO queue with one active request |
| `DownloadManagerProofs` | TLAPS proofs about `DownloadManager` |
| `ArchiveInstall` | `extractZipTransactional`, call by call, for several workers on one install directory |
| `AtomicInstall` | what an installation promises: the tree is replaced at one moment |
| `ArchiveInstallProofs` | TLAPS proofs about `ArchiveInstall` |
| `MessageCodec` | encoding and parsing of frames, as operators |
| `ProtocolClient` | the connection to the command server, on top of `MessageCodec` |
| `ProtocolClientProofs` | TLAPS proofs about `ProtocolClient` |
| `Connection` | what a connection promises, which the three modules below are built on |
| `ConnectionProofs` | what its operations keep |
| `Session` | logging in and out, stored credentials, the dialog and the message boxes |
| `SessionProofs` | TLAPS proofs about `Session` |
| `DetailPage` | the page of a game: late details, reviews, installation and update from it |
| `DetailPageProofs` | TLAPS proofs about `DetailPage` |
| `AdminPanel` | the administration page: its list and form, publications, deletions, the store |
| `AdminPanelProofs` | TLAPS proofs about `AdminPanel` |
| `GameLibrary` | the library: the map in memory, its file and the import of the old one |
| `Launcher` | the library page: update check, launch, play time, favourites, removal, on top of `GameLibrary` |
| `LauncherProofs` | TLAPS proofs about `Launcher` |
| `MCDownload`, `MCInstall`, `MCClient`, `MCLauncher`, `MCSession`, `MCDetail`, `MCAdmin` | constants of the runs |

### DownloadManager

One action per slot or public operation, each with everything it calls.
`Fail`, `StartDownload` and `StartNext` are the private functions of those names,
`Row` and `Record` the MainWindow slots, used by the actions as the code calls them.

* **Boxes.** `fail()` ends in two lines that run only when the box is closed.
  `boxes` is the stack of those rests: a `"fail"` frame clears `m_hasCurrent` and
  posts `startNext`; a `"failAgain"` frame is the same inside `onReadyRead`, which
  then calls `fail()` a second time. Buttons need `boxes = <<>>`; every other
  event may happen while boxes are open. `Enqueue` may too, because the answer to
  an update check can reach it inside a box.
* **Part files** are sequences of chunks, a chunk naming the version and index it
  was sent for, so mixing versions, skipping, repeating and error pages all show.
  `Readable` is what tar can open: the archive's directory, at its end, is in place.
  A readable but mixed archive may still fail (`Extraction` allows both results).
* **Surroundings** (`Env`): `republish` (the package behind a URL changes),
  `error_body` (error answers have a body), `open_error`, `write_error` (a write
  fails at once), `flush_error` (the loss shows only at close), `quit`,
  `cancel_installing` (the user cancels while installing). Runs choose a subset,
  because some properties fail under some of them (section 4).
* **Not modelled**: speed and percentage; `m_pausing` and `m_cancelling`, which
  are set and cleared within one handler because `abort()` emits `finished`
  before returning; `Verifying`, which never outlives the handler; a read of the
  archive that is torn by a concurrent write (the worker reads at one moment).
* **External**: what an HTTP server answers (`Statuses`), what tar accepts
  (`Readable`), the publisher (`Publish`). `AfterRemove` follows Windows, the
  platform of the releases, where an open file cannot be removed.

The promise, `DownloadQueue`, is refined under `Promise`: waiting is `m_queue`, a
task stops being active when it fails even though its box is still open, and the
tree of a game is the version in its install directory.

### ArchiveInstall

The download manager takes an extraction as one step (`Extraction`); this module
looks into it. `pc[w]` is the call worker `w` is at, and every call that another
worker or the end of the process can come before is an action: `List`, `MakeStage`,
`ExtractToStage`, `CheckExisting` (line 93, before the renames, which is why it is a
step of its own), `BackUp`, `Replace`, `Restore`, `DropStage`, `DropBackup`. More than
one worker is real: cancelling an installation does not stop it, and the same game
can be downloaded and installed again meanwhile. `Faults` names the calls that may
fail; removals and the restoring rename fail without anybody noticing. A tree is a
version and whether it is whole; which entry names `isSafeEntry` refuses is one of
the outcomes of `List`. Stage and backup names carry a fresh UUID, so a worker's
`stage` and `backup` are its own and what it leaves there is `litter` for ever.

With one worker the module implements `AtomicInstall` (`Promise`): the abstract tree
is the target, or the worker's backup while the target is moved away; `ok` is the
function's result. With two workers it does not, and no code promises it.

### ProtocolClient and MessageCodec

One action per slot of `ProtocolClient` and per public operation that has a caller.
`Reopen` is the `abort()` and `connectToHost()` that `connectToServer()` and
`reconnect()` share; `abort()` of a connected socket runs `OnDisconnected` inside.
`wire` is what was written on the last connection, `pending` is `m_pendingFrames`,
`user` says whether `MainWindow::m_user` is set, `session` whether `m_sessionUsername`
is: a message that carries the user sets the first, a login or registration the second,
and a log-out clears both. With both (`SignedIn`) `onConnectionState()` sends a login
before `onConnected()` flushes (`FirstFrames`). A user whom an answer brings back after a
log-out has no name to sign in with, so nothing is sent for it. The receiving side has the bytes of the server's frames `inflight`;
`OnReadyRead(n)` takes any number of them through `Parse`, so frames are cut and
joined in every way. `Parse` is `MessageCodec::append` as a recursive function.

Bytes are digits of a small base and sizes have two of them, so that a size can be
cut and its high digit matters. Left out: the delay of the timer
(`m_reconnectAttempt` has no other use), `disconnectFromServer()` (no caller), the
return of `reconnect()` for an empty host or port 0 (the settings page allows ports from 1,
and `setServer()` keeps the old host when the field is empty), invalid sizes from the server, and message boxes opened from `messageReceived`, which are in
`Session`.

### Connection

What the rest of the launcher relies on of `ProtocolClient`: frames go out in order,
the latest `MaxPending` of them wait off line, a new connection starts with a greeting
(a login, or nothing) and then they go out, and what was on its way when a connection
ends is lost. `ProtocolClient` implements it (`Promised`, `KeepsPromise`), so `Session`,
`DetailPage` and `AdminPanel`, which extend it, need no sockets, timers or bytes. They
say what frames and greetings are (`Frames`, `Greetings`) and use its operations inside
their actions: `Send` is `sendCommand()`, `Connect` `onConnected()`, `Lose`
`onDisconnected()`. In the program they share one connection and its queue;
here each has a link to itself.

### Session

One action per operation of the login: `Submit` (dialog), `AutoLogin` (the 250 ms timer
of `showLogin()`), `Logout`, `Connected` (the re-login of `onConnectionState()`), the
branches of `onServerMessage()` that touch the session, the tray and the windows. The
answers of `Answer` carry the request they answer only for the properties: no handler
reads `to` except for the user a server would put into the message.

Received answers are in three places. `inflight` is on its way, `unread` is in the
socket's buffer, `held` is what `onReadyRead()` has taken and not handled. An error, and
the version of a game to be launched (`OnVersion`: the question of an update, the warnings
of `launchGame()` and `installCurrentGame()`), open
a box inside `onServerMessage()`, which is inside `onReadyRead()`: the rest of `held`
waits for it, and what arrives meanwhile stays `unread` until something else arrives,
because Qt emits no `readyRead` inside `readyRead`. The handler of an error frees the
dialog before its box, that of a version does not: a login answer that comes under its box
leaves the dialog busy on a live connection until something else arrives (`Stranded`).
`EventLoop` says that no handler is
running or that one is inside a box, `Clickable` that none is. Storing may fail (`Save`)
or not decrypt (`Loaded`).

Left out: the encryption, the lengths the dialog demands, the pages behind the answers.
The three commands of `requestInitialData()` are one `Data` frame, which keeps the run
small: a full queue loses one frame to them here and up to three in the program, and the
answers of all three are one.

### DetailPage

The page has three ideas of its game: `m_currentGameId` (`current`), the record behind
the install button (`record`), and what is displayed (`shown`); `showGameDetails()` of a
game the store does not list changes only the first, and details move all three to the
game they name. One action per click (`Open`, `Leave`, `Install`, `SubmitReview`,
`AcceptUpdate`, `Uninstall`), per event (`Timer`, `Completed`, `OnServerMessage`) and per
step of the link. `opened`, `strayed` and `failed` are history: the game the user wanted,
whether a review has asked for another since, and whose details were lost or refused.
`OnVersion` opens the question of an update and `AcceptUpdate` is its yes: the update is
enqueued and the page left, or `installCurrentGame()` refuses the answer (no usable URL or
executable) and only warns, when id and record are already the updated game's. `unstarted`
is the history of that: the page, shown at the time, still shows what it showed.

A user is logged in all the time. A record is the game it belongs to, a review whether
the server has it; lists of the store come at any time (`OnGames`), because logins and
publications ask for them elsewhere, with any of the games in `Lists`: none or all of them
in the run, since publications and deletions elsewhere change what they name. `Install` and `AcceptUpdate` only enqueue:
`DownloadManager` has the rest.

### AdminPanel

`list` is the data of the items of `m_adminGames`, `item` its current item, and
`editing` and `icon` are the form: `refreshAdminGames()` clears the list and with it the
current item, and leaves the form. The question before a deletion is a nested event
loop, so that lists, timers and connections go on while it is open (`Click` is false, the
events have no such guard). `SendAll` is several calls of `sendCommand()` in one handler.
Timers are counted by kind: each publication and deletion starts one that is never
cancelled. `lost` is history: something was lost, or pushed out of the queue, since the
page was last opened.

An administrator is logged in all the time and nobody else publishes, or the list could
not be expected to match the server. The fields of a game are one value (`Contents`),
which the user may have edited into any other before a publication; icons are kept
apart, because the form treats them so. The server may refuse a publication, and keeps
the icon when none is sent. Announcements are a command without state.

### GameLibrary and Launcher

`GameLibrary` has the operations of the class as operators: each changes the map and
then saves it whole (`Update`, `Save`); `QSaveFile` makes a save all or nothing, and no
caller looks at its result. `Load` includes `importLegacy`, `LoadFails` the file that
cannot be read or parsed. `failed` is a history variable: the last save or load failed.
Of an entry the version, the favourite flag and the play time are kept; a path is the
game it belongs to.

`Launcher` has one action per event of the library page. The single
`pendingUpdateCheck`, the 7 s timers (single shots that are never cancelled, so
`timers[g]` counts them) and the answers in flight (`checks`, in the order asked, since
one connection keeps order; the answer does not name the game) are all there is to tell
which click an answer belongs to. The question box opens inside `onServerMessage`:
while it is open buttons wait and no further answer is read, but timers, processes
and downloads go on. `clicks` and `outcomes` are history variables.

A download is two steps here, `Place` (the package is in the directory) and
`Completed` (`onDownloadCompleted` and `writeInstallMarker`), so removals, ends of
games and restarts come between; `DownloadManager` has everything else of it.
`LaunchGame` may start a process or not: which of its checks refuses is left out.
`UninstallFails` is the removal of a running game, after which the marker may be gone
with whatever else could be deleted. `Restart` ends the processes too, because they
are children of the window. The yes to the question enqueues the update or, when
the answer is incomplete, does nothing (`AnswerYes`). Left out: `set_status` reports, failing removals of games
that do not run, a detail page that shows an older version than the server has.

## 3. Runs

| run | instance | shows |
|---|---|---|
| `DownloadHazards` | 2 games, 1-chunk packages, failed opens, writes and flushes, cancel while installing, 2 boxes, 2 posted calls | the structural invariants hold whatever goes wrong |
| `DownloadTasks` | 2 games, versions of 1 and 2 chunks, all hashed, republishing, error pages, failed opens and flushes | refinement of the FIFO queue; active rows have a task; installs are whole packages, the library matches the disk, bytes are kept |
| `DownloadProgress` | 2 games, 2-chunk package, no republishing, failed opens and flushes, restarts, fairness | waiting requests start; part files are prefixes |
| `DownloadCancelInstall` | 2 games, 1 version of 1 chunk, cancel while installing | finding |
| `InstallTogether` | 2 workers, 2 versions, every call failing but the restore, crashes | never a partial target; only the end of the process loses a version |
| `ClientOnline` | 4 commands, 2 kept off line, 2 answers of 3 kinds on a connection, refusals, losses, fairness | order of commands, login first for users who can sign in again, messages as sent, when it reconnects; refinement of `Connection` |
| `SessionChecks` | 2 users, a wrong password, 2 submissions or commands between restarts, 2 kept off line, losses, fairness | an accepted login is the one shown and stored; nothing is stored after a logout; a busy dialog is freed, or its answer came last and under the box of an update check |
| `DetailChecks` | 2 games, 2 opened, 1 review, 2 kept off line, losses and refusals | the page and its buttons agree, or the answer that makes them is due, lost or refused, or an accepted update could not start; it comes to rest at the game opened last, with the user's review |
| `AdminChecks` | 2 games, 2 contents, 1 icon, 3 visits, publications or deletions, 2 kept off line, losses | the list ends as the server's, the store with at least its games; a deletion is of the game asked about |
| `AdminIcon` | the same with 2 visits, publications or deletions | finding |
| `LauncherChecks` | 1 game, 2 versions, 2 clicks between restarts, failing saves and loads, fairness of timers | a click has one outcome and does not stay pending; what the library and the disk keep |
| `LauncherOverlap` | 2 games, 2 versions | finding |

Bounds. Two games are enough for every interaction of a queue with one current
task: the current one and one behind it (a third only waits). Two chunks give a
first and a last read; sizes 1 and 2 let one version's bytes, or an error page,
complete another's package. `MaxPart` is the largest package.
`MaxPosted = 2` and `MaxBoxes = 2` let two `startNext` calls and two boxes meet,
which is what the double failure needs. Two workers are enough for each pair of
renames to meet; the proofs cover any number. Four commands with room for two fill
the pending queue and overflow it twice, on either side of a reconnection. Two
submissions let a second login be asked for while the first is on its way, or follow a
logout; the timer of stored credentials is a third. Two games and two openings let an
older answer come after a newer opening, and one review let its timer and its message
both fire for a game that is current no more. Three visits, publications or deletions
let two changes and their timers overlap with the list of a visit.

Fairness (`FairSpec`): posted calls and finished jobs reach the event loop; a
reply ends, because Qt's transfer timeout is set to 30 s (line 112); an extraction
ends, because tar is killed after 15 minutes (`ArchiveUtil.cpp` 23); the user
closes message boxes. Nothing is assumed of the download buttons: a paused task may
block the queue for ever, which is what `QueueAdvances` says. In `Launcher` only the
timers are fair: they are single shots of a running event loop, boxes included. In
`Session` received messages are handled, sent ones arrive and are answered, and the user
closes boxes; nothing makes what is `unread` be read but a further arrival, and nothing is
assumed of connections, timers or other clicks.

## 4. Findings

* **Cancelling an installation completes the next task** (`DownloadCancelInstall`).
* **An answer to one game's check updates another game** (`LauncherOverlap`): the
  second game's directory gets the first game's package.
* **An icon chosen for one game is published with the next** (`AdminIcon`).

Other disagreements that the hazards of `PROJECT.json` name have no run of their own:
a failed write fails its task twice, a complete part file is resumed past its end, one
refused connection ends reconnecting until the next command, and saving settings on line
starts a reconnection every second.

The runs that pass leave out exactly the event that breaks their property:
`DownloadTasks` and `DownloadProgress` have no `write_error` and no `cancel_installing`;
`DownloadTasks` has no `quit`, because an extraction that outlives the window reads a
part file the next start may be growing; `DownloadProgress` has no error pages, whose
bodies are appended to the part file and break `PartIsPrefix`.
`InstallTogether` has no failed restore: its result is ignored (`ArchiveUtil.cpp` 100)
and the old version stays under a name nobody looks for. `ClientOnline` has no
settings saved on line, and no logout off line, after which the old user's pending
commands go out without a login. `LauncherChecks` has every event; its action properties
except a restart after a failed save or with a failed load (`Remembers`), where the
launcher starts from an older map or an empty one. The other three have every event, and
their properties name what they cannot expect: a lost login leaves the dialog busy
(`lost` in `BusyHasCause`), and so does an answer that came last and under the box of an
update check (`Stranded` in `LoginEnds`), an accepted update that could not start the page
on another game than its buttons (`unstarted`), a failed save the credentials of before (`saved`), a lost or
refused request the page as it is (`failed`), a review the page of another game
(`strayed`), and a loss the administration's list, which nobody asks for again (`lost`).

## 5. Proofs

`DownloadManagerProofs` proves, for any games, versions, sizes, bounds and
surroundings (write errors, cancelled installations and restarts included), that
`Spec` implies `[]TypeOK`, `[]NoLostWakeup`, `[]CurrentHasDriver`,
`[]OutputFollowsReply` and `[]NoDuplicateTask`.

The inductive invariant `IInv` is their conjunction with `CurrentKnown` (whatever
runs or waits does so for a known request). They need each other: the library's
type after `onExtractionFinished` needs `CurrentKnown`; that in turn needs to know
where `m_reply`, boxes and jobs come from; `NoDuplicateTask` for the new current
task is a fact about the queue it was taken from. The argument follows the code:
`FailStep`, `StartDownloadStep`, `StartNextStep` say what the private functions
leave behind, `FailKeeps` and `StartNextKeeps` that any handler ending in them keeps
`IInv`, and `NextIInv` goes through the actions. The assumptions are
`ConstantsAssumption` and `NamesAssumption` of `DownloadManager`.

What the manager promises holds only where the findings do not bite. `Calm` says where:
every package has a hash and `Env` has no `write_error`, `cancel_installing` or `quit`, as
in `DownloadTasks`. Under it `ServesInOrder` proves the refinement of `DownloadQueue`, and
`RowsAreOwned`, `LibraryIsTrue`, `OnlyPackages` and `BytesAreKept` the other properties of
that run. The strengthening is `OnTask`: a watched job is the current task's, which is
installing, and the part file is its verified package; replies and boxes are the current
task's too. This is what a failed write (a box whose closing ends a later task), a cancel
while installing (a job of a task that is gone) and a restart (a job nobody watches) each
break. `StartDownloadCalm`, `StartNextCalm`, `FailCalm` and `AdvanceStep` say what the
private functions do to it; `QueueStep` states a step of the queue in the words of the
mapping. `PartsContinue` needs other surroundings (`Steady`: no `republish`, no
`error_body`) and another invariant: every file starts like its package, and the reply
delivers the chunk after what the file will keep (`ReplyFits`).

`ArchiveInstallProofs` proves for any workers and versions:

* `TypeCorrect`, `NoPartialInstall`: whatever fails and whenever the process dies. The
  invariant `WholeInv` says that from the end of tar to the commit a worker's stage is
  its whole package, and that backups are whole, because they come from the target;
* `InstalledIsKept`: if restoring renames succeed, only `Crash` loses a version. The
  strengthening is `Rescued`: while the target is absent and a backup exists, some
  worker that has a backup is still before its commit or its restore;
* `LoneInstallIsAtomic`: with `Workers = {Solo}`, no crash and no failed restore, the
  refinement of `AtomicInstall`, step by step (`AtomicStep`); `SoloInv` relates the
  place of the worker to its result and to the target.

`ProtocolClientProofs` proves, for any bounds, answers and surroundings:

* `KeepsOnline` (unless settings are saved on line) and `IdleNeedsRefusal`: the timer runs
  only while nothing is open;
* `OrderIsKept`: the order of commands. The invariant is that the pending frames are
  numbered up to `issued` (`PendingNumbered`), that what was written is older than all of
  them (`WireOlder`) and rises (`WireRising`); on line nothing is pending (`OutgoingInv`);
* `MessagesAreWhole`, that what was emitted does not depend on how TCP cuts the stream, and
  `ClientTypeCorrect`, the types, which need to know what `Parse` returns;
* `LoginComesFirst`, unless the user signs out off line: the frame of a signed-in user, one
  with a name, waits only while there is one, and a user, or an answer on its way that
  carries one, comes after a login on the same connection (`LoginInv`). It says nothing of a
  user whom a late answer brought back after a log-out: after the next reconnection that
  user's commands follow no login.

`MessagesAreWhole` rests on `CodecReads`: if a buffer and what is still to come are together
the frames of some accepted payloads, `Parse` of the buffer gives the objects among its
complete frames, reports no error, and keeps less than a frame, with which the rest goes on.
The invariant `StreamInv` says the same of what the server has said on a connection:
`OnReadyRead` is `CodecReads`, `ServerSends` appends a frame, a new connection starts empty
because `OnDisconnected` has cleared the buffer (`IncomingInv`). The assumptions are that
the size field holds every accepted size (`CodecAssumption`: 64 MiB is below 2^32) and that
the server sends no invalid size (`AnswerAssumption`).

What `Parse` and `FlattenSeq` compute for every input is induction over data, and the
library's theorems for that take a predicate as a parameter, which the provers here cannot
instantiate. The module does it with sets instead: `Least` (a set of naturals has a least
element) comes from `WFMin`, and a property of all buffers or sequences is proved by taking
the shortest that lacks it. `Recursion` says that an equation whose right-hand side looks
only at smaller arguments has a solution; so `Parse` and the function inside `FlattenSeq`
are their equations (`ParseEquation`, `FlattenEquation`), and the lemmas about streams
(`FlattenConcat`, `StreamFacts`, `HeadAndTail`) follow.

`LauncherProofs` proves `TypeCorrect`, `OneOutcomePerClick`, `PlayerDataStays`,
`ForgottenStaysAway` and `NoStrayFolder` for any games, versions and failures. Three
strengthenings carry them: `TimersCounted` (a timer stands for a click of this run),
`InSync` (unless a save or load has failed, the file is the map, so a load restores it:
`LoadRestores`) and `PlacedIsThere` (a game has one request, and a placed package is in
its directory, still without marker). `NextEntries` says once what each step may do to
an entry; the three theorems on steps read their answer from it.

`ImplementsConnection`, also in `ProtocolClientProofs`, is the refinement of `Connection`:
each slot is one of its operations or leaves the link alone. `ConnectionProofs` then says
what the operations keep (types, the bound of the queue, nothing pending on line), and the
three modules built on it cite that.

`SessionProofs` proves `TypeCorrect`, `AcceptedStays`, `NothingKeptAfterLogout` and
`BusyIsExplained`, for any users, credentials, bounds and losses: the safety properties of
`SessionChecks`.

`DetailPageProofs` proves `TypeCorrect`, `MismatchIsPutRight`, `SettlesOnTheOpened` and
`OwnReviewIsSeen`. The types need that a running review timer has a game to show.
`MismatchIsPutRight` is one argument: what is due of a game (asked for, answered, or lost
or refused) stays due in every step but the one that handles its details (`DueKept`), and
a step that moves `current` alone asks for details (`ShowType`), while the one that handles
them moves all three. An accepted update moves id and record together: it leaves the page,
or could not start, which `unstarted` remembers until the page is opened or left, because
nothing is due then; the second conjunct, that id and record agree, needs no such exception. The last two are about order again. `Follows` says that every one of
some frames or answers is followed by one of others; `FollowsAppend`, `FollowsTail` and
`FollowsCut` say how sending, taking and a lost connection keep it. `Settled`: a request
for another game is followed by one for the game opened last, until none waits; then the
same holds of the answers, until none is on its way; then that game is current.
`OwnSettled`: a review is followed by a request for details, details without the user's
review by details with it, and what is left is displayed. `failed` appears in both because
a request that is pushed out, refused or cut off breaks the chain.

`AdminPanelProofs` proves `TypeCorrect`, `DeletionIsOfTheQuestion`, `ListIsTheServers` and
`StoreIsUpToDate`. The last two are about the order of frames: every change on its way is
followed by a request for the list (`Ordered`) or a timer will ask (`Running`), and either
something is still to be asked or the last answer on its way, or the list itself, is what
the server has (`Ends`). For the store the same holds of publications on a connection,
with the login and its answer in the place of the timer. `OrderedConcat`, `OrderedBefore`,
`OrderedTail`, `EndsAppend` and `EndsTail` say what sending, taking and handling do to
them.

Only proved: `CodecReads` and the refinement of `AtomicInstall`. Every invariant the
runs check is a theorem, some under the surroundings of their run. Only model-checked is
liveness (`QueueAdvances`, `PendingGoesOutOrIdle`, `CheckEnds`, `LoginEnds`): the provers
here have no rule for fairness.

## 6. Plan

Done: every module of section 2, with its proofs. In order of what matters next:

1. `Launcher` composed with `DownloadManager`: `Place` and `Completed` shown to be what
   the download manager does, cancelled installations included; play-time reports
   (`set_status`) through `Connection`.
2. `AdminPanel` and `DetailPage` with `Session`: logouts between a click and its timer.
3. Abstract specifications: one launch or update per click for the game clicked; a
   library that survives restarts.

## 7. Not modelled

Layout and rendering, speed and percentage, wording, autostart; friends, announcements
and the avatar, which are commands and the rendering of their answers, without state but
the widgets; the settings object, a wrapper of `QSettings` whose values are inputs of
other parts; encryption of stored credentials; the build, packaging and tests.
