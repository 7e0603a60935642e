# A TLA+ model of cbftp

cbftp moves files between FTP sites. Its core is a set of objects on one work
thread that call each other synchronously and are driven by events: replies on
control connections, data sockets that open, end or fail, ticks, remote
commands and the keys of the user. The bugs such a design invites are not data
races but *orders*: an answer that arrives after its transfer has been given up,
two halves of a transfer of which one fails first, a connection that drops out
while it holds three different locks, a job that is reset while its transfers
run. Below the work thread there are others, which poll sockets, tick, run
blocking tasks and take signals, and hand it events through queues and
semaphores. This project models both, checks them with TLC on small instances,
and proves the bookkeeping of the core for every size with TLAPS.

Paths below are relative to `src/src/` unless they start with `src/`.

## 1. Inventory

| Component | State | Operations | Hard behaviour | What makes it correct |
|---|---|---|---|---|
| TransferMonitor (`transfermonitor.cpp`) | status, type, who listens, error, timeout, published TransferStatus | engage\*, passiveReady, activeReady, activeStarted, source/targetComplete, source/targetError, tick, abort | reports of two sides in any order, waits racing late answers | asserts hold; the verdict is right; connections are held exactly as long as needed; it ends |
| ConnStateTracker (`connstatetracker.cpp`) | transfer lock, list lock, request, quitting, delayed command | lockForTransfer, setTransfer, setList, finishTransfer, setDisconnected, use | locks overlap on one connection | asserts hold; no lock is left over |
| SiteLogic (`sitelogic.cpp`) | conns, loggedin, available, slotsdn, slotsup, requests | handleConnection, handleRequest, lockTransferConn, returnConn, commandSuccess/Fail, disconnectConn, tick | counters adjusted along a dozen paths; delayed slot return | counters agree with the connections; limits are kept |
| FTPConn, FTPConnect, ProxySession | state, processing, connectors, current path | do\*, \*Response, login, reconnect, FDDisconnected | racing connectors; replies after a change of mind; login dialogue with kill and retry | every reply reaches the state that asked; no socket is forgotten |
| Local transfers (`local{transfer,download,upload}.cpp`) | socket, file | engage, FDInter\*, disconnect | closing before opening | each reports to its monitor exactly once |
| LocalStorage (`localstorage.cpp`) | local slots, asynchronous requests | get{Download,Upload}, request\* | results of tasks after their owner is gone | results are delivered once, to the one who asked |
| Engine (`engine.cpp`, `scoreboard.cpp`) | jobs, scoreboard, fail board, pending transfers | refreshScoreBoard, issueOptimalTransfers, transferFailed, tick | re-entrancy while iterating; deferred updates | nothing possible is forgotten, nothing outdated kept; the container's three structures agree; jobs end |
| Race, SiteRace, TransferJob | progress per site | add/reportDone, checkIfRaceComplete, abort, reset | completion against late file lists | done only if delivered; aborted stays aborted; a job with nothing left to do ends |
| FileList (`filelist.cpp`) | files, marks, counters, index | updateFile, touchFile, finishUpload, removeFile, cleanSweep | a refresh overlapping an upload | counters and index are those of the files; every change is marked |
| WorkManager, IOManager, TickPoke (`core/`) | queues, semaphores, sockets | dispatch, flushEventReceiver, poll loop, send queue | several threads; a receiver deleted with events queued | no event is lost or delivered to the dead; no byte is lost; no thread waits for ever |
| HTTPServer, HTTPConn, RestApi, RemoteCommandHandler | clients, requests, pending answers | request, requestReady, tick, the commands | clients that leave, late answers, two interfaces for one thing | each request is answered once, in order, to its client; both interfaces mean the same |
| SiteManager, SectionManager, SettingsLoaderSaver, DataFileHandler | sites, sections, settings, the data file | add, change, copy, delete, save, load, encrypt | three interfaces change the same sites; killed while writing | relations stay symmetric; what is saved is what is loaded |
| Ui, UIWindow and the screens | stack of windows, frame, dialogs, the browser | keys, redraw, questions and answers | answers that reach another window; late results | the stack fits together; what is confirmed is what was asked |

How they interact. The engine (for jobs) or a user request asks
TransferManager for an idle TransferMonitor and engages it. The monitor locks a
connection on each site through SiteLogic, which records the lock in the
connection's ConnStateTracker, and then drives the handshake: the passive side
is asked for an address, the active side is told to use it, and when the active
side has started the passive side is told to transfer. Each FTPConn reports
replies to SiteLogic::commandSuccess/commandFail, which consult the tracker and
call the monitor back. The monitor ends when both sides have reported, and
tells TransferManager, Engine and the job. Meanwhile SiteLogic hands free
connections to requests and jobs in handleConnection, and answers the engine's
question whether another transfer may start from its four counters. Listings
that SiteLogic fetches go into FileLists, whose change marks feed the engine's
scoreboard, from which it takes the next transfers. The REST and UDP interfaces
and the screens start and end jobs, change sites and put requests to SiteLogic,
and are called back when these are ready. Everything on the work thread is
called through the queues of WorkManager, which IOManager's thread, the ticker,
asynchronous tasks and signals fill.

The hazards this code is exposed to, with the properties that watch them, are
listed in `PROJECT.json`.

## 2. Modules

Where one action is one event, it is handled to the end, with all the calls
nested in it; these are operators from a state record to a state record,
composed in the order of the code. Operators commented as *Variant* are
deliberate mistakes, used to show that a property notices them; no
specification uses them.

### The transfer core

**TransferMonitor.tla**: one monitor, the control connection of each side and
the local data socket.

| TLA+ | Code |
|---|---|
| `tm.status`, `tm.type`, `tm.error`, `tm.timeout` | the fields of TransferMonitor |
| `tm.pasv` | which side listens: `fxpdstactive` for FXP, `clientactive` for local transfers |
| `tm.ts` | the state of the TransferStatus that the UI and the jobs read |
| `tm.mark` | the target file list's "uploading" mark |
| `tm.asserted` | an `assert` has failed (asserts are on in the default build) |
| `conn[x].link`, `.cmd`, `.hold` | FTPConn's state and `processing`; how far ConnStateTracker has come for this monitor |
| `lt` | LocalTransfer: reserved, listening, connecting, open, closed |
| `rep[x]` | history: how side x's part ended |

Source and target are handled by symmetrical pairs of methods in the code
(sourceError and targetError, ...); the model writes them once with the side as
a parameter and states the differences. `Needs` is what a connection still has
to do before its transfer command; which of these it is depends on settings and
on the current directory, so it is chosen freely, again at each reply. Servers
reply, fail, or vanish in any order and at any time, with one assumption, that a
server opens a data connection only after it was told to transfer. Waits run out
at any time after they began. Other commands may occupy a connection that is not
ours, and it may be locked for us while they do.

**SiteSlots.tla**: all connections of one site, their locks and the counters
`loggedin`, `available`, `slotsdn`, `slotsup` (`slots`), with the slot returns
that wait for the next tick (`delayed`). Here the monitor is the environment: it
locks, completes, fails or returns a connection in any order that the tracker's
state allows. `req = "view"` is REQ_DOWNLOAD_FILE_STAGE2, the one request that
also takes a transfer lock; all others are `"plain"`. `lost` is a history
variable. Where the code prefers the first or the last suitable connection, the
model takes any. `downloadSlotAvailable`, `uploadSlotAvailable` and `getSlot`
are the checks the engine makes; `lockTransferConn` makes them in the same step,
as the code does within one event, and `lockSameSite` makes them once for two
locks.

**FileLists.tla**: one FileList. A listing is parsed line by line and then swept
(`scan.phase`); `files`, `book` (counters and marks), `index`
(lowercasefilemap) and `simil` are its fields. Uploads begin, end and fail
between listings.

**ScoreBoard.tla**: what the scoreboard and the failboard of one spread job
hold, fed from the marks of the sites' lists; `pend` is
spreadjobfilelistschanged, the updates deferred while the queue is overloaded;
`attempts` counts failures per pair and per file. A refresh is one step:
the walk of issueOptimalTransfers over the scoreboard, during which calls it makes
may change what it iterates over, is not represented, and no property is about it.

**ElementBoard.tla** and **BoardSpec.tla**: the container ScoreBoard with its
array of reused element objects, its index and its sets per destination, and the
abstract table it implements. The refinement mapping reads the table off the
index; a wipe of a list is one step of the table.

**SpreadJobs.tla**: jobs from start or preparation to their end: `job` (Race and
its SiteRaces), `enlisted` (SiteLogic::currentraces), `eng` (the engine's
lists, timers and poke). The tick is a sequence of actions during which nothing
else runs (`todo`).

**TransferJobs.tla**: one transfer job, its pairs of lists, pending transfers
and attempts, the transfers in flight and the engine's poke. `disk` is what the
destination really has.

**Connect.tla**: a connection that logs in: connectors racing to the addresses
of a site, proxies, the handover of the winner's socket, the login dialogue,
refusals, reconnects and delayed commands. The I/O manager is present as sockets
and a queue of events, which are addressed when they are produced and handled
later.

### The event loop

**EventLoop.tla**: the worker (WorkManager::run), the I/O thread
(IOManager::run), the ticker, the asynchronous workers and the threads of
signals.

| TLA+ | Code |
|---|---|
| `queue` | highprioqueue, dataqueue, lowprioqueue; the semaphore inside a BlockingQueue is its length, since the worker is its only reader |
| `event`, `readdata` | the semaphores of these names |
| `posting`, `io.pc = "post"` | a thread between the push and the post of a dispatch |
| `worker.pc` | where run() is: waiting, at the signal slots, at each queue, in a handler, at the check of the overload flags, between resetting them and workerReady, destroying a deferred receiver |
| `io` | what the I/O thread handles and, after the post, how far overload() and autoPause have come |
| `flags` | overloaded and lowpriooverloaded |
| `open`, `slow`, `paused` | receivers with a socket in socketinfomap, with prio LOW, autopaused |
| `alive`, `broken` | receivers that exist; a flush has used a freed list node |

Every step in which a thread touches shared state is an action of its own: push,
post, reading the sizes, setting and reading the flags, pausing. `MapLocked` says
when the I/O thread holds socketinfomaplock; the worker's calls into IOManager
wait for it. Handlers are the environment: while the worker is in one, it may
register, close or fail sockets, start tasks and delete receivers, in any order
and number. `deferDelete` follows FTPConnect, which is the only caller, and has
no socket then; `deleteReceiver` follows SiteLogic::setNumConnections.
Simplifications: a socket has one receiver and a receiver at most one socket; a
socket that is closed with data still to send is closed at once (SocketIO has
the lingering); the lengths of the queues that overload() adds are read
together; between two blocks of handleTCPSSLIn the lock is given up, which
allows more than the code does. Nobody stops the threads (`global` is never
deleted), so that FLUSH events and stop() do not occur.

**SignalEvents.tla**: the ten slots behind `hasevent`, with `set` and
`getClearFirst` as the code has them. EventLoop keeps only the number of slots in
use; *HasEventExact* is what makes this number right.

**SocketIO.tla**: one TCP socket from its registration to its removal: name
resolution, connecting with its timer, the send queue, TLS, pausing, lingering
and what epoll is told to watch. `peer.got` is what has reached the other end,
`client` what its user did and was told.

### Interfaces and configuration

**RestApi.tla**: HTTPServer, HTTPConn and the pending requests of RestApi. A
request is abstracted to how it is answered: at once, by sites, asynchronously.
`ongoing` is a set; the list of the code is in the order of the requests' numbers
(`api`), and `tick` ends the late ones in this order.

**RemoteCommands.tla**: the commands that start, address and end jobs, on the
UDP and on the HTTPS interface, side by side. A behaviour is about one `topic`.
`have` and `total` are the bytes on the sites of the spread job, from which
isIncompleteEnoughForDelete takes its percentage; `dfile` is the name an FXP gives
the file at the destination.

**SiteConfig.tla**: Site objects, pairs, exceptions, sections and slots as they
are changed over REST and from the screens, one of which may be editing a copy
meanwhile. A behaviour is about one `aspect`.

**Settings.tla**: what is written for each form of setting and read back, the
data file plain and encrypted, the skipped write, the autosaver, kills.

**Ui.tla**: the stack of windows, the frame with its bars, every screen's keys
as moves between windows, questions and their answers.

**Browse.tla**: the sides of the browser, the requests each has under way, late
questions and their answers. Ghosts say whether a listing is older than a change of
the same side (`late`, `stale`), and whether the code has given up on showing a
change (`missed`: it was reported while another directory was shown, or a listing
failed, and no listing was taken over since without an older one behind it).

### Instances

The MC modules give the constants their values. MCServices, MCNetwork, MCSpread
and MCScreens put several components that share no state into one run: a
variable `part` says which of them the behaviour is about, and the others keep
one initial state. Each component's properties then hold of its own behaviours
and of one constant state more. In an action, `\E x \in {e} : ...`
names the value e, which the model checker then computes once.

## 3. Runs

| Run | Instance | Shows |
|---|---|---|
| Transfer | all kinds of transfer and both listening sides, except uploads in active mode; with a maximum time | TransferInv, NoAssertFails, NoSilentWait, Verdict, EventuallyIdle |
| TransferEarlyUpload | uploads in active mode | sourceComplete's assert fails (a violation) |
| SlotsStat | 3 logins, one to be left free, STAT | SlotLimitsKept, SlotsExact, SlotPromise, SlotsNoAssert |
| SlotsReturn | 2 logins, LIST, transfer jobs within the site | Books, SlotsComeBack |
| LoopSafety | one receiver that comes and goes, one asynchronous worker or signal, 3 events in the queues | EventsAccounted, PauseRemembered, ExternalHandshake, FlushFindsNothing |
| LoopLiveness | two receivers, also deleted directly, the worker keeps up | PausedIsResumed, IoComesBack |
| Scores | a job on two sites with one file, two attempts, until a site is removed | FailedInv, Remembered, OutdatedMarked |
| Spread | one job on three sites, two jobs on two sites, or the container with three keys | SpreadInv, QuietJobEnds, ContainerInv, SortSorts, ImplementsTable |
| Services | two HTTPS connections and three requests; a transfer job with one file to transfer, alone and aborted and reset by the user, or in nested directories with one such act, or with two at a time and none; the remote commands over two sites | RestInv, JobInv, DoneMeansDelivered, InterfacesAgree |
| Network | three connectors and two logins; a socket with three sends and three pauses; SIGWINCH and SIGCHLD in ten slots; a list of two names that differ in case | ConnectInv, SocketInv, SignalsAccounted, FileListInv, ChangeMarked |
| Screens | three windows deep, two heights of which the greater goes with the usual frame; two sites and two sections; one setting of each form, two passphrases | UiInv, ConfirmedIsAsked, ConfigInv, SettingsInv |
| Browse | one side with two paths and three requests, or two sides with one request each | BrowseInv, DeletedIsAsked |

What the properties say:

- *NoAssertFails*, *SlotsNoAssert*: the asserts, which are the code's own
  statement of the orders it expects.
- *TransferInv*: the monitor's status and the trackers' locks agree (a lock too
  many loses a connection to the site, a lock too few lets two transfers use one
  connection), and no side is commanded before its turn.
- *NoSilentWait*: there is always something outstanding that will move the
  transfer. *Verdict*: what is published is what happened, and the target is not
  left marked. *EventuallyIdle*: every FXP transfer ends.
- *SlotsExact*, *Books*: the counters are what counting the connections gives.
  *SlotLimitsKept*: the user's limits and the login to be left free.
  *SlotPromise*: the availability that the engine acts on is real.
  *SlotsComeBack*: all slots but the lost ones return when all connections go.
- *EventsAccounted*: the semaphore `event` counts what there is to do, exactly;
  so the worker neither sleeps over an event nor falls asleep in the one queue
  that it pops without a look. *PauseRemembered*, *PausedIsResumed*: the flags by
  which the worker knows of paused sockets survive the race between autoPause and
  workerReady. *ExternalHandshake*, *IoComesBack*: one descriptor at a time, and
  back. *FlushFindsNothing*: a receiver goes with no event left for it.
  *SignalsAccounted*: a signal that was set waits in a slot, and the count of
  slots is right.
- *SocketInv*: what is sent arrives in order and once, the socket is watched for
  what it waits for, its end is told once, it lingers until its queue is sent, and
  only connecting sockets are timed.
- *ConnectInv*: connectors, sockets, the poke and the state of a connection
  agree, so that every attempt and every command has an end.
- *FileListInv*, *ChangeMarked*: the counters, the index and the marks are those
  of the files, in the middle of a listing too.
- *Remembered*, *OutdatedMarked*, *FailedInv*: the scoreboard forgets no possible
  transfer and keeps no outdated one unmarked; only exhausted ones wait on the
  failboard.
- *ContainerInv*, *SortSorts*, *ImplementsTable*: the array, the index and the
  sets of the scoreboard hold the same elements, sorting only permutes, and
  together they are a table from keys to scores.
- *SpreadInv*, *QuietJobEnds*: the engine's lists, the sites' lists and the jobs
  tell the same story; a job with no more activity ends.
- *JobInv*, *DoneMeansDelivered*: a transfer job that runs is poked, its lists
  come in pairs, and it ends when nothing is left; one that ended by itself has
  delivered. Of the transfers that call a job back by a raw pointer, JobInv says
  only that an aborted FXP has none under way, and that the first transfer of a file
  keeps the engine's hold on any other job that was not aborted. Retries that
  outlive their job, the local halves of aborted downloads and uploads, and what a
  reset has left behind are not covered, since these do call back a job that the
  history may have destroyed (below, *Jobs*).
- *RestInv*: requests are answered once, in turn, to their client.
  *InterfacesAgree*: the UDP and HTTPS commands mean the same, but for `delete`
  with sites, where each does what its code says (below, *REST*); and files are
  deleted on exactly the sites that were named and are due.
- *UiInv*, *ConfirmedIsAsked*: the stack of windows fits together; what a "yes"
  starts is what was asked. *BrowseInv*, *DeletedIsAsked*: the same for the
  browser, whose questions come late.
- *ConfigInv*: pairs are symmetric, exceptions and sections exist, limits fit.
  *SettingsInv*: what is saved is what is loaded, under the key last told.

### Bounds

TransferMonitor has no counters: two sides are all there are, and one monitor
suffices because monitors share nothing but connections, whose other users are
modelled as `other` commands. Three connections are the smallest number in
which one is in a transfer, one is dropped with a delayed slot and one is free;
the limits differ between the origins of a download, so that a limit check with
the wrong origin shows. In EventLoop, OverloadSize (32 in the code) is 3 and
ReadySize (8) is 1, and the queues hold 3 events, so that overload, a queue below
ReadySize and everything between occurs; two sockets are needed for one to be
paused while the other delivers. Two names that differ in case are what the
index of a file list can confuse. Three keys over three lists make a wipe that
removes some of the elements and fills gaps with others, in a container that
makes its objects one at a time (RESIZE_CHUNK, 1000 in the code). Three
connectors are an attempt at two addresses after one that was cut short. While a
file list holds both names, no listing of it has failed and its directory is not
known to be missing (`SmallLists`). One listing of a spread job is under way at a time. In the services, two clients and three requests let a
late answer meet an HTTPConn that is used again. A transfer job has three slots:
with two transfers under way, the third is what a retry needs that is started
beside the last transfer. A job of one file has two acts of the user before it,
an abort and a reset; a job of a directory has one, and the history has room for
it. The scoreboard's job is followed until one of its two sites is removed, as
the other has nobody left to send to; both lists wait for a deferred update only
before a site is done, and the list of a site that is done has not failed
(MCScores). On the screens, the frame is unusual in one way at a time, full
screen without a legend excepted; of two sites one at most has a change that was
not carried over, and where only the sections matter they keep their names
(MCScreens). Two requests of a browser side are the least that can
be answered in the wrong order; with three, a listing can wait in the queue that
a change before it has put out of date, while one that is up to date is taken
over; where two sides are on the screen each has one request, and what one of
them does to the other's listing still shows. The bounds are named in
the CONSTANTS of each module (`Max...`, `Room`, `Capacity`); the theorems of
section 4 hold for all their values. Browse's next-state relation stops after an
answer has gone astray (`BrowseNext`): what follows such an answer is not
examined. In the remote commands, `Bytes` of 0, 19 and 20 make a site's share of the
job nothing, exactly 95 percent and all, and a job without bytes.

### Fairness

*TransferMonitor*: weak fairness of the tick's checks. TickPoke calls every
monitor each 50 ms for as long as the program runs, and a check, once due, stays
due until it is made or the status changes. Nothing is assumed of servers.
*SiteSlots*: weak fairness of `returnSlot`, for the same reason (SiteLogic::tick).
*SpreadJobs*: weak fairness of the engine's one second tick.
*EventLoop*: the worker and the I/O thread go on when they can, a thread that has
pushed posts, and the ticker ticks. Handlers return; nothing is assumed of
sockets or signals. The low priority queue starves by design while the others
are busy, so the liveness run assumes with `KeepsUp` that events which no pause
holds back, and new sockets, come only when the queues are empty; those of
sockets that could be paused come at any time.

### Disagreements found

One run ends in a violation and is described under "findings" in
`PROJECT.json`: an upload in active mode that is finished before the 150 reply
fails an assert, since sourceComplete lacks the case that targetComplete has.

The models contain the following behaviour of the code as well. Where it would
break a property, the property says which case it leaves out, or is kept in its
module unchecked under the name given here.

- *Transfers.* A local transfer that is only reserved has no socket to close and
  reports nothing, so that its monitor is never idle again
  (`localdownload.cpp:202`). A late failure leaves the target file marked as
  uploading (`transfermonitor.cpp:107, 276, 885-925`). A transfer that ran out of
  time is published as failed.
- *Slots.* returnConn loses a slot if the connection is still in a listing. A
  request whose listing fails in PASV, or a file to view whose local socket fails,
  stays on a connection that was freed (`sitelogic.cpp:2355`,
  RequestNotStranded). A transfer job within a site ignores "leave one slot
  free". setNumConnections deletes connections in use (`sitelogic.cpp:2048`).
- *Event loop.* flushEventReceiver goes on from a list node that it has erased,
  so that a receiver deleted directly while an event for it is queued breaks the
  queue. A signal may take a second slot while it is set in a later one, until all
  slots hold one signal and the other finds none.
- *Sockets.* handleTCPSSLNegotiationOut continues with a socket it has erased
  (`core/iomanager.cpp:965`); handleUDPIn dispatches a length of -1 (`:1103`);
  a pause that falls between two blocks of handleTCPSSLIn is lost (`:1028`); TLS
  negotiation is not timed. `localupload.cpp:65` passes the parent's socket id as
  session key.
- *Connecting.* A connector deleted while its disconnect is queued is not told
  (`core/iomanager.h:73`, DisconnectTold); a silent proxy is waited for without
  end.
- *File lists.* removeFile leaves firstsimilar pointing at a file that is gone
  (SimilarInDirectory; `src/README:216-217` promises otherwise).
- *Jobs.* updateStatus of a transfer job counts neither timed out nor aborted
  transfers, so that such a job may hang. A file that has failed may be tried
  again by the very request that ends the job: refreshPendingTransferList ends it
  and transferJobActionRequest goes on (`engine.cpp:951-963`). TransferJob::reset
  forgets the transfers under way without aborting them or clearing their callback
  (`transferjob.cpp:1040-1053`), and abort leaves the local half of a download or
  upload to end on its own. In each case the history may destroy the job meanwhile
  (`engine.cpp:2219`), and the end of the transfer then calls it back
  (`transfermanager.cpp:90, 103`): in the model, `FormerTransferEnds` with
  `engine.all` FALSE.
- *REST.* The request for the result of an asynchronous raw command is never
  answered once the result is there (`src/API:184-185`, `restapi.cpp:2338`, *GetAnswered*); DELETE of
  a path with type ALL is rejected (`src/API:191-192`); a number too large for
  std::stol is not caught; a transfer job with a section and an absolute path keeps
  the section. The UDP command `delete JOB SITES` ends the whole job and deletes on
  the named sites (`remotecommandhandler.cpp:496-501`, `engine.cpp:826-829`), where
  `src/API:419-420` promises that the sites are removed from the job instead of
  aborting it; only the HTTPS request does that (`restapi.cpp:1622-1638`).
- *Sites and settings.* Copying a site copies policies but not exceptions
  (`ui/screens/mainscreen.cpp:707`). A failed encryption is ignored
  (`datafilehandler.cpp:138`). A write that failed is taken for done by the next
  save of the same settings, which is skipped (`datafilehandler.cpp:132`). `"showfreetext=" + getShowFreeText()` adds a bool
  to a pointer (`ui/ui.cpp:1126`).
- *Browser.* A "yes" reaches the active side, which need not be the one that
  asked (`ui/screens/browsescreen.cpp:302-304`, YesReachesAsker). redraw updates
  the right side before the left one and does not ask whether the screen is on top
  (`ui/screens/browsescreen.cpp:256-288`); the model has only the order and the
  condition of the tick, left before right.

## 4. Proofs

All theorems hold for every value of the constants that the named ASSUMEs admit;
these say only what kind of thing a constant is (a finite set, a natural number, a
name).
Each invariant was checked with TLC before it was proved.

### A site's slots (SiteSlotsProofs)

| Theorem | States |
|---|---|
| SlotsTypeCorrect | `Spec => []SlotsTypeOK` |
| BooksKept | `Spec => []Books` |
| ExactWithSTAT | `Spec => []SlotsExact`, if the site does not use LIST |
| LimitsKept, LeaveFreeHolds, SlotLimitsHold | `Spec => []WithinLimits`; `[]LeaveFreeKept` without jobs within the site; their conjunction |
| PromiseKept | `Spec => []SlotPromise` |
| AssertsHold | `Spec => []SlotsNoAssert` |

*Books* is not inductive: a completed listing gives back one availability, which
is right only if the connection had a request and no transfer lock. So the
invariant `SlotsInv` adds `ConnOK`, the combinations of locks that a connection
never has (a plain request and a transfer lock; a viewed file and a listing;
anything and a QUIT), and that a data socket belongs to a request. `Account(c)`
then says that a step changes connection c only and moves each counter by the
difference this makes. `AccountKeepsBooks` shows, from how the cardinality of a
set changes when one element enters or leaves, that such a step keeps the books;
`ConnStepOK` shows that each of the 23 actions is such a step. A job within the
site changes two connections and has its own lemma. *WithinLimits* follows from
the books and the limits that getSlot checks, *SlotPromise* because fewer
connections are taken than are logged in, and *LeaveFreeKept* from a second
invariant, `Room`, on the sum of the slots.

### The event loop (EventLoopProofs; signals in NetworkProofs)

| Theorem | States |
|---|---|
| LoopTypeCorrect | `Spec => []LoopTypeOK` |
| EventsCounted, WorkerNeverStuck, EventsAlwaysAccounted | `Spec => []EveryEventCounted`, `[]PopNeverWaits`, their conjunction with the types |
| PausesRemembered | `Spec => []PauseRemembered` |
| DeferredDeleteClean | `Spec => []FlushFindsNothing`, if receivers are only deleted through deferDelete |
| DescriptorHandshake | `Spec => []ExternalHandshake` |
| HasEventCorrect, SignalsKept, SignalsCorrect | `[]HasEventExact`, `[]NoSignalLost`, their conjunction |

All rest on `LoopBase`: types, deletions only in lowprioqueue, a receiver whose
deletion is on its way has no open socket, and the socket that the I/O thread is
about to pause is open, because it holds the lock.

- *EveryEventCounted* alone is inductive but does not give *PopNeverWaits*.
  `CountInv` adds `SomeLeft`: while the worker looks for the event it was woken
  for, the queues it has still to look at are not all empty. Other threads only
  push, so what they do can only help; a pop ends the search.
- *PauseRemembered* needs that the I/O thread, once it has read a flag as set and
  until it pauses, is protected: the flags may be reset meanwhile, but then the
  worker is at `notify` and waits for the lock, and resumes the socket after it.
- *FlushFindsNothing* needs `OrderInv`: a deletion is behind every other event of
  its receiver in lowprioqueue; when the worker turns to lowprioqueue, receivers
  that are to be deleted have nothing in dataqueue; and highprioqueue has no
  event of such a receiver. No further event can come since its socket is closed.
- *ExternalHandshake* is inductive together with the fact that these events are
  in highprioqueue only.

### A socket (NetworkProofs)

SocketCorrect: `SockSpec => []SocketInv`, for any number of sends and pauses.
`SockStrong` says of each of the three lives of a socket (before it is registered,
while it is in the table, after it was erased) what the rest of its fields are:
what epoll watches is determined by the type, the queue and the pauses
(`Wanted`); the queue is empty while TLS is negotiated; a closing socket has
something left to send; and what the peer has got, followed by the queue, is
what was sent. The lemmas say what each call of the polling and of the tables
changes, and one lemma per handler shows that it leads from one life to the same
or the next.

### A connection that logs in (ConnectProofs)

ConnectCorrect: `ConnectSpec => []ConnectInv`, for any sites, any number of
connectors and any bound on the events that wait. `ConnectStrong` is the inductive
invariant. It is stated of a state of the connection and a set of *events on their
way to it*, because the handlers call one another: while an event is handled it has
left the queue, and the states between two calls are those of no step.

- `NetBase`: what a socket, its connector and the events on their way are to each
  other. An event never belongs to a socket that is still connecting, the news of
  an end only to a closed one; what is addressed to the connection belongs to a
  socket that was handed over, and such a socket's connector is retired.
- `Sane`, unless a late TLS event has misled the connection (`stale`): while it
  connects, the engaged connectors are those in its list, the poke runs, and
  without a proxy each has an end to wait for (`Ending`); otherwise no connector is
  engaged, and an open socket is the connection's own. *PokedWhileConnecting* is
  not inductive without this: the first event of a socket that lost the race would
  start an attempt or stop a poke that is not its own.
- `Controlled`: a lock or a login belongs to certain states, and every state but
  IDLE and DISCONNECTED processes. *ReleasedWhenFree* needs it, and also which
  commands are set where (`Held`): a reconnection waits only for a connection that
  is not logged in, a QUIT only on one that is. While a reply is handled the state
  lags behind; `Handling` is what holds until FDData settles it.

There is a lemma on each helper and handler for each of the two parts, one that
handlers leave the queue alone (`Kept`), and one per action of the specification.

### A file list (NetworkProofs)

| Theorem | States |
|---|---|
| FileListCorrect | `FileListSpec => []FileListInv` |
| ChangesMarked | `FileListSpec => ChangeMarked` |

The counters are cardinalities of sets of files, so that the lemmas say how the
entry, the change or the removal of one file moves them. *SweptClean* speaks of
the end of a listing only. What makes it inductive is `Scanning`: while lines are
read the names seen are the files touched, and their number is the count of
lines, so that a list with no more files than lines holds nothing but the lines.

### The scoreboard's container (ScoresProofs)

| Theorem | States |
|---|---|
| ContainerGood | `ContainerSpec => []ContainerStrong` |
| ContainerCorrect | `ContainerSpec => []ContainerInv` |
| SortCorrect | `ContainerSpec => SortSorts` |
| BoardIsTable | `ContainerSpec => ImplementsTable` |

`ContainerStrong` adds that no object occurs twice in the array, that the index
leads from each key to the object that holds it and back, and that an object in
use is in the set of its own destination only. Removing, with the gap filled by
the last element, is one lemma (`RemoveGood`). *wipe* collects the keys of a list
from both indexes and removes one after the other: by induction over the keys,
stated for sets of natural numbers (`NatSetInduction`, proved from the library's
theorem), every board on the way is good and lacks exactly the keys removed so
far, whatever the order. For *sort*, the place that the buckets give an element
is the number of elements in use less the number of those that come before it
from the back (`Lower`, `PlaceIs`); so places fall with scores, and each is taken
once; the shuffle of equal scores changes neither. The refinement maps every
update, removal and wipe to one step of `BoardSpec`, and sorting and growing to
stuttering.

### The scoreboard (ScoresProofs)

| Theorem | States |
|---|---|
| BoardCorrect | `ScoreSpec => []BoardInv`, the inductive invariant |
| FailedCorrect | `ScoreSpec => []FailedInv` |
| OutdatedCorrect | `ScoreSpec => []OutdatedMarked` |
| NothingForgotten | `ScoreSpec => []Remembered` |

None of the three is inductive. `BoardInv` says OutdatedMarked of each side by
itself (`SidesMarked`): an update looks only at the side that is marked, so a mark
on the source must not excuse the destination. Remembered needs `Kept`, which
holds of a source that has failed on the board too, and `FailedDue`, that such a
list is due to be taken off. FailedExhausted needs that every element has a site
of the job (`Attached`), or a reset of the attempts would miss it. `Later` says
what an event may do to a list before the board takes notice; there is one lemma
per action.

### Spread jobs (RaceProofs)

SpreadCorrect: `SpreadSpec => []SpreadInv`, for any set of jobs and any finite set
of sites: that as many sites have reported as take part means that all have only
when they are finitely many. `SpreadStrong` adds three facts:

- A site that has reported done no longer runs. So when the counts of reports
  and sites agree, or only download-only sites are left, no other site runs.
- Where no listed directory stays empty, the same sites have reported done and
  semi done, and a job that is over runs nowhere. This is why only a listing
  under empty directories can meet the null SiteRace.
- The jobs the tick has still to visit are current, although each visit may end
  the job it visits and rotate the history.

A list of jobs repeats none (`NoRepeat`), so its length counts its members; that
gives how many jobs rotateSpreadJobsHistory drops, and that it drops no current
one. A job's record is treated once per helper (reportSemiDone, reportDone,
removeSite, setUndone, reset, addSite), and the steps that share a shape once:
`RaceEnds`, `RaceChanges`, `RaceRuns`, `ResumeOK`. What the loop over expired
prepared jobs returns is shown with `NatSetInduction`.

### The transfer monitor (RaceProofs)

| Theorem | States |
|---|---|
| TransferCorrect | `Spec => []TransferInv` |
| AssertsNeverFail | `Spec => []NoAssertFails` |
| NobodyWaits | `Spec => []NoSilentWait` |
| VerdictTrue | `Spec => []Verdict` |

All four are proved for any modes but uploads with this host as the passive side
(`<<"UPLOAD", "src">> \notin Modes`), with or without the maximum time. In that
mode the assert does fail, as the run TransferEarlyUpload shows (section 3); the
run Transfer leaves it out too.

None of the four is inductive. A handler of TransferMonitor calls the monitor, which
calls the connections, which call the monitor again, and the states between two
calls belong to no step. So the invariant, `GoodBut(s, X)`, is of a state as the
handlers pass it along, X being the sides whose part has just ended and whose
connections are about to be given back. It says:

- `ConnGood`: a connection whose side is under way is locked, and has a command
  outstanding that belongs to its role and to the status (`TakesPart`), unless it
  waits for the other side; any other connection is at rest. What a connection may
  still be busy with after its partner has failed is the larger part of it:
  whatever it was doing then;
- `SocketGood`: the local data socket exists exactly in a transfer with this host,
  is closed exactly when its side has ended, and connects or listens according to
  the status and to who is passive;
- `ReportsGood`: the reports of the sides follow the status, the published
  TransferStatus follows the reports, and the mark on the target file is gone once
  the target has reported;
- an open data socket while the active side is awaited means that the site has
  been told to transfer.

The asserts need the first: each is about the status when an event of a
connection arrives, and the command the connection waits for bounds the status
(`BusyStatus`). `Holder` gives Ownership, and `StrongWait` takes from TakesPart
and SocketGood whose turn it is in each status. There is a lemma for each helper
(sideComplete, sideError, closeRemainingConnections, handleConnection...), saying
which X it takes and which it leaves, and one for each action, whose chain of
calls has to end with X empty. `Fresh` is what holds between the reset of the
monitor and the last lock of an engagement.

### A transfer job (ServicesProofs)

| Theorem | States |
|---|---|
| JobCorrect | `JobSpec => []JobInv` |
| DeliveredCorrect | `JobSpec => DoneMeansDelivered` |

Neither is inductive. `Good(c, D)` says of a state c of the job and the files D on
the destination's disk what the account of the job rests on:

- `SourceGood`: where the source has been listed its files are known, its
  directory has a list too, and the destination has a list wherever a known file
  is. So once there is nothing to list, all files of the item are known
  (`AllKnown`), and a file that is not pending is there or was given up
  (`NotPending`).
- `TargetGood`, `XferGood`: a file the destination's list knows is on the disk or
  has been transferred; a file has attempts if a transfer of it has ended, and
  only files with a transfer, or on the disk, have attempts.
- `TotalGood`: the total is at most the number of files that count, which is why
  the account of a quiet job reaches it (`QuietEnds`).
- `AlmostGood`, `OverGood`: in a job that is almost done every file is there or
  has been transferred; what is under way when a job ends by itself is a retry,
  or was aborted before; and nothing is under way in an aborted FXP.

The handlers are chains of the same few operations, so `Good` is a predicate of a
job state, not of the variables: one lemma says what each operation does to it
(updateStatus, updateLocalFileLists, fileListUpdated, addTransfer...), and the
lemma of an action cites those of its chain. `GoodBut` allows for the moment
between the answer of a site and the lists it adds. A step that ends the job
changes neither the attempts nor the disk (`EndsQuietly`), which takes
*DoneMeansDelivered* from the state after the step to the step.

### The remote commands (ServicesProofs)

RemoteCorrect: `RemoteSpec => []InterfacesAgree`, for any sites, sections, paths
and sizes. `RemoteAssumption` says of them that no name is empty, that no site is
named `*`, the commands' word for all sites, that a path has a level, and that
sizes are natural numbers, 0 among them.

A step overwrites what the last one led to, so that *InterfacesAgree* is not about
what has happened but about every command that can be sent. `RemoteStrong` says
that `last` is what the command leads to in the present configuration (`LastGood`,
`SpreadGood`), and that the job is what the last command made of it
(`DeletesAsAsked`, which only an ending can disturb). This is inductive because the
configuration never changes. That this implies the property is the proof:

- `SameFXP`, `SameDownload`, `SameUpload`: a command and its request give each side
  of the job the same path and section (`SideWithoutSection`), and both are refused
  for the same sites;
- `TranslatedInSection`, `PostedInSection`: wherever the section of a job comes from,
  its path begins with the one of the section, also when the last level was split
  off as the file (`SplitPath`);
- `GroupsGood`: what a name means as a site and as a section never mixes;
- `EndedAs`, `LeftBy`: what each way to end a job, or to take sites from it, does to
  its sites and files;
- `IncompleteGood`: the code rounds the percentage down before it compares, and
  `ShareBelow` shows that this asks the same as comparing the exact share.

### The REST interface (ServicesProofs)

RestCorrect: `ASSUME AsyncRaw = FALSE PROVE RestSpec => []RestInv`, for any sites,
connections, clients, requests, time-outs and lengths of answers. With raw
commands posted with "async" the property does not hold: the request that fetches
the result of one is not answered, as finalize answers the request that posted it
once more (section 3). The run Services leaves them out too.

`RestStrong` is a predicate of the whole state of the interface, as the handlers
are operators on it. It says of a state (`RestGoodBut(s, D, n)`), but for the
requests D that are being answered right now:

- a request past the last answer given is in the queue or owed by exactly one
  ongoing request, never both; what is owed is past that answer (`ToCome`), and
  what is queued is past it and in order (`QueueOK`);
- the number `api` belongs to one request, and a question put to a site carries
  the number of the request that asked it (`WaitOK`), which is why an answer finds
  at most one request;
- the first of the queue is not the one that is due unless a block is still on its
  way to the socket (`HeldOK`);
- a body that is being received belongs to the next request (`BodyOK`).

A request is answered in two steps, which is what D is for: it is taken from the
ongoing ones, and requestHandled puts its answer in the queue. One lemma says that
requestHandled leads from `RestGoodBut(s, {<<c, id>>}, n)` to `RestGoodBut(s, {}, n)`,
the induction over the queue in sendResponses included; finalize, the answers of
the sites, immediate requests and tick, an induction over the numbers, cite it.

### The configured sites (ScreensProofs)

ConfigCorrect: `ConfigSpec => []ConfigInv`, for any number of Site objects, names,
sections and slot numbers. *ConfigInv* is not inductive; `ConfigStrong` is:

- exceptions are sites that are there (`Excepted`), and each limit is within the
  logins of the site as it was set (`AllTight`);
- until a name is taken twice, the names are the sites' own and every two sites
  agree on whether one may send to the other (`Sound`); until a SiteLogic is left
  over as well, each belongs to a site that is still there and has the
  connections of its site (`Served`), so that the one found under a name is the
  right one;
- until a section vanishes under an open edit screen, the sections of the sites
  and those the screen holds are known;
- a site that is being added is no site yet, and has no exceptions (`Adding`).

Setting the policies and exceptions of a site touches its own record and that of
every other site. `PairAnew` shows that the site then agrees with all others,
whatever the two thought before, and that pairs of others are left alone. The
other changes are of one site (`Loosened`) or take something away from every
site (`Reduced`); there is one lemma per action.

### The windows (ScreensProofs)

| Theorem | States |
|---|---|
| UiCorrect | `UiSpec => []UiInv` |
| AskedCorrect | `UiSpec => ConfirmedIsAsked` |

Both hold for any heights of the terminal, legend modes and depth of the stack.
*UiInv* is not inductive: that a form is open once, or that the main screen is at
the bottom, follows from no key by itself. `UiStrong` adds:

- an order of the windows, `Level`, and `Below(v, w)`, which says when v may be
  anywhere below w: at a lower level, or one of the three status screens below
  another, or the key binds below themselves; never a question. It is transitive,
  so that opening a window needs to look at the top one only
  (`PushStack`), and what is unique below a window follows from its level: one
  window that watches (`OneWatches`), one selection (`NoSelectionBelow`);
- `Pending`: while a question is on top, the window below remembers that question
  and no other (RaceStatusScreen) or it is the one kept for all other screens; a
  selection opened from RaceStatusScreen is remembered until it returns, with
  whatever was opened above it. This is what *ConfirmedIsAsked* rests on;
- `RightData`: the windows about encryption are open only in the state of the data file
  they are for, and no window but the login while it is encrypted;
- `FrameOK` and `Framed`: the window area is the terminal less the bars, and the
  windows know it, whichever sequence of full screen, legend and size led there.

There is one lemma per way to open a window or to return (`OpenStep`,
`QuestionStep`, `ReturnStep`, `AnswerStep`, `QuietStep`), one per operation of Ui
that uses it, and one per screen.

### The browser (ScreensProofs)

`BrowseCorrect`: *BrowseInv*; `OnlyAskedDeleted`: *DeletedIsAsked*. For any
directories, any finite set of names and any bounds on the requests. *BrowseInv*
is not inductive. `BrowseStrong` adds to it

- of each side (`SideGood`), shown or not: only a local side has requests that
  ask, and at most the first of its requests waits for an answer (`AsksFirst`);
  and if what it shows, or what it has listed, is older than a change it made,
  then a refresh is due, or the change is still to be reported, or a listing is
  still to come (`FreshSide`). Without the queue in it, the statement about a quiet
  side says nothing of the moment before the side becomes quiet;
- that the question on screen is about what the side that asked has selected, or
  about the files it waits with (`QuestionFits`). This is what *DeletedIsAsked*
  rests on: no key reaches a side while a question is on screen, and what the site
  and the local storage execute meanwhile changes neither.

What `handleReadyRequests` does with a queue of any length is proved by following
its loop (`HandledSo`, `OneHandled`, `NextHandled`, `PrefixHandled`): after n
results, each of the two parts of `FreshSide` has been kept by the listing or the
change that was taken over, or by what is left (`FreshLeft`). It is stated once for
a side (`UpdateGood`) and used where the browser updates its sides and where the
user leaves one (`UpdateKeeps`, `SwitchKeeps`). There is one lemma for each other
key and for each command.

Both theorems hold up to the first answer that reaches a side that did not ask
(section "Disagreements found"), where the model stops.

### Left to TLC

- Liveness (EventuallyIdle, SlotsComeBack, PausedIsResumed, IoComesBack,
  QuietJobEnds), which is beyond the prover.
- *SettingsInv*, which is not proved yet.
- RestApi with raw commands posted with "async", for which RestInv is false.

## 5. Plan

Done: the transfer core, the event loop, the interfaces and the configuration
are modelled and checked; the transfer monitor, the books of a site, the event
loop with its signals and sockets, connections that log in, the file lists, the scoreboard with its container, and the lives of
spread jobs and transfer jobs, the configured sites, the REST interface, the remote
commands, the windows and the browser are proved.

Next, in this order:

1. A proof about Settings, with the inductive invariant it needs.
2. Parts that are not modelled yet: LocalStorage with its asynchronous requests,
   the refresh governor and the load monitor, recursive commands, the lists and
   cursors of the screens, skip lists as operators against a reference definition.
3. TransferLife, an abstract specification of a transfer (engaged, running,
   ended with a verdict) that TransferMonitor implements.

## 6. Not modelled

Sizes other than those of RemoteCommands and the files of a list, speeds, log lines, and the wording of messages; the TLS library and the
ciphers; SOCKS listening; exhaustion of the local ports; drawing. `PROJECT.json`
lists every component with the reason.
