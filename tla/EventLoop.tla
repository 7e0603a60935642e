------------------------------ MODULE EventLoop ------------------------------
(***************************************************************************)
(* The threads under the program: one worker runs every handler, and the   *)
(* I/O thread, the ticker, an asynchronous worker and the threads of       *)
(* signals hand it events (core/workmanager.cpp, blockingqueue.h,          *)
(* signalevents.cpp, asyncworker.cpp, and the pausing of sockets in        *)
(* iomanager.cpp).                                                         *)
(*                                                                         *)
(* A dispatch is two steps, a push to a queue and a post to the semaphore  *)
(* event; the worker takes one count of event and then looks at the signal *)
(* slots and at the queues one after another.  The last of them, the low   *)
(* priority queue, it pops without looking, so that a count without an     *)
(* event puts the whole program to sleep in there.                         *)
(*                                                                         *)
(* The semaphore inside a BlockingQueue is the length of the queue, since  *)
(* the worker is its only reader.                                          *)
(***************************************************************************)
EXTENDS Naturals, Sequences, FiniteSets

CONSTANTS
  Socks,        \* receivers of a socket that come and go (FTPConnect, FTPConn)
  NumSlots,     \* the slots of SignalEvents
  Posters,      \* the asynchronous workers and the threads of signal handlers
  OverloadSize, \* OVERLOAD_SIZE
  ReadySize,    \* READY_SIZE
  DirectDelete, \* a handler may delete the receiver of an open socket
  KeepsUp,      \* events that no pause holds back find the queues empty
  MaxQueue,     \* bound on the events in the queues
  MaxTasks      \* bound on the length of asyncqueue

Prios == {"low", "data", "high"}

\* The receiver of an event that is as old as the program: Ui, TickPoke,
\* LocalStorage, IOManager.
App == "app"

ASSUME LoopAssumption ==
  /\ IsFiniteSet(Posters) /\ NumSlots \in Nat
  /\ App \notin Socks
  /\ OverloadSize \in Nat /\ ReadySize \in Nat
  /\ MaxQueue \in Nat /\ MaxTasks \in Nat
  /\ DirectDelete \in BOOLEAN /\ KeepsUp \in BOOLEAN

(***************************************************************************)
(* Types of events.  "key" is DATA, by which the worker is told to read an *)
(* external descriptor such as the terminal; "buf" a DATABUF or NEW, after *)
(* which a socket may be paused; "sock" any other event of a socket.       *)
(***************************************************************************)
EventTypes == {"key", "buf", "sock", "tick", "task", "delete"}
Events == [type : EventTypes, er : Socks \cup {App}]
Nothing == [type |-> "tick", er |-> App]

WorkerPcs == {"event", "signals", "high", "data", "low", "handle", "signal",
              "check", "reset", "notify", "destroy"}

(***************************************************************************)
(* What the I/O thread is doing: "block" is a full block out of several    *)
(* that handleTCPSSLIn reads, "gone" the end of a socket.                  *)
(***************************************************************************)
IoStates == [pc : {"poll", "post", "size", "set", "ret", "pause", "wait"},
             what : {"key", "buf", "block", "sock", "gone"},
             er : Socks \cup {App}, prio : Prios, over : BOOLEAN]

Polling == [pc |-> "poll", what |-> "key", er |-> App, prio |-> "high",
            over |-> FALSE]

VARIABLES
  queue,     \* highprioqueue, dataqueue and lowprioqueue
  hasevent,  \* the slots of SignalEvents that are set
  event,     \* the semaphore of the worker
  posting,   \* threads that have pushed an event and not yet posted
  worker,    \* where the worker is, and the event it handles
  io,        \* where the I/O thread is, and what it handles
  readdata,  \* the semaphore on which the I/O thread waits for the worker
  flags,     \* overloaded ("data") and lowpriooverloaded ("low")
  open,      \* receivers of a socket in socketinfomap
  slow,      \* those of a socket with prio LOW
  paused,    \* autopaused
  alive,     \* receivers that are not deleted
  tasks,     \* length of asyncqueue
  broken     \* a flush has walked on from a node that it had freed

sockVars == <<open, slow, paused, alive>>
vars == <<queue, hasevent, event, posting, worker, io, readdata, flags,
          sockVars, tasks, broken>>

\* Types of the event loop's state.
LoopTypeOK ==
  /\ queue \in [Prios -> Seq(Events)] /\ hasevent \in Nat
  /\ event \in Nat /\ posting \subseteq Posters \cup {"tick"}
  /\ worker \in [pc : WorkerPcs, ev : Events]
  /\ io \in IoStates /\ readdata \in Nat
  /\ flags \in [{"data", "low"} -> BOOLEAN]
  /\ open \subseteq alive /\ slow \subseteq open /\ paused \subseteq open
  /\ alive \subseteq Socks
  /\ tasks \in Nat /\ broken \in BOOLEAN

Count(b) == IF b THEN 1 ELSE 0
QueueSize == Len(queue["low"]) + Len(queue["data"]) + Len(queue["high"])

\* The I/O thread holds socketinfomaplock, which it gives up to poll and while
\* the worker reads an external descriptor.
MapLocked == io.pc # "poll" /\ io.what # "key"

InQueue(p, r) == \E i \in 1..Len(queue[p]) : queue[p][i].er = r
Pending(r) == \E p \in Prios : InQueue(p, r)
Deletion(r) == [type |-> "delete", er |-> r]
Deferred(r) == \/ worker.ev = Deletion(r)
               \/ \E i \in 1..Len(queue["low"]) : queue["low"][i] = Deletion(r)

(***************************************************************************)
(* The pace at which events come that no pause holds back, and sockets     *)
(* that are not paused yet.  Without it the queue of low priority starves, *)
(* as it is meant to, and with it a socket that was paused for the length  *)
(* of that queue.                                                          *)
(***************************************************************************)
Pace == KeepsUp => QueueSize = 0

Room == QueueSize < MaxQueue
Push(p, type, r) ==
  queue' = [queue EXCEPT ![p] = Append(@, [type |-> type, er |-> r])]

Init ==
  /\ queue = [p \in Prios |-> <<>>] /\ hasevent = 0 /\ event = 0
  /\ posting = {} /\ readdata = 0
  /\ worker = [pc |-> "event", ev |-> Nothing]
  /\ io = Polling
  /\ flags = [f \in {"data", "low"} |-> FALSE]
  /\ open = {} /\ slow = {} /\ paused = {} /\ alive = {}
  /\ tasks = 0 /\ broken = FALSE

-----------------------------------------------------------------------------
(***************************************************************************)
(* The ticker, the asynchronous workers and the threads of signals.        *)
(***************************************************************************)
dispatchTick ==
  /\ "tick" \notin posting /\ Room /\ Pace
  /\ Push("high", "tick", App) /\ posting' = posting \cup {"tick"}
  /\ UNCHANGED <<hasevent, event, worker, io, readdata, flags, sockVars, tasks,
                 broken>>

\* Variant: a signal that is already set is posted again.
dispatchSignalAgain(t) ==
  /\ t \notin posting /\ Pace
  /\ hasevent' = (IF hasevent = 0 THEN 1 ELSE hasevent) /\ posting' = posting \cup {t}
  /\ UNCHANGED <<queue, event, worker, io, readdata, flags, sockVars, tasks,
                 broken>>

\* SignalEvents::set has set a slot.  When it finds that the signal is already
\* set, nothing is posted and nothing changes.
dispatchSignal(t) ==
  /\ t \notin posting /\ Pace
  /\ hasevent < NumSlots /\ hasevent' = hasevent + 1 /\ posting' = posting \cup {t}
  /\ UNCHANGED <<queue, event, worker, io, readdata, flags, sockVars, tasks,
                 broken>>

\* AsyncWorker::run: a task is executed and reported.
dispatchAsyncTaskComplete(t) ==
  /\ t \notin posting /\ tasks > 0 /\ tasks' = tasks - 1 /\ Room
  /\ Push("data", "task", App) /\ posting' = posting \cup {t}
  /\ UNCHANGED <<hasevent, event, worker, io, readdata, flags, sockVars, broken>>

post(t) ==
  /\ t \in posting /\ posting' = posting \ {t} /\ event' = event + 1
  /\ UNCHANGED <<queue, hasevent, worker, io, readdata, flags, sockVars, tasks,
                 broken>>

-----------------------------------------------------------------------------
(***************************************************************************)
(* The I/O thread.                                                         *)
(***************************************************************************)
PrioOf(s) == IF s \in slow THEN "low" ELSE "data"

\* A handler of IOManager::run begins: the event is pushed.
Handle(what, type, p, r) ==
  /\ io.pc = "poll" /\ Room
  /\ Push(p, type, r)
  /\ io' = [pc |-> "post", what |-> what, er |-> r, prio |-> p, over |-> FALSE]
  /\ UNCHANGED <<hasevent, event, posting, worker, readdata, flags, alive, tasks,
                 broken>>

handleExternalIn ==
  /\ Pace /\ Handle("key", "key", "high", App) /\ UNCHANGED <<open, slow, paused>>

\* handleTCPPlainIn, handleTCPServerIn, the last part of handleTCPSSLIn.
handleIn(s) ==
  /\ flags["low"] /\ ~flags[PrioOf(s)] => Pace
  /\ s \in open \ paused /\ Handle("buf", "buf", PrioOf(s), s)
  /\ UNCHANGED <<open, slow, paused>>

\* handleTCPSSLIn reads one block of many, the seventeenth of which lowers the
\* priority of the socket.
handleTCPSSLIn(s, demote) ==
  /\ Pace /\ s \in open \ paused
  /\ slow' = slow \cup demote
  /\ Handle("block", "buf", IF s \in slow' THEN "low" ELSE "data", s)
  /\ UNCHANGED <<open, paused>>

\* Connecting, connected, TLS success, send complete.
handleOut(s) ==
  /\ Pace /\ s \in open /\ Handle("sock", "sock", PrioOf(s), s)
  /\ UNCHANGED <<open, slow, paused>>

\* Disconnected or failed: closeSocketIntern.
handleGone(s) ==
  /\ Pace /\ s \in open /\ Handle("gone", "sock", PrioOf(s), s)
  /\ open' = open \ {s} /\ slow' = slow \ {s} /\ paused' = paused \ {s}

\* The post that follows the push.
ioPost ==
  /\ io.pc = "post" /\ event' = event + 1
  /\ io' = CASE io.what \in {"buf", "block"} -> [io EXCEPT !.pc = "size"]
             [] io.what = "key" -> [io EXCEPT !.pc = "wait"]
             [] OTHER -> Polling
  /\ UNCHANGED <<queue, hasevent, posting, worker, readdata, flags, sockVars,
                 tasks, broken>>

\* overload and lowPrioOverload: the sizes are read.
overloadSize ==
  /\ io.pc = "size"
  /\ LET size == IF io.prio = "low" THEN QueueSize
                 ELSE Len(queue["high"]) + Len(queue["data"])
     IN  io' = [io EXCEPT !.pc = "set", !.over = size >= OverloadSize]
  /\ UNCHANGED <<queue, hasevent, event, posting, worker, readdata, flags,
                 sockVars, tasks, broken>>

\* The flags are set.
overload ==
  /\ io.pc = "set" /\ io' = [io EXCEPT !.pc = "ret"]
  /\ flags' = IF ~io.over THEN flags
              ELSE IF io.prio = "low" THEN [flags EXCEPT !["low"] = TRUE]
              ELSE [f \in {"data", "low"} |-> TRUE]
  /\ UNCHANGED <<queue, hasevent, event, posting, worker, readdata, sockVars,
                 tasks, broken>>

\* The flag is returned.
overloadReturn ==
  /\ io.pc = "ret" /\ io' = [io EXCEPT !.pc = "pause", !.over = flags[io.prio]]
  /\ UNCHANGED <<queue, hasevent, event, posting, worker, readdata, flags,
                 sockVars, tasks, broken>>

\* The socket is paused; what handleTCPSSLIn notes for a full block it never
\* gets to use.
autoPause ==
  /\ io.pc = "pause" /\ io' = Polling
  /\ paused' = IF io.over /\ io.what = "buf" THEN paused \cup {io.er} ELSE paused
  /\ UNCHANGED <<queue, hasevent, event, posting, worker, readdata, flags, open,
                 slow, alive, tasks, broken>>

\* dispatchFDData waits until the worker has read the descriptor.
readdataWait ==
  /\ io.pc = "wait" /\ readdata > 0 /\ readdata' = readdata - 1
  /\ io' = Polling
  /\ UNCHANGED <<queue, hasevent, event, posting, worker, flags, sockVars, tasks,
                 broken>>

-----------------------------------------------------------------------------
(***************************************************************************)
(* The worker, WorkManager::run.                                           *)
(***************************************************************************)
Worker(pc) == worker' = [worker EXCEPT !.pc = pc]
Found(pc, e) == worker' = [pc |-> pc, ev |-> e]

wake ==
  /\ worker.pc = "event" /\ event > 0 /\ event' = event - 1
  /\ Worker("signals")
  /\ UNCHANGED <<queue, hasevent, posting, io, readdata, flags, sockVars, tasks,
                 broken>>

getClearFirst ==
  /\ worker.pc = "signals"
  /\ \/ hasevent = 0 /\ Worker("high") /\ UNCHANGED hasevent
     \/ hasevent > 0 /\ hasevent' = hasevent - 1 /\ Found("signal", Nothing)
  /\ UNCHANGED <<queue, event, posting, io, readdata, flags, sockVars, tasks,
                 broken>>

Pop(p) ==
  /\ queue[p] # <<>> /\ queue' = [queue EXCEPT ![p] = Tail(@)]
  /\ Found("handle", Head(queue[p]))

\* The queue p is popped if it has an event, else the next one is tried.
look(p, next) ==
  /\ worker.pc = p
  /\ \/ Pop(p)
     \/ queue[p] = <<>> /\ Worker(next) /\ UNCHANGED queue
  /\ UNCHANGED <<hasevent, event, posting, io, readdata, flags, sockVars, tasks,
                 broken>>

\* The last queue is popped without a look at its size.
popLow ==
  /\ worker.pc = "low" /\ Pop("low")
  /\ UNCHANGED <<hasevent, event, posting, io, readdata, flags, sockVars, tasks,
                 broken>>

-----------------------------------------------------------------------------
(***************************************************************************)
(* What a handler may do to the event loop.                                *)
(***************************************************************************)
Running == worker.pc \in {"handle", "signal"}

\* A receiver, which may be a new one, registers a socket, or adopts it.
registerSocket(s) ==
  /\ Running /\ ~MapLocked /\ s \notin open /\ ~Deferred(s) /\ Pace
  /\ alive' = alive \cup {s} /\ open' = open \cup {s}
  /\ UNCHANGED <<queue, hasevent, event, posting, worker, io, readdata, flags,
                 slow, paused, tasks, broken>>

\* The name of a host is resolved, and the receiver of the socket is told.
handleTCPNameResolution(s) ==
  /\ Running /\ ~MapLocked /\ s \in open /\ Room /\ Pace
  /\ Push("data", "sock", s) /\ event' = event + 1
  /\ UNCHANGED <<hasevent, posting, worker, io, readdata, flags, sockVars, tasks,
                 broken>>

\* It is not, or IOManager::tick finds that a connect has taken too long.
failSocket(s) ==
  /\ Running /\ ~MapLocked /\ s \in open /\ Room /\ Pace
  /\ Push("data", "sock", s) /\ event' = event + 1
  /\ open' = open \ {s} /\ slow' = slow \ {s} /\ paused' = paused \ {s}
  /\ UNCHANGED <<hasevent, posting, worker, io, readdata, flags, alive, tasks,
                 broken>>

\* closeSocket, or adopt by another receiver.
closeSocket(s) ==
  /\ Running /\ ~MapLocked /\ s \in open
  /\ open' = open \ {s} /\ slow' = slow \ {s} /\ paused' = paused \ {s}
  /\ UNCHANGED <<queue, hasevent, event, posting, worker, io, readdata, flags,
                 alive, tasks, broken>>

\* Variant: the deletion goes ahead of the events that are queued.
deferDeleteFirst(s) ==
  /\ Running /\ s \in alive \ open /\ ~Deferred(s) /\ Room /\ Pace
  /\ Push("high", "delete", s) /\ event' = event + 1
  /\ UNCHANGED <<hasevent, posting, worker, io, readdata, flags, sockVars, tasks,
                 broken>>

\* FTPConnect: disengaged, or its socket failed or was handed over.
deferDelete(s) ==
  /\ Running /\ s \in alive \ open /\ ~Deferred(s) /\ Room /\ Pace
  /\ Push("low", "delete", s) /\ event' = event + 1
  /\ UNCHANGED <<hasevent, posting, worker, io, readdata, flags, sockVars, tasks,
                 broken>>

asyncTask ==
  /\ Running /\ tasks < MaxTasks /\ tasks' = tasks + 1
  /\ UNCHANGED <<queue, hasevent, event, posting, worker, io, readdata, flags,
                 sockVars, broken>>

(***************************************************************************)
(* ~EventReceiver.  flushEventReceiver erases the events of the receiver   *)
(* from the queues, but goes on from the list node that it has erased: the *)
(* node is freed, still holds the receiver, and is erased once more.       *)
(***************************************************************************)
flushEventReceiver(s) ==
  \/ Pending(s) /\ broken' = TRUE /\ UNCHANGED sockVars
  \/ /\ ~Pending(s)
     /\ alive' = alive \ {s} /\ open' = open \ {s}
     /\ slow' = slow \ {s} /\ paused' = paused \ {s}
     /\ UNCHANGED broken

\* SiteLogic::setNumConnections deletes an FTPConn, which closes its socket.
deleteReceiver(s) ==
  /\ DirectDelete /\ Running /\ ~MapLocked
  /\ s \in alive /\ worker.ev.er # s /\ ~Deferred(s)
  /\ flushEventReceiver(s)
  /\ UNCHANGED <<queue, hasevent, event, posting, worker, io, readdata, flags,
                 tasks>>

-----------------------------------------------------------------------------
(***************************************************************************)
(* After the handler.                                                      *)
(***************************************************************************)
Leave == IF worker.ev.type = "delete" THEN Worker("destroy")
         ELSE Found("event", Nothing)

\* Variant: the I/O thread is answered after any data.
handledAnswersAll ==
  /\ worker.pc = "handle" /\ Worker("check")
  /\ readdata' = readdata + Count(worker.ev.type \in {"key", "buf"})
  /\ UNCHANGED <<queue, hasevent, event, posting, io, flags, sockVars, tasks, broken>>

\* Variant: the I/O thread is not answered.
handledNoAnswer ==
  /\ worker.pc = "handle" /\ Worker("check")
  /\ UNCHANGED <<queue, hasevent, event, posting, io, readdata, flags, sockVars,
                 tasks, broken>>

\* The handler returns; the I/O thread may go on after an external descriptor.
handled ==
  /\ worker.pc = "handle" /\ Worker("check")
  /\ readdata' = readdata + Count(worker.ev.type = "key")
  /\ UNCHANGED <<queue, hasevent, event, posting, io, flags, sockVars, tasks, broken>>

\* After a signal the flags are not looked at.
signalled ==
  /\ worker.pc = "signal" /\ Worker("event")
  /\ UNCHANGED <<queue, hasevent, event, posting, io, readdata, flags, sockVars,
                 tasks, broken>>

\* Variant: only the flag of the data queue is looked at.
checkReadyData ==
  /\ worker.pc = "check"
  /\ IF flags["data"] /\ QueueSize <= ReadySize THEN Worker("reset") ELSE Leave
  /\ UNCHANGED <<queue, hasevent, event, posting, io, readdata, flags, sockVars,
                 tasks, broken>>

checkReady ==
  /\ worker.pc = "check"
  /\ IF (flags["data"] \/ flags["low"]) /\ QueueSize <= ReadySize
     THEN Worker("reset") ELSE Leave
  /\ UNCHANGED <<queue, hasevent, event, posting, io, readdata, flags, sockVars,
                 tasks, broken>>

resetFlags ==
  /\ worker.pc = "reset" /\ Worker("notify")
  /\ flags' = [f \in {"data", "low"} |-> FALSE]
  /\ UNCHANGED <<queue, hasevent, event, posting, io, readdata, sockVars, tasks,
                 broken>>

\* Variant: without the lock.
workerReadyUnlocked ==
  /\ worker.pc = "notify" /\ Leave /\ paused' = {}
  /\ UNCHANGED <<queue, hasevent, event, posting, io, readdata, flags, open, slow,
                 alive, tasks, broken>>

\* IOManager::workerReady, under socketinfomaplock.
workerReady ==
  /\ worker.pc = "notify" /\ ~MapLocked /\ Leave /\ paused' = {}
  /\ UNCHANGED <<queue, hasevent, event, posting, io, readdata, flags, open, slow,
                 alive, tasks, broken>>

\* A deferred receiver goes with the event that held it.
destroy ==
  /\ worker.pc = "destroy" /\ Found("event", Nothing)
  /\ flushEventReceiver(worker.ev.er)
  /\ UNCHANGED <<queue, hasevent, event, posting, io, readdata, flags, tasks>>

-----------------------------------------------------------------------------
WorkerStep == \/ wake \/ getClearFirst \/ popLow
              \/ look("high", "data") \/ look("data", "low")
              \/ handled \/ signalled \/ checkReady \/ resetFlags \/ workerReady
              \/ destroy
HandlerStep == \/ asyncTask
               \/ \E s \in Socks : \/ registerSocket(s) \/ closeSocket(s)
                                   \/ handleTCPNameResolution(s) \/ failSocket(s)
                                   \/ deferDelete(s) \/ deleteReceiver(s)
IoGoesOn == \/ ioPost \/ overloadSize \/ overload \/ overloadReturn
            \/ autoPause \/ readdataWait
IoStep == \/ handleExternalIn \/ IoGoesOn
          \/ \E s \in Socks : \/ handleIn(s) \/ handleOut(s) \/ handleGone(s)
                              \/ \E d \in {{}, {s}} : handleTCPSSLIn(s, d)
OtherStep == \/ dispatchTick
             \/ \E t \in Posters : dispatchAsyncTaskComplete(t) \/ dispatchSignal(t)
             \/ \E t \in posting : post(t)

\* The program has crashed.
Crashed == broken /\ UNCHANGED vars

Next == \/ ~broken /\ (WorkerStep \/ HandlerStep \/ IoStep \/ OtherStep)
        \/ Crashed

Spec == Init /\ [][Next]_vars

(***************************************************************************)
(* The threads run and handlers return; the ticker ticks for as long as    *)
(* the program runs.                                                       *)
(***************************************************************************)
Fairness ==
  /\ WF_vars(WorkerStep) /\ WF_vars(IoGoesOn)
  /\ WF_vars(dispatchTick) /\ WF_vars(\E t \in posting : post(t))

FairSpec == Spec /\ Fairness

-----------------------------------------------------------------------------
\* WorkManager::run sleeps in event.wait only when there is nothing to do: each
\* event in a queue and each signal has a count of event, a post that is under
\* way, or the count that the worker has just taken.
EveryEventCounted ==
  LET counts == event + Cardinality(posting) + Count(io.pc = "post")
                + Count(worker.pc \in {"signals", "high", "data", "low"})
  IN  counts = QueueSize + hasevent

\* lowprioqueue.pop never waits: there is an event in it when the worker gets
\* there, whatever was dispatched while it looked at the other queues.
PopNeverWaits == worker.pc = "low" => queue["low"] # <<>>

\* The semaphore, the posts under way and the queues agree at every step of
\* every thread, so that the worker is never woken for nothing or left asleep.
EventsAccounted == LoopTypeOK /\ EveryEventCounted /\ PopNeverWaits

\* deferDelete: when a receiver is destroyed, no event is queued for it and no
\* socket can queue another, so that flushEventReceiver has nothing to erase.
FlushFindsNothing == ~broken

\* A paused socket is not forgotten: a flag is set by which the worker will
\* resume it, or the worker is on its way to do so, even if the flags were
\* reset while the I/O thread was about to pause the socket.
PauseRemembered ==
  paused # {} => flags["data"] \/ flags["low"] \/ worker.pc = "notify"

\* While the I/O thread is in dispatchFDData of an external descriptor, exactly
\* one of these is there: the event, its handler, or the answer.  Otherwise none
\* is, so that no descriptor is read twice and no later wait returns at once.
ExternalHandshake ==
  LET queued == {i \in 1..Len(queue["high"]) : queue["high"][i].type = "key"}
      reading == worker.pc = "handle" /\ worker.ev.type = "key"
  IN  IF io.what = "key" /\ io.pc \in {"post", "wait"}
      THEN \/ ~reading /\ readdata = 0 /\ \E i \in queued : queued = {i}
           \/ reading /\ readdata = 0 /\ queued = {}
           \/ ~reading /\ readdata = 1 /\ queued = {}
      ELSE ~reading /\ readdata = 0 /\ queued = {}

\* A paused socket is resumed, by the next tick if by nothing else, unless the
\* program has crashed.
PausedIsResumed == \A s \in Socks : s \in paused ~> s \notin paused \/ broken

\* The I/O thread comes back from an external descriptor, in the same sense.
IoComesBack == io.pc = "wait" ~> io.pc = "poll" \/ broken
=============================================================================
