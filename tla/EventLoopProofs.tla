-------------------------- MODULE EventLoopProofs --------------------------
(***************************************************************************)
(* Proofs about EventLoop, for any receivers, slots, threads and bounds.  *)
(***************************************************************************)
EXTENDS EventLoop, FiniteSetTheorems, TLAPS

\* The lengths of the queues are numbers.
LEMMA Lengths ==
  ASSUME NEW q \in [Prios -> Seq(Events)]
  PROVE  Len(q["low"]) \in Nat /\ Len(q["data"]) \in Nat /\ Len(q["high"]) \in Nat
<1>1. q["low"] \in Seq(Events) /\ q["data"] \in Seq(Events) /\ q["high"] \in Seq(Events)
  BY DEF Prios
<1> QED BY <1>1

\* So is the size of all of them.
LEMMA SizeNat ==
  ASSUME queue \in [Prios -> Seq(Events)]
  PROVE  QueueSize \in Nat /\ Len(queue["high"]) + Len(queue["data"]) \in Nat
<1> DEFINE l == Len(queue["low"])  d == Len(queue["data"])  h == Len(queue["high"])
<1>1. l \in Nat /\ d \in Nat /\ h \in Nat
  BY Lengths
<1>2. QueueSize = l + d + h
  BY DEF QueueSize
<1> HIDE DEF l, d, h
<1>3. QueueSize \in Nat /\ h + d \in Nat
  BY <1>1, <1>2
<1> QED BY <1>3 DEF h, d

\* What a push does to the queues.
LEMMA PushFacts ==
  ASSUME queue \in [Prios -> Seq(Events)], NEW p \in Prios,
         NEW type \in EventTypes, NEW r \in Socks \cup {App}, Push(p, type, r)
  PROVE  /\ queue' \in [Prios -> Seq(Events)]
         /\ \A x \in Prios : x # p => queue'[x] = queue[x]
         /\ Len(queue'[p]) = Len(queue[p]) + 1
         /\ \A i \in 1..Len(queue[p]) : queue'[p][i] = queue[p][i]
         /\ queue'[p][Len(queue[p]) + 1] = [type |-> type, er |-> r]
         /\ QueueSize' = QueueSize + 1
<1>1. [type |-> type, er |-> r] \in Events
  BY DEF Events
<1>2. /\ queue' = [queue EXCEPT ![p] = Append(queue[p], [type |-> type, er |-> r])]
      /\ queue[p] \in Seq(Events)
  BY DEF Push
<1>3. /\ queue' \in [Prios -> Seq(Events)]
      /\ \A x \in Prios : x # p => queue'[x] = queue[x]
      /\ queue'[p] = Append(queue[p], [type |-> type, er |-> r])
  BY <1>1, <1>2
<1>4. /\ Len(queue'[p]) = Len(queue[p]) + 1
      /\ \A i \in 1..Len(queue[p]) : queue'[p][i] = queue[p][i]
      /\ queue'[p][Len(queue[p]) + 1] = [type |-> type, er |-> r]
  BY <1>1, <1>2, <1>3
<1>5. QueueSize' = QueueSize + 1
  <2> DEFINE l == Len(queue["low"])   l2 == Len(queue'["low"])
             d == Len(queue["data"])  d2 == Len(queue'["data"])
             h == Len(queue["high"])  h2 == Len(queue'["high"])
  <2>1. l \in Nat /\ d \in Nat /\ h \in Nat
    BY Lengths
  <2>2. \/ l2 = l + 1 /\ d2 = d /\ h2 = h
        \/ l2 = l /\ d2 = d + 1 /\ h2 = h
        \/ l2 = l /\ d2 = d /\ h2 = h + 1
    BY <1>3, <1>4 DEF Prios
  <2>3. QueueSize = l + d + h /\ QueueSize' = l2 + d2 + h2
    BY DEF QueueSize
  <2> HIDE DEF l, d, h, l2, d2, h2
  <2> QED BY <2>1, <2>2, <2>3
<1> QED BY <1>3, <1>4, <1>5

\* What a pop does.
LEMMA PopFacts ==
  ASSUME queue \in [Prios -> Seq(Events)], NEW p \in Prios, Pop(p)
  PROVE  /\ queue' \in [Prios -> Seq(Events)]
         /\ \A x \in Prios : x # p => queue'[x] = queue[x]
         /\ Len(queue[p]) > 0
         /\ Len(queue'[p]) = Len(queue[p]) - 1
         /\ \A i \in 1..Len(queue'[p]) : queue'[p][i] = queue[p][i + 1]
         /\ worker' = [pc |-> "handle", ev |-> queue[p][1]]
         /\ queue[p][1] \in Events
         /\ QueueSize' = QueueSize - 1
<1>1. /\ queue' = [queue EXCEPT ![p] = Tail(queue[p])]
      /\ queue[p] \in Seq(Events) /\ queue[p] # <<>>
      /\ worker' = [pc |-> "handle", ev |-> Head(queue[p])]
  BY DEF Pop, Found
<1>2. /\ Len(queue[p]) > 0 /\ Tail(queue[p]) \in Seq(Events)
      /\ Len(Tail(queue[p])) = Len(queue[p]) - 1
      /\ \A i \in 1..Len(Tail(queue[p])) : Tail(queue[p])[i] = queue[p][i + 1]
      /\ Head(queue[p]) = queue[p][1] /\ queue[p][1] \in Events
  BY <1>1
<1>3. /\ queue' \in [Prios -> Seq(Events)]
      /\ \A x \in Prios : x # p => queue'[x] = queue[x]
      /\ queue'[p] = Tail(queue[p])
  BY <1>1, <1>2
<1>4. QueueSize' = QueueSize - 1
  <2> DEFINE l == Len(queue["low"])   l2 == Len(queue'["low"])
             d == Len(queue["data"])  d2 == Len(queue'["data"])
             h == Len(queue["high"])  h2 == Len(queue'["high"])
  <2>1. l \in Nat /\ d \in Nat /\ h \in Nat
    BY Lengths
  <2>2. \/ l2 = l - 1 /\ d2 = d /\ h2 = h
        \/ l2 = l /\ d2 = d - 1 /\ h2 = h
        \/ l2 = l /\ d2 = d /\ h2 = h - 1
    BY <1>2, <1>3 DEF Prios
  <2>3. QueueSize = l + d + h /\ QueueSize' = l2 + d2 + h2
    BY DEF QueueSize
  <2> HIDE DEF l, d, h, l2, d2, h2
  <2> QED BY <2>1, <2>2, <2>3
<1> QED BY <1>1, <1>2, <1>3, <1>4

-----------------------------------------------------------------------------
(***************************************************************************)
(* The base of the other arguments: types, and who may touch a socket.     *)
(***************************************************************************)
\* Only lowprioqueue holds deletions.
DeletesInLow ==
  \A p \in {"data", "high"} : \A i \in 1..Len(queue[p]) : queue[p][i].type # "delete"

\* A receiver whose deletion is on its way is alive and has no socket.
DeferredClosed ==
  /\ worker.pc = "destroy" => worker.ev.type = "delete"
  /\ worker.ev.type = "delete" => worker.ev.er \in alive \ open
  /\ \A i \in 1..Len(queue["low"]) :
       queue["low"][i].type = "delete" => queue["low"][i].er \in alive \ open

\* Until it has paused a socket or has left it as it is, the I/O thread holds
\* socketinfomaplock, so that the socket stays open.
IoSound ==
  /\ io.pc \in {"size", "set", "ret", "pause"} => io.what \in {"buf", "block"}
  /\ io.pc # "poll" /\ io.what \in {"buf", "block"} =>
       io.er \in open /\ io.prio \in {"data", "low"}

LoopBase == LoopTypeOK /\ DeletesInLow /\ DeferredClosed /\ IoSound

\* No deletion of r is on its way.
NotDeferred(r) ==
  /\ worker.ev.type = "delete" => worker.ev.er # r
  /\ \A i \in 1..Len(queue["low"]) : queue["low"][i].type = "delete" => queue["low"][i].er # r

\* It says that r is not deferred.
LEMMA DeferredMeans ==
  ASSUME LoopTypeOK, NEW s, ~Deferred(s)
  PROVE  NotDeferred(s)
<1>1. \A e \in Events : e.type = "delete" /\ e.er = s => e = Deletion(s)
  BY DEF Events, Deletion
<1>2. \A i \in 1..Len(queue["low"]) : queue["low"][i] \in Events
  <2>1. queue["low"] \in Seq(Events)
    BY DEF LoopTypeOK, Prios
  <2> QED BY <2>1
<1>3. worker.ev \in Events
  BY DEF LoopTypeOK
<1> QED BY <1>1, <1>2, <1>3 DEF NotDeferred, Deferred

\* The base invariant holds at the start.
LEMMA BaseInit == Init => LoopBase
<1> SUFFICES ASSUME Init PROVE LoopBase
  OBVIOUS
<1>1. \A p \in Prios : queue[p] = <<>>
  BY DEF Init
<1>2. LoopTypeOK
  <2>1. queue \in [Prios -> Seq(Events)] /\ flags \in [{"data", "low"} -> BOOLEAN]
    BY DEF Init
  <2>2. worker \in [pc : WorkerPcs, ev : Events]
    BY DEF Init, Nothing, Events, EventTypes, WorkerPcs
  <2>3. io \in IoStates
    BY DEF Init, Polling, IoStates, Prios
  <2> QED BY <2>1, <2>2, <2>3 DEF Init, LoopTypeOK
<1>3. DeletesInLow /\ DeferredClosed /\ IoSound
  BY <1>1 DEF Init, DeletesInLow, DeferredClosed, IoSound, Polling, Nothing, Prios
<1> QED BY <1>2, <1>3 DEF LoopBase

\* A push of an event of a receiver that is not about to be deleted.
LEMMA BasePush ==
  ASSUME LoopBase, NEW p \in Prios, NEW type \in EventTypes \ {"delete"},
         NEW r \in Socks \cup {App}, Push(p, type, r),
         alive' = alive, open' \subseteq open, worker' = worker
  PROVE  DeletesInLow' /\ DeferredClosed' /\ queue' \in [Prios -> Seq(Events)]
<1>1. /\ queue' \in [Prios -> Seq(Events)]
      /\ \A x \in Prios : x # p => queue'[x] = queue[x]
      /\ Len(queue'[p]) = Len(queue[p]) + 1
      /\ \A i \in 1..Len(queue[p]) : queue'[p][i] = queue[p][i]
      /\ queue'[p][Len(queue[p]) + 1] = [type |-> type, er |-> r]
  BY PushFacts DEF LoopBase, LoopTypeOK
<1>2. Len(queue[p]) \in Nat
  BY Lengths DEF LoopBase, LoopTypeOK, Prios
<1>3. \A x \in Prios : \A i \in 1..Len(queue'[x]) :
        queue'[x][i].type = "delete" => i \in 1..Len(queue[x]) /\ queue'[x][i] = queue[x][i]
  <2> SUFFICES ASSUME NEW x \in Prios, NEW i \in 1..Len(queue'[x]),
                      queue'[x][i].type = "delete"
               PROVE  i \in 1..Len(queue[x]) /\ queue'[x][i] = queue[x][i]
    OBVIOUS
  <2>1. CASE x # p
    BY <1>1, <2>1
  <2>2. CASE x = p
    <3>1. i # Len(queue[p]) + 1
      BY <1>1, <2>2
    <3>2. i \in 1..Len(queue[p])
      BY <1>1, <1>2, <2>2, <3>1
    <3> QED BY <1>1, <2>2, <3>2
  <2> QED BY <2>1, <2>2
<1>4. DeletesInLow'
  BY <1>3 DEF LoopBase, DeletesInLow, Prios
<1>5. DeferredClosed'
  BY <1>3 DEF LoopBase, DeferredClosed, Prios
<1> QED BY <1>1, <1>4, <1>5

\* The I/O thread begins to handle a socket or an external descriptor.
LEMMA BaseHandle ==
  ASSUME LoopBase, NEW what \in {"key", "buf", "block", "sock", "gone"},
         NEW type \in EventTypes \ {"delete"}, NEW p \in Prios,
         NEW r \in Socks \cup {App}, Handle(what, type, p, r),
         open' \subseteq open, slow' \subseteq open', paused' \subseteq open',
         what \in {"buf", "block"} => r \in open' /\ p \in {"data", "low"}
  PROVE  LoopBase'
<1>1. /\ io' = [pc |-> "post", what |-> what, er |-> r, prio |-> p, over |-> FALSE]
      /\ Push(p, type, r) /\ alive' = alive /\ worker' = worker
      /\ UNCHANGED <<hasevent, event, posting, readdata, flags, tasks, broken>>
  BY DEF Handle
<1>2. DeletesInLow' /\ DeferredClosed' /\ queue' \in [Prios -> Seq(Events)]
  BY <1>1, BasePush
<1>3. io' \in IoStates
  BY <1>1 DEF IoStates
<1>4. IoSound'
  BY <1>1 DEF IoSound
<1>5. LoopTypeOK'
  BY <1>1, <1>2, <1>3 DEF LoopBase, LoopTypeOK
<1> QED BY <1>2, <1>4, <1>5 DEF LoopBase

\* The events of the other threads.
LEMMA BaseOther == LoopBase /\ OtherStep => LoopBase'
<1> SUFFICES ASSUME LoopBase, OtherStep PROVE LoopBase'
  OBVIOUS
<1>1. CASE dispatchTick
  <2>1. DeletesInLow' /\ DeferredClosed' /\ queue' \in [Prios -> Seq(Events)]
    BY <1>1, BasePush DEF dispatchTick, sockVars, Prios, EventTypes
  <2> QED BY <1>1, <2>1 DEF dispatchTick, sockVars, LoopBase, LoopTypeOK, IoSound
<1>2. ASSUME NEW t \in Posters, dispatchAsyncTaskComplete(t) PROVE LoopBase'
  <2>1. DeletesInLow' /\ DeferredClosed' /\ queue' \in [Prios -> Seq(Events)]
    BY <1>2, BasePush DEF dispatchAsyncTaskComplete, sockVars, Prios, EventTypes
  <2>2. tasks' \in Nat
    BY <1>2 DEF dispatchAsyncTaskComplete, LoopBase, LoopTypeOK
  <2> QED BY <1>2, <2>1, <2>2 DEF dispatchAsyncTaskComplete, sockVars, LoopBase, LoopTypeOK,
         IoSound
<1>3. ASSUME NEW t \in Posters, dispatchSignal(t) PROVE LoopBase'
  BY <1>3 DEF dispatchSignal, sockVars, LoopBase, LoopTypeOK, IoSound, DeletesInLow,
     DeferredClosed
<1>4. ASSUME NEW t \in posting, post(t) PROVE LoopBase'
  BY <1>4 DEF post, sockVars, LoopBase, LoopTypeOK, IoSound, DeletesInLow, DeferredClosed
<1> QED BY <1>1, <1>2, <1>3, <1>4 DEF OtherStep

\* The I/O thread.
LEMMA BaseIo == LoopBase /\ IoStep => LoopBase'
<1> SUFFICES ASSUME LoopBase, IoStep PROVE LoopBase'
  OBVIOUS
<1>1. CASE handleExternalIn
  BY <1>1, BaseHandle DEF handleExternalIn, LoopBase, LoopTypeOK, EventTypes, Prios
<1>2. ASSUME NEW s \in Socks, handleIn(s) PROVE LoopBase'
  <2>1. PrioOf(s) \in {"data", "low"} /\ PrioOf(s) \in Prios
    BY DEF PrioOf, Prios
  <2> QED BY <1>2, <2>1, BaseHandle DEF handleIn, LoopBase, LoopTypeOK, EventTypes
<1>3. ASSUME NEW s \in Socks, NEW d \in {{}, {s}}, handleTCPSSLIn(s, d) PROVE LoopBase'
  <2>1. slow' \subseteq open /\ UNCHANGED <<open, paused>> /\ s \in open
    BY <1>3 DEF handleTCPSSLIn, LoopBase, LoopTypeOK
  <2>2. PICK p \in {"data", "low"} : Handle("block", "buf", p, s)
    BY <1>3 DEF handleTCPSSLIn
  <2> QED BY <2>1, <2>2, BaseHandle DEF LoopBase, LoopTypeOK, EventTypes, Prios
<1>4. ASSUME NEW s \in Socks, handleOut(s) PROVE LoopBase'
  <2>1. PrioOf(s) \in Prios
    BY DEF PrioOf, Prios
  <2> QED BY <1>4, <2>1, BaseHandle DEF handleOut, LoopBase, LoopTypeOK, EventTypes
<1>5. ASSUME NEW s \in Socks, handleGone(s) PROVE LoopBase'
  <2>1. PrioOf(s) \in Prios
    BY DEF PrioOf, Prios
  <2> QED BY <1>5, <2>1, BaseHandle DEF handleGone, LoopBase, LoopTypeOK, EventTypes
<1>6. CASE IoGoesOn
  <2>1. UNCHANGED <<queue, hasevent, posting, worker, open, slow, alive, tasks, broken>>
    BY <1>6 DEF IoGoesOn, ioPost, overloadSize, overload, overloadReturn, autoPause,
       readdataWait, sockVars
  <2>2. DeletesInLow' /\ DeferredClosed'
    BY <2>1 DEF LoopBase, DeletesInLow, DeferredClosed
  <2>3. event' \in Nat /\ readdata' \in Nat
    BY <1>6 DEF IoGoesOn, ioPost, overloadSize, overload, overloadReturn, autoPause,
       readdataWait, LoopBase, LoopTypeOK
  <2>4. flags' \in [{"data", "low"} -> BOOLEAN]
    BY <1>6 DEF IoGoesOn, ioPost, overloadSize, overload, overloadReturn, autoPause,
       readdataWait, LoopBase, LoopTypeOK
  <2>5. paused' \subseteq open'
    BY <1>6, <2>1 DEF IoGoesOn, ioPost, overloadSize, overload, overloadReturn, autoPause,
       readdataWait, sockVars, LoopBase, LoopTypeOK, IoSound
  <2>6. io' \in IoStates /\ IoSound'
    <3>1. io \in IoStates /\ IoSound /\ flags \in [{"data", "low"} -> BOOLEAN]
      BY DEF LoopBase, LoopTypeOK
    <3>2. Polling \in IoStates /\ Polling.pc = "poll"
      BY DEF Polling, IoStates, Prios
    <3>3. CASE ioPost
      <4>1. io.pc = "post"
        BY <3>3 DEF ioPost
      <4>2. CASE io.what \in {"buf", "block"}
        <5>1. io' = [io EXCEPT !.pc = "size"]
          BY <3>3, <4>2 DEF ioPost
        <5> QED BY <2>1, <3>1, <4>1, <4>2, <5>1 DEF IoStates, IoSound
      <4>3. CASE io.what = "key"
        <5>1. io' = [io EXCEPT !.pc = "wait"]
          BY <3>3, <4>3 DEF ioPost
        <5> QED BY <2>1, <3>1, <4>3, <5>1 DEF IoStates, IoSound
      <4>4. CASE io.what \notin {"key", "buf", "block"}
        <5>1. io' = Polling
          BY <3>3, <4>4 DEF ioPost
        <5> QED BY <3>2, <5>1 DEF IoSound
      <4> QED BY <4>2, <4>3, <4>4
    <3>4. CASE overloadSize
      <4>1. io.pc = "size"
        BY <3>4 DEF overloadSize
      <4> DEFINE size == IF io.prio = "low" THEN QueueSize
                         ELSE Len(queue["high"]) + Len(queue["data"])
                 b == size >= OverloadSize
      <4>2. io' = [io EXCEPT !.pc = "set", !.over = b]
        BY <3>4, Zenon DEF overloadSize
      <4>3. size \in Nat
        BY SizeNat DEF LoopBase, LoopTypeOK
      <4> HIDE DEF size
      <4>4. b = TRUE \/ b = FALSE
        BY <4>3, LoopAssumption
      <4> HIDE DEF b
      <4> QED BY <2>1, <3>1, <4>1, <4>2, <4>4 DEF IoStates, IoSound
    <3>5. CASE overload
      BY <2>1, <3>1, <3>5 DEF overload, IoStates, IoSound
    <3>6. CASE overloadReturn
      BY <2>1, <3>1, <3>6 DEF overloadReturn, IoStates, IoSound
    <3>7. CASE autoPause
      BY <2>1, <3>2, <3>7 DEF autoPause, IoSound
    <3>8. CASE readdataWait
      BY <2>1, <3>2, <3>8 DEF readdataWait, IoSound
    <3> QED BY <1>6, <3>3, <3>4, <3>5, <3>6, <3>7, <3>8 DEF IoGoesOn
  <2> QED BY <2>1, <2>2, <2>3, <2>4, <2>5, <2>6 DEF LoopBase, LoopTypeOK
<1> QED BY <1>1, <1>2, <1>3, <1>4, <1>5, <1>6 DEF IoStep

\* A pop: what the worker has found keeps its place among the deletions.
LEMMA BasePop ==
  ASSUME LoopBase, NEW p \in Prios, Pop(p), UNCHANGED <<alive, open>>
  PROVE  /\ DeletesInLow' /\ DeferredClosed' /\ queue' \in [Prios -> Seq(Events)]
         /\ worker' \in [pc : WorkerPcs, ev : Events]
<1>1. /\ queue' \in [Prios -> Seq(Events)]
      /\ \A x \in Prios : x # p => queue'[x] = queue[x]
      /\ Len(queue[p]) > 0 /\ Len(queue'[p]) = Len(queue[p]) - 1
      /\ \A i \in 1..Len(queue'[p]) : queue'[p][i] = queue[p][i + 1]
      /\ worker' = [pc |-> "handle", ev |-> queue[p][1]] /\ queue[p][1] \in Events
  BY PopFacts DEF LoopBase, LoopTypeOK
<1>2. Len(queue[p]) \in Nat
  BY Lengths DEF LoopBase, LoopTypeOK, Prios
<1>3. \A x \in Prios : \A i \in 1..Len(queue'[x]) :
        \E j \in 1..Len(queue[x]) : queue'[x][i] = queue[x][j]
  <2> SUFFICES ASSUME NEW x \in Prios, NEW i \in 1..Len(queue'[x])
               PROVE  \E j \in 1..Len(queue[x]) : queue'[x][i] = queue[x][j]
    OBVIOUS
  <2>1. CASE x # p
    BY <1>1, <2>1
  <2>2. CASE x = p
    <3>1. i + 1 \in 1..Len(queue[p]) /\ queue'[p][i] = queue[p][i + 1]
      BY <1>1, <1>2, <2>2
    <3> QED BY <2>2, <3>1
  <2> QED BY <2>1, <2>2
<1>4. DeletesInLow'
  <2> SUFFICES ASSUME NEW x \in {"data", "high"}, NEW i \in 1..Len(queue'[x])
               PROVE  queue'[x][i].type # "delete"
    BY DEF DeletesInLow
  <2>1. x \in Prios
    BY DEF Prios
  <2>2. PICK j \in 1..Len(queue[x]) : queue'[x][i] = queue[x][j]
    BY <1>3, <2>1, Zenon
  <2> QED BY <2>2 DEF LoopBase, DeletesInLow
<1>5. DeferredClosed'
  <2>1. \A i \in 1..Len(queue'["low"]) :
          queue'["low"][i].type = "delete" => queue'["low"][i].er \in alive \ open
    BY <1>3 DEF LoopBase, DeferredClosed, Prios
  <2>2. 1 \in 1..Len(queue[p])
    BY <1>1, <1>2
  <2>3. queue[p][1].type = "delete" => queue[p][1].er \in alive \ open
    BY <2>2 DEF LoopBase, DeferredClosed, DeletesInLow, Prios
  <2> QED BY <1>1, <2>1, <2>3 DEF DeferredClosed
<1>6. worker' \in [pc : WorkerPcs, ev : Events]
  BY <1>1 DEF WorkerPcs
<1> QED BY <1>1, <1>4, <1>5, <1>6

\* The worker goes on from an event: what it holds is the deletion that it held.
LEMMA LeaveFacts ==
  ASSUME LoopBase, Leave
  PROVE  /\ worker' \in [pc : WorkerPcs, ev : Events]
         /\ worker'.pc \in {"destroy", "event"}
         /\ worker'.pc = "destroy" => worker'.ev.type = "delete"
         /\ worker'.ev.type = "delete" => worker'.ev = worker.ev
<1>1. Nothing \in Events /\ Nothing.type # "delete"
  BY DEF Nothing, Events, EventTypes
<1> QED BY <1>1 DEF Leave, Worker, Found, LoopBase, LoopTypeOK, WorkerPcs

\* A receiver goes that no event is queued for, and that is not being deleted.
LEMMA BaseFlush ==
  ASSUME LoopBase, NEW s \in Socks, flushEventReceiver(s), queue' = queue,
         worker'.ev.type = "delete" => worker'.ev = worker.ev /\ worker.ev.er # s,
         worker'.pc = "destroy" => worker'.ev.type = "delete"
  PROVE  /\ DeletesInLow' /\ DeferredClosed'
         /\ open' \subseteq alive' /\ slow' \subseteq open' /\ paused' \subseteq open'
         /\ alive' \subseteq Socks /\ broken' \in BOOLEAN
<1>1. DeletesInLow'
  BY DEF LoopBase, DeletesInLow
<1>2. /\ open' \subseteq alive' /\ slow' \subseteq open' /\ paused' \subseteq open'
      /\ alive' \subseteq Socks /\ broken' \in BOOLEAN
  BY DEF flushEventReceiver, sockVars, LoopBase, LoopTypeOK
<1>3. CASE Pending(s)
  BY <1>1, <1>2, <1>3 DEF flushEventReceiver, sockVars, LoopBase, DeferredClosed
<1>4. CASE ~Pending(s)
  <2>1. alive' \ open' = (alive \ open) \ {s}
    BY <1>4 DEF flushEventReceiver
  <2>2. \A i \in 1..Len(queue["low"]) : queue["low"][i].er # s
    BY <1>4 DEF Pending, InQueue, Prios
  <2> QED BY <1>1, <1>2, <2>1, <2>2 DEF LoopBase, DeferredClosed
<1> QED BY <1>3, <1>4

\* The worker.
LEMMA BaseWorker == LoopBase /\ WorkerStep => LoopBase'
<1> SUFFICES ASSUME LoopBase, WorkerStep PROVE LoopBase'
  OBVIOUS
<1> USE DEF LoopBase
<1>1. ASSUME NEW p \in Prios, NEW next \in {"data", "low"}, look(p, next) PROVE LoopBase'
  <2>1. UNCHANGED <<hasevent, event, posting, io, readdata, flags, sockVars, tasks, broken>>
    BY <1>1 DEF look
  <2>2. CASE Pop(p)
    BY <2>1, <2>2, BasePop DEF sockVars, LoopTypeOK, IoSound
  <2>3. CASE Worker(next) /\ UNCHANGED queue
    BY <2>1, <2>3 DEF Worker, sockVars, LoopTypeOK, WorkerPcs, IoSound, DeletesInLow,
       DeferredClosed
  <2> QED BY <1>1, <2>2, <2>3 DEF look
<1>2. CASE popLow
  BY <1>2, BasePop DEF popLow, sockVars, LoopTypeOK, IoSound, Prios
<1>3. CASE wake \/ signalled \/ handled \/ resetFlags
  <2>1. UNCHANGED <<queue, hasevent, posting, io, sockVars, tasks, broken>>
    BY <1>3 DEF wake, signalled, handled, resetFlags
  <2>2. event' \in Nat /\ readdata' \in Nat
    BY <1>3 DEF wake, signalled, handled, resetFlags, LoopTypeOK, Count
  <2>3. flags' \in [{"data", "low"} -> BOOLEAN]
    BY <1>3 DEF wake, signalled, handled, resetFlags, LoopTypeOK
  <2>4. /\ worker' \in [pc : WorkerPcs, ev : Events]
        /\ worker'.pc # "destroy" /\ worker'.ev = worker.ev
    BY <1>3 DEF wake, signalled, handled, resetFlags, LoopTypeOK, Worker, WorkerPcs
  <2> QED BY <2>1, <2>2, <2>3, <2>4 DEF sockVars, LoopTypeOK, IoSound, DeletesInLow,
         DeferredClosed
<1>4. CASE getClearFirst
  <2>1. /\ worker' \in [pc : WorkerPcs, ev : Events] /\ worker'.pc # "destroy"
        /\ worker'.ev.type = "delete" => worker'.ev = worker.ev
    BY <1>4 DEF getClearFirst, Worker, Found, Nothing, LoopTypeOK, WorkerPcs, Events,
       EventTypes
  <2>2. hasevent' \in Nat
    BY <1>4 DEF getClearFirst, LoopTypeOK
  <2> QED BY <1>4, <2>1, <2>2 DEF getClearFirst, sockVars, LoopTypeOK, IoSound, DeletesInLow,
         DeferredClosed
<1>5. CASE checkReady
  <2>1. /\ worker' \in [pc : WorkerPcs, ev : Events]
        /\ worker'.pc = "destroy" => worker'.ev.type = "delete"
        /\ worker'.ev.type = "delete" => worker'.ev = worker.ev
    <3>1. CASE Leave
      BY <3>1, LeaveFacts
    <3>2. CASE Worker("reset")
      BY <3>2 DEF Worker, LoopTypeOK, WorkerPcs
    <3> QED BY <1>5, <3>1, <3>2 DEF checkReady
  <2> QED BY <1>5, <2>1 DEF checkReady, sockVars, LoopTypeOK, IoSound, DeletesInLow,
         DeferredClosed
<1>6. CASE workerReady
  <2>1. /\ worker' \in [pc : WorkerPcs, ev : Events]
        /\ worker'.pc = "destroy" => worker'.ev.type = "delete"
        /\ worker'.ev.type = "delete" => worker'.ev = worker.ev
    BY <1>6, LeaveFacts DEF workerReady
  <2> QED BY <1>6, <2>1 DEF workerReady, LoopTypeOK, IoSound, DeletesInLow, DeferredClosed
<1>7. CASE destroy
  <2>1. worker.ev.er \in Socks /\ worker.ev.er \notin open
    BY <1>7 DEF destroy, DeferredClosed, LoopTypeOK
  <2>2. /\ worker' \in [pc : WorkerPcs, ev : Events]
        /\ worker'.pc # "destroy" /\ worker'.ev.type # "delete"
    BY <1>7 DEF destroy, Found, Nothing, Events, EventTypes, WorkerPcs
  <2>3. /\ DeletesInLow' /\ DeferredClosed'
        /\ open' \subseteq alive' /\ slow' \subseteq open' /\ paused' \subseteq open'
        /\ alive' \subseteq Socks /\ broken' \in BOOLEAN
    BY <1>7, <2>1, <2>2, BaseFlush DEF destroy
  <2>4. open' = open
    BY <1>7, <2>1 DEF destroy, flushEventReceiver, sockVars
  <2> QED BY <1>7, <2>2, <2>3, <2>4 DEF destroy, LoopTypeOK, IoSound
<1> QED BY <1>1, <1>2, <1>3, <1>4, <1>5, <1>6, <1>7 DEF WorkerStep, Prios

\* What a handler does to the event loop.
LEMMA BaseHandler == LoopBase /\ HandlerStep => LoopBase'
<1> SUFFICES ASSUME LoopBase, HandlerStep PROVE LoopBase'
  OBVIOUS
<1> USE DEF LoopBase
<1>1. CASE asyncTask
  BY <1>1 DEF asyncTask, sockVars, LoopTypeOK, IoSound, DeletesInLow, DeferredClosed
<1>2. ASSUME NEW s \in Socks, registerSocket(s) PROVE LoopBase'
  <2>1. (alive \ open) \ {s} \subseteq alive' \ open' /\ open \subseteq open'
    BY <1>2 DEF registerSocket
  <2>2. NotDeferred(s)
    BY <1>2, DeferredMeans DEF registerSocket
  <2>3. DeferredClosed'
    BY <1>2, <2>1, <2>2 DEF registerSocket, NotDeferred, DeferredClosed
  <2>4. DeletesInLow' /\ IoSound'
    BY <1>2, <2>1 DEF registerSocket, IoSound, DeletesInLow
  <2> QED BY <1>2, <2>3, <2>4 DEF registerSocket, LoopTypeOK
<1>3. ASSUME NEW s \in Socks, closeSocket(s) PROVE LoopBase'
  <2>1. alive \ open \subseteq alive' \ open' /\ ~MapLocked
    BY <1>3 DEF closeSocket
  <2>2. DeletesInLow' /\ DeferredClosed' /\ IoSound'
    BY <1>3, <2>1 DEF closeSocket, IoSound, MapLocked, DeletesInLow, DeferredClosed
  <2> QED BY <1>3, <2>2 DEF closeSocket, LoopTypeOK
<1>4. ASSUME NEW s \in Socks, deferDelete(s) PROVE LoopBase'
  <2>1. s \in alive \ open /\ UNCHANGED <<worker, io, alive, open>>
    BY <1>4 DEF deferDelete, sockVars
  <2>2. /\ queue' \in [Prios -> Seq(Events)]
        /\ queue'["data"] = queue["data"] /\ queue'["high"] = queue["high"]
        /\ Len(queue'["low"]) = Len(queue["low"]) + 1
        /\ \A i \in 1..Len(queue["low"]) : queue'["low"][i] = queue["low"][i]
        /\ queue'["low"][Len(queue["low"]) + 1] = [type |-> "delete", er |-> s]
    BY <1>4, PushFacts DEF deferDelete, LoopTypeOK, Prios, EventTypes
  <2>3. Len(queue["low"]) \in Nat
    BY Lengths DEF LoopTypeOK
  <2>4. DeferredClosed'
    <3>1. ASSUME NEW i \in 1..Len(queue'["low"]), queue'["low"][i].type = "delete"
          PROVE  queue'["low"][i].er \in alive \ open
      <4>1. CASE i = Len(queue["low"]) + 1
        BY <2>1, <2>2, <4>1
      <4>2. CASE i # Len(queue["low"]) + 1
        <5>1. i \in 1..Len(queue["low"])
          BY <2>2, <2>3, <4>2
        <5> QED BY <2>2, <3>1, <5>1 DEF DeferredClosed
      <4> QED BY <4>1, <4>2
    <3> QED BY <2>1, <3>1 DEF DeferredClosed
  <2>5. DeletesInLow' /\ IoSound'
    BY <2>1, <2>2 DEF DeletesInLow, IoSound
  <2>6. event' \in Nat
    BY <1>4 DEF deferDelete, LoopTypeOK
  <2> QED BY <1>4, <2>2, <2>4, <2>5, <2>6 DEF deferDelete, sockVars, LoopTypeOK
<1>5. ASSUME NEW s \in Socks, deleteReceiver(s) PROVE LoopBase'
  <2>1. /\ DeletesInLow' /\ DeferredClosed'
        /\ open' \subseteq alive' /\ slow' \subseteq open' /\ paused' \subseteq open'
        /\ alive' \subseteq Socks /\ broken' \in BOOLEAN
    BY <1>5, BaseFlush DEF deleteReceiver, DeferredClosed
  <2>2. IoSound'
    BY <1>5 DEF deleteReceiver, MapLocked, IoSound
  <2> QED BY <1>5, <2>1, <2>2 DEF deleteReceiver, LoopTypeOK
<1>6. ASSUME NEW s \in Socks, handleTCPNameResolution(s) \/ failSocket(s) PROVE LoopBase'
  <2>1. /\ Push("data", "sock", s) /\ event' = event + 1 /\ ~MapLocked
        /\ open' \subseteq open /\ slow' \subseteq open' /\ paused' \subseteq open'
        /\ UNCHANGED <<hasevent, posting, worker, io, readdata, flags, alive, tasks, broken>>
    BY <1>6 DEF handleTCPNameResolution, failSocket, sockVars, LoopTypeOK
  <2>2. DeletesInLow' /\ DeferredClosed' /\ queue' \in [Prios -> Seq(Events)]
    BY <2>1, BasePush DEF Prios, EventTypes
  <2>3. IoSound'
    BY <2>1 DEF IoSound, MapLocked
  <2> QED BY <2>1, <2>2, <2>3 DEF LoopTypeOK
<1> QED BY <1>1, <1>2, <1>3, <1>4, <1>5, <1>6 DEF HandlerStep

\* Nothing changes.
LEMMA BaseStutter == LoopBase /\ UNCHANGED vars => LoopBase'
BY DEF vars, sockVars, LoopBase, LoopTypeOK, DeletesInLow, DeferredClosed, IoSound

\* The base invariant is inductive.
THEOREM BaseInvariant == Spec => []LoopBase
<1>1. LoopBase /\ [Next]_vars => LoopBase'
  BY BaseOther, BaseIo, BaseWorker, BaseHandler, BaseStutter DEF Next, Crashed
<1> QED BY <1>1, BaseInit, PTL DEF Spec

\* The state of the event loop keeps its types; in particular a socket that is
\* paused, or was found slow, is open, and its receiver is alive.
THEOREM LoopTypeCorrect == Spec => []LoopTypeOK
BY BaseInvariant, PTL DEF LoopBase

-----------------------------------------------------------------------------
(***************************************************************************)
(* The counts of event.                                                    *)
(***************************************************************************)
Posted == Cardinality(posting)
IoPosts == Count(io.pc = "post")
Taken == Count(worker.pc \in {"signals", "high", "data", "low"})
Raised == hasevent

\* What the worker has not yet looked at holds the event that it was woken for.
SomeLeft ==
  /\ worker.pc = "high" => QueueSize >= 1
  /\ worker.pc = "data" => Len(queue["data"]) + Len(queue["low"]) >= 1
  /\ worker.pc = "low" => Len(queue["low"]) >= 1

CountInv == EveryEventCounted /\ SomeLeft

\* EveryEventCounted, with its terms named.
LEMMA CountDef ==
  EveryEventCounted <=> event + Posted + IoPosts + Taken = QueueSize + Raised
BY DEF EveryEventCounted, Posted, IoPosts, Taken, Raised

\* The same after a step.
LEMMA CountDefPrime ==
  EveryEventCounted' <=> event' + Posted' + IoPosts' + Taken' = QueueSize' + Raised'
BY DEF EveryEventCounted, Posted, IoPosts, Taken, Raised

\* The terms are numbers.
LEMMA CountTypes ==
  ASSUME LoopBase
  PROVE  /\ event \in Nat /\ Posted \in Nat /\ IoPosts \in Nat /\ Taken \in Nat
         /\ QueueSize \in Nat /\ Raised \in Nat
         /\ IsFiniteSet(posting)
<1>1. IsFiniteSet(Posters \cup {"tick"})
  BY LoopAssumption, FS_AddElement
<1>2. posting \in SUBSET (Posters \cup {"tick"})
  BY DEF LoopBase, LoopTypeOK
<1>3. IsFiniteSet(posting)
  BY <1>1, <1>2, FS_Subset
<1>4. Posted \in Nat /\ Raised \in Nat
  BY <1>3, FS_CardinalityType DEF Posted, Raised, LoopBase, LoopTypeOK
<1>5. event \in Nat /\ IoPosts \in Nat /\ Taken \in Nat
  BY DEF LoopBase, LoopTypeOK, IoPosts, Taken, Count
<1>6. QueueSize \in Nat
  BY SizeNat DEF LoopBase, LoopTypeOK
<1> QED BY <1>3, <1>4, <1>5, <1>6

\* The queues stay as they are, or one gets an event.
LEMMA LeftOver ==
  ASSUME LoopBase, SomeLeft, worker' = worker,
         \/ queue' = queue
         \/ \E p \in Prios, type \in EventTypes, r \in Socks \cup {App} : Push(p, type, r)
  PROVE  SomeLeft'
<1>1. CASE queue' = queue
  BY <1>1 DEF SomeLeft, QueueSize
<1>2. CASE \E p \in Prios, type \in EventTypes, r \in Socks \cup {App} : Push(p, type, r)
  <2>1. PICK p \in Prios, type \in EventTypes, r \in Socks \cup {App} : Push(p, type, r)
    BY <1>2
  <2>2. queue \in [Prios -> Seq(Events)]
    BY DEF LoopBase, LoopTypeOK
  <2>3. /\ \A x \in Prios : x # p => queue'[x] = queue[x]
        /\ Len(queue'[p]) = Len(queue[p]) + 1
        /\ QueueSize' = QueueSize + 1
    BY <2>1, <2>2, PushFacts
  <2> DEFINE l == Len(queue["low"])   l2 == Len(queue'["low"])
             d == Len(queue["data"])  d2 == Len(queue'["data"])
  <2>4. l \in Nat /\ d \in Nat /\ QueueSize \in Nat
    BY <2>2, Lengths, SizeNat
  <2>5. (l2 = l \/ l2 = l + 1) /\ (d2 = d \/ d2 = d + 1)
    BY <2>3 DEF Prios
  <2>6. SomeLeft <=> /\ worker.pc = "high" => QueueSize >= 1
                     /\ worker.pc = "data" => d + l >= 1
                     /\ worker.pc = "low" => l >= 1
    BY DEF SomeLeft
  <2>7. SomeLeft' <=> /\ worker'.pc = "high" => QueueSize' >= 1
                      /\ worker'.pc = "data" => d2 + l2 >= 1
                      /\ worker'.pc = "low" => l2 >= 1
    BY DEF SomeLeft
  <2> HIDE DEF l, d, l2, d2
  <2> QED BY <2>3, <2>4, <2>5, <2>6, <2>7
<1> QED BY <1>1, <1>2

\* Each of the other threads' dispatches is a push and then a post.
LEMMA CountOther == LoopBase /\ CountInv /\ OtherStep => CountInv'
<1> SUFFICES ASSUME LoopBase, CountInv, OtherStep PROVE CountInv'
  OBVIOUS
<1>0. queue \in [Prios -> Seq(Events)]
  BY DEF LoopBase, LoopTypeOK
<1>1. ASSUME NEW p \in Prios, NEW type \in EventTypes, NEW t, Push(p, type, App),
             t \notin posting, posting' = posting \cup {t},
             UNCHANGED <<hasevent, event, worker, io>>
      PROVE  CountInv'
  <2>1. SomeLeft'
    BY <1>1, LeftOver DEF CountInv
  <2>2. QueueSize' = QueueSize + 1
    BY <1>0, <1>1, PushFacts
  <2>3. Posted' = Posted + 1
    BY <1>1, CountTypes, FS_AddElement DEF Posted
  <2>4. IoPosts' = IoPosts /\ Taken' = Taken /\ Raised' = Raised /\ event' = event
    BY <1>1 DEF IoPosts, Taken, Raised
  <2> QED BY <2>1, <2>2, <2>3, <2>4, CountTypes, CountDef, CountDefPrime DEF CountInv
<1>2. CASE dispatchTick
  BY <1>1, <1>2 DEF dispatchTick, Prios, EventTypes
<1>3. ASSUME NEW t \in Posters, dispatchAsyncTaskComplete(t) PROVE CountInv'
  BY <1>1, <1>3 DEF dispatchAsyncTaskComplete, Prios, EventTypes
<1>4. ASSUME NEW t \in Posters, dispatchSignal(t) PROVE CountInv'
  <2>1. SomeLeft'
    BY <1>4, LeftOver DEF CountInv, dispatchSignal
  <2>2. QueueSize' = QueueSize
    BY <1>4 DEF dispatchSignal, QueueSize
  <2>3. Posted' = Posted + 1
    BY <1>4, CountTypes, FS_AddElement DEF Posted, dispatchSignal
  <2>4. Raised' = Raised + 1
    BY <1>4 DEF Raised, dispatchSignal
  <2>5. IoPosts' = IoPosts /\ Taken' = Taken /\ event' = event
    BY <1>4 DEF IoPosts, Taken, dispatchSignal
  <2> QED BY <2>1, <2>2, <2>3, <2>4, <2>5, CountTypes, CountDef, CountDefPrime DEF CountInv
<1>5. ASSUME NEW t \in posting, post(t) PROVE CountInv'
  <2>1. SomeLeft'
    BY <1>5, LeftOver DEF CountInv, post
  <2>2. QueueSize' = QueueSize
    BY <1>5 DEF post, QueueSize
  <2>3. Posted' = Posted - 1
    BY <1>5, CountTypes, FS_RemoveElement DEF Posted, post
  <2>4. IoPosts' = IoPosts /\ Taken' = Taken /\ Raised' = Raised /\ event' = event + 1
    BY <1>5 DEF IoPosts, Taken, Raised, post
  <2> QED BY <2>1, <2>2, <2>3, <2>4, CountTypes, CountDef, CountDefPrime DEF CountInv
<1> QED BY <1>2, <1>3, <1>4, <1>5 DEF OtherStep

\* So is each of the I/O thread's.
LEMMA CountIo == LoopBase /\ CountInv /\ IoStep => CountInv'
<1> SUFFICES ASSUME LoopBase, CountInv, IoStep PROVE CountInv'
  OBVIOUS
<1>1. ASSUME NEW what, NEW type \in EventTypes, NEW p \in Prios,
             NEW r \in Socks \cup {App}, Handle(what, type, p, r)
      PROVE  CountInv'
  <2>1. SomeLeft'
    BY <1>1, LeftOver DEF CountInv, Handle
  <2>2. QueueSize' = QueueSize + 1
    BY <1>1, PushFacts DEF LoopBase, LoopTypeOK, Handle
  <2>3. IoPosts' = IoPosts + 1
    BY <1>1 DEF IoPosts, Count, Handle
  <2>4. Posted' = Posted /\ Taken' = Taken /\ Raised' = Raised /\ event' = event
    BY <1>1 DEF Posted, Taken, Raised, Handle
  <2> QED BY <2>1, <2>2, <2>3, <2>4, CountTypes, CountDef, CountDefPrime DEF CountInv
<1>2. CASE handleExternalIn
  BY <1>1, <1>2 DEF handleExternalIn, EventTypes, Prios
<1>3. ASSUME NEW s \in Socks, handleIn(s) \/ handleOut(s) \/ handleGone(s) PROVE CountInv'
  <2>1. PrioOf(s) \in Prios
    BY DEF PrioOf, Prios
  <2> QED BY <1>1, <1>3, <2>1 DEF handleIn, handleOut, handleGone, EventTypes
<1>4. ASSUME NEW s \in Socks, NEW d \in {{}, {s}}, handleTCPSSLIn(s, d) PROVE CountInv'
  <2>1. PICK p \in {"data", "low"} : Handle("block", "buf", p, s)
    BY <1>4 DEF handleTCPSSLIn
  <2> QED BY <1>1, <2>1 DEF EventTypes, Prios
<1>5. CASE IoGoesOn
  <2>1. UNCHANGED <<queue, worker, hasevent, posting>>
    BY <1>5 DEF IoGoesOn, ioPost, overloadSize, overload, overloadReturn, autoPause,
       readdataWait
  <2>2. SomeLeft'
    BY <2>1, LeftOver DEF CountInv
  <2>3. QueueSize' = QueueSize /\ Posted' = Posted /\ Taken' = Taken /\ Raised' = Raised
    BY <2>1 DEF QueueSize, Posted, Taken, Raised
  <2>4. event' + IoPosts' = event + IoPosts
    <3>1. CASE ioPost
      <4>1. io.pc = "post" /\ event' = event + 1 /\ io'.pc # "post"
        <5>1. \/ io' = [io EXCEPT !.pc = "size"] \/ io' = [io EXCEPT !.pc = "wait"]
              \/ io' = Polling
          BY <3>1, Zenon DEF ioPost
        <5> QED BY <3>1, <5>1 DEF ioPost, Polling, LoopBase, LoopTypeOK, IoStates
      <4>2. IoPosts = 1 /\ IoPosts' = 0
        BY <4>1 DEF IoPosts, Count
      <4> QED BY <4>1, <4>2, CountTypes
    <3>2. CASE overloadSize \/ overload \/ overloadReturn \/ autoPause \/ readdataWait
      <4>1. io.pc # "post" /\ event' = event /\ io'.pc # "post"
        <5>1. "pc" \in DOMAIN io
          BY DEF LoopBase, LoopTypeOK, IoStates
        <5>2. io'.pc # "post"
          <6>1. CASE overloadSize
            BY <5>1, <6>1, Zenon DEF overloadSize
          <6>2. CASE overload \/ autoPause \/ readdataWait
            BY <5>1, <6>2 DEF overload, autoPause, readdataWait, Polling
          <6>3. CASE overloadReturn
            BY <5>1, <6>3 DEF overloadReturn
          <6> QED BY <3>2, <6>1, <6>2, <6>3
        <5> QED BY <3>2, <5>2 DEF overloadSize, overload, overloadReturn, autoPause,
               readdataWait
      <4>2. IoPosts = 0 /\ IoPosts' = 0
        BY <4>1 DEF IoPosts, Count
      <4> QED BY <4>1, <4>2, CountTypes
    <3> QED BY <1>5, <3>1, <3>2 DEF IoGoesOn
  <2>5. event' \in Nat /\ IoPosts' \in Nat
    BY <1>5 DEF IoGoesOn, ioPost, overloadSize, overload, overloadReturn, autoPause,
       readdataWait, LoopBase, LoopTypeOK, IoPosts, Count
  <2> QED BY <2>2, <2>3, <2>4, <2>5, CountTypes, CountDef, CountDefPrime DEF CountInv
<1> QED BY <1>2, <1>3, <1>4, <1>5 DEF IoStep

\* A handler posts what it pushes.
LEMMA CountHandler == LoopBase /\ CountInv /\ HandlerStep => CountInv'
<1> SUFFICES ASSUME LoopBase, CountInv, HandlerStep PROVE CountInv'
  OBVIOUS
<1>1. UNCHANGED <<worker, hasevent, posting, io>>
  BY DEF HandlerStep, asyncTask, registerSocket, handleTCPNameResolution, failSocket,
     closeSocket, deferDelete, deleteReceiver
<1>2. Posted' = Posted /\ Taken' = Taken /\ Raised' = Raised /\ IoPosts' = IoPosts
  BY <1>1 DEF Posted, Taken, Raised, IoPosts
<1>3. ASSUME NEW s \in Socks,
             deferDelete(s) \/ handleTCPNameResolution(s) \/ failSocket(s)
      PROVE  CountInv'
  <2>1. PICK p \in Prios, type \in EventTypes : Push(p, type, s) /\ event' = event + 1
    BY <1>3 DEF deferDelete, handleTCPNameResolution, failSocket, EventTypes, Prios
  <2>2. QueueSize' = QueueSize + 1
    BY <2>1, PushFacts DEF LoopBase, LoopTypeOK
  <2>3. SomeLeft'
    BY <1>1, <2>1, LeftOver DEF CountInv
  <2> QED BY <1>2, <2>1, <2>2, <2>3, CountTypes, CountDef, CountDefPrime DEF CountInv
<1>4. CASE UNCHANGED <<queue, event>>
  <2>1. SomeLeft' /\ QueueSize' = QueueSize
    BY <1>1, <1>4, LeftOver DEF CountInv, QueueSize
  <2> QED BY <1>2, <1>4, <2>1, CountDef, CountDefPrime DEF CountInv
<1> QED BY <1>3, <1>4 DEF HandlerStep, asyncTask, registerSocket, closeSocket, deleteReceiver

\* The worker takes a count and finds an event for it.
LEMMA CountWorker == LoopBase /\ CountInv /\ WorkerStep => CountInv'
<1> SUFFICES ASSUME LoopBase, CountInv, WorkerStep PROVE CountInv'
  OBVIOUS
<1>0. queue \in [Prios -> Seq(Events)] /\ worker \in [pc : WorkerPcs, ev : Events]
  BY DEF LoopBase, LoopTypeOK
<1>1. CASE wake
  <2>1. worker.pc = "event" /\ worker'.pc = "signals"
    BY <1>0, <1>1 DEF wake, Worker
  <2>2. Taken = 0 /\ Taken' = 1 /\ SomeLeft'
    BY <2>1 DEF Taken, Count, SomeLeft
  <2>3. /\ event' = event - 1 /\ Posted' = Posted /\ IoPosts' = IoPosts
        /\ QueueSize' = QueueSize /\ Raised' = Raised
    BY <1>1 DEF wake, Posted, IoPosts, QueueSize, Raised
  <2> QED BY <2>2, <2>3, CountTypes, CountDef, CountDefPrime DEF CountInv
<1>2. CASE getClearFirst
  <2>1. worker.pc = "signals" /\ Taken = 1
    BY <1>2 DEF getClearFirst, Taken, Count
  <2>2. event' = event /\ Posted' = Posted /\ IoPosts' = IoPosts /\ QueueSize' = QueueSize
    BY <1>2 DEF getClearFirst, Posted, IoPosts, QueueSize
  <2>3. CASE hasevent = 0 /\ Worker("high") /\ UNCHANGED hasevent
    <3>1. worker'.pc = "high" /\ Raised' = Raised /\ Raised = 0
      BY <1>0, <2>3 DEF Worker, Raised
    <3>2. Taken' = 1
      BY <3>1 DEF Taken, Count
    <3>3. QueueSize >= 1
      BY <2>1, <3>1, CountTypes, CountDef DEF CountInv
    <3>4. SomeLeft'
      BY <2>2, <3>1, <3>3 DEF SomeLeft
    <3> QED BY <2>1, <2>2, <3>1, <3>2, <3>4, CountDef, CountDefPrime DEF CountInv
  <2>4. CASE hasevent > 0 /\ hasevent' = hasevent - 1 /\ Found("signal", Nothing)
    <3>1. worker'.pc = "signal"
      BY <2>4 DEF Found
    <3>2. Taken' = 0 /\ SomeLeft'
      BY <3>1 DEF Taken, Count, SomeLeft
    <3>3. Raised' = Raised - 1
      BY <2>4 DEF Raised
    <3> QED BY <2>1, <2>2, <3>2, <3>3, CountTypes, CountDef, CountDefPrime DEF CountInv
  <2> QED BY <1>2, <2>3, <2>4 DEF getClearFirst
<1>3. ASSUME NEW p \in Prios, worker.pc = p, Pop(p), UNCHANGED <<hasevent, event, posting, io>>
      PROVE  CountInv'
  <2>1. worker'.pc = "handle" /\ QueueSize' = QueueSize - 1
    BY <1>0, <1>3, PopFacts
  <2>2. Taken = 1 /\ Taken' = 0 /\ SomeLeft'
    BY <1>3, <2>1 DEF Taken, Count, SomeLeft, Prios
  <2>3. event' = event /\ Posted' = Posted /\ IoPosts' = IoPosts /\ Raised' = Raised
    BY <1>3 DEF Posted, IoPosts, Raised
  <2> QED BY <2>1, <2>2, <2>3, CountTypes, CountDef, CountDefPrime DEF CountInv
<1>4. ASSUME NEW p \in {"high", "data"}, NEW next \in {"data", "low"}, worker.pc = p,
             queue[p] = <<>>, Worker(next), p = "high" <=> next = "data",
             UNCHANGED <<queue, hasevent, event, posting, io>>
      PROVE  CountInv'
  <2>1. worker'.pc = next /\ Taken = 1 /\ Taken' = 1
    BY <1>0, <1>4 DEF Worker, Taken, Count
  <2>2. /\ event' = event /\ Posted' = Posted /\ IoPosts' = IoPosts
        /\ QueueSize' = QueueSize /\ Raised' = Raised
    BY <1>4 DEF Posted, IoPosts, Raised, QueueSize
  <2>3. SomeLeft'
    <3> DEFINE l == Len(queue["low"])  d == Len(queue["data"])  h == Len(queue["high"])
    <3>1. l \in Nat /\ d \in Nat /\ h \in Nat
      BY <1>0, Lengths
    <3>2. CASE p = "high"
      <4>1. h = 0 /\ QueueSize = l + d + h /\ QueueSize >= 1 /\ next = "data"
        <5>1. queue["high"] = <<>> /\ worker.pc = "high" /\ next = "data"
          BY <1>4, <3>2
        <5>2. QueueSize = l + d + h
          BY DEF QueueSize
        <5> QED BY <5>1, <5>2 DEF CountInv, SomeLeft
      <4>2. d + l >= 1
        <5> HIDE DEF l, d, h
        <5> QED BY <3>1, <4>1
      <4> QED BY <1>4, <2>1, <4>1, <4>2 DEF SomeLeft
    <3>3. CASE p = "data"
      <4>1. d = 0 /\ d + l >= 1 /\ next = "low"
        <5>1. queue["data"] = <<>> /\ worker.pc = "data" /\ next = "low"
          BY <1>4, <3>3
        <5> QED BY <5>1 DEF CountInv, SomeLeft
      <4>2. l >= 1
        <5> HIDE DEF l, d, h
        <5> QED BY <3>1, <4>1
      <4> QED BY <1>4, <2>1, <4>1, <4>2 DEF SomeLeft
    <3> QED BY <3>2, <3>3
  <2> QED BY <2>1, <2>2, <2>3, CountDef, CountDefPrime DEF CountInv
<1>5. CASE look("high", "data") \/ look("data", "low") \/ popLow
  BY <1>3, <1>4, <1>5 DEF look, popLow, Prios
<1>6. CASE handled \/ signalled \/ checkReady \/ resetFlags \/ workerReady \/ destroy
  <2>1. worker.pc \notin {"signals", "high", "data", "low"}
    BY <1>6 DEF handled, signalled, checkReady, resetFlags, workerReady, destroy
  <2>2. worker'.pc \notin {"signals", "high", "data", "low"}
    BY <1>0, <1>6 DEF handled, signalled, checkReady, resetFlags, workerReady, destroy,
       Leave, Worker, Found
  <2>3. Taken = 0 /\ Taken' = 0 /\ SomeLeft'
    BY <2>1, <2>2 DEF Taken, Count, SomeLeft
  <2>4. UNCHANGED <<queue, hasevent, event, posting, io>>
    BY <1>6 DEF handled, signalled, checkReady, resetFlags, workerReady, destroy
  <2>5. /\ event' = event /\ Posted' = Posted /\ IoPosts' = IoPosts
        /\ QueueSize' = QueueSize /\ Raised' = Raised
    BY <2>4 DEF Posted, IoPosts, Raised, QueueSize
  <2> QED BY <2>3, <2>5, CountDef, CountDefPrime DEF CountInv
<1> QED BY <1>1, <1>2, <1>5, <1>6 DEF WorkerStep

\* Nothing changes.
LEMMA CountStutter == CountInv /\ UNCHANGED vars => CountInv'
<1> SUFFICES ASSUME CountInv, UNCHANGED vars PROVE CountInv'
  OBVIOUS
<1>1. UNCHANGED <<queue, hasevent, event, posting, worker, io>>
  BY DEF vars
<1> QED BY <1>1 DEF CountInv, EveryEventCounted, SomeLeft, QueueSize

\* At the start there is nothing to count.
LEMMA CountInit == Init => CountInv
<1> SUFFICES ASSUME Init PROVE CountInv
  OBVIOUS
<1>1. Len(queue["low"]) = 0 /\ Len(queue["data"]) = 0 /\ Len(queue["high"]) = 0
  BY DEF Init, Prios
<1>2. QueueSize = 0
  <2> DEFINE l == Len(queue["low"])  d == Len(queue["data"])  h == Len(queue["high"])
  <2>1. QueueSize = l + d + h /\ l = 0 /\ d = 0 /\ h = 0
    BY <1>1 DEF QueueSize
  <2> HIDE DEF l, d, h
  <2> QED BY <2>1
<1>3. event = 0 /\ Posted = 0 /\ Raised = 0
  BY FS_EmptySet DEF Init, Posted, Raised
<1>4. IoPosts = 0 /\ Taken = 0 /\ SomeLeft
  BY DEF Init, IoPosts, Taken, Count, Polling, SomeLeft
<1> QED BY <1>2, <1>3, <1>4, CountDef DEF CountInv

\* The counting invariant is inductive, given the base.
LEMMA CountInvariant == Spec => []CountInv
<1>1. LoopBase /\ CountInv /\ [Next]_vars => CountInv'
  BY CountOther, CountIo, CountHandler, CountWorker, CountStutter DEF Next, Crashed
<1> QED BY <1>1, CountInit, BaseInvariant, PTL DEF Spec

\* The semaphore event of WorkManager counts what there is to do, for any number
\* of signals and of threads that dispatch events.
THEOREM EventsCounted == Spec => []EveryEventCounted
BY CountInvariant, PTL DEF CountInv

\* The worker never sleeps in lowprioqueue.pop.
THEOREM WorkerNeverStuck == Spec => []PopNeverWaits
<1>1. LoopBase /\ CountInv => PopNeverWaits
  BY DEF CountInv, SomeLeft, PopNeverWaits
<1> QED BY <1>1, BaseInvariant, CountInvariant, PTL

\* The semaphore, the posts under way and the queues agree for any number of
\* sockets, posting threads and signal slots and queues of any length.
THEOREM EventsAlwaysAccounted == Spec => []EventsAccounted
BY LoopTypeCorrect, EventsCounted, WorkerNeverStuck, PTL DEF EventsAccounted

-----------------------------------------------------------------------------
(***************************************************************************)
(* Paused sockets.                                                         *)
(***************************************************************************)
Resuming == flags["data"] \/ flags["low"] \/ worker.pc = "notify"

\* The I/O thread, too, pauses a socket only while it will be remembered.
PauseInv ==
  /\ paused # {} => Resuming
  /\ io.pc = "pause" /\ io.over => Resuming

\* A step keeps the pauses remembered.
LEMMA PauseNext == LoopBase /\ PauseInv /\ Next => PauseInv'
<1> SUFFICES ASSUME LoopBase, PauseInv, Next PROVE PauseInv'
  OBVIOUS
<1>0. /\ io \in IoStates /\ worker \in [pc : WorkerPcs, ev : Events] /\ IoSound
      /\ flags \in [{"data", "low"} -> BOOLEAN]
  BY DEF LoopBase, LoopTypeOK
<1>1. CASE OtherStep
  BY <1>1 DEF OtherStep, dispatchTick, dispatchSignal, dispatchAsyncTaskComplete, post,
     sockVars, PauseInv, Resuming
<1>2. CASE HandlerStep
  <2>1. UNCHANGED <<flags, worker, io>>
    BY <1>2 DEF HandlerStep, asyncTask, registerSocket, handleTCPNameResolution,
       failSocket, closeSocket, deferDelete, deleteReceiver
  <2>2. paused' \subseteq paused
    BY <1>2 DEF HandlerStep, asyncTask, registerSocket, handleTCPNameResolution,
       failSocket, closeSocket, deferDelete, deleteReceiver, flushEventReceiver, sockVars
  <2> QED BY <2>1, <2>2 DEF PauseInv, Resuming
<1>3. ASSUME NEW what, NEW type, NEW p, NEW r, Handle(what, type, p, r),
             paused' \subseteq paused
      PROVE  PauseInv'
  BY <1>3 DEF Handle, PauseInv, Resuming
<1>4. CASE IoStep
  <2>1. CASE ioPost
    <3>1. io'.pc # "pause"
      <4>1. \/ io' = [io EXCEPT !.pc = "size"] \/ io' = [io EXCEPT !.pc = "wait"]
            \/ io' = Polling
        BY <2>1, Zenon DEF ioPost
      <4> QED BY <1>0, <4>1 DEF Polling, IoStates
    <3> QED BY <2>1, <3>1 DEF ioPost, sockVars, PauseInv, Resuming
  <2>2. CASE overloadSize
    <3>1. io'.pc # "pause"
      BY <1>0, <2>2, Zenon DEF overloadSize, IoStates
    <3> QED BY <2>2, <3>1 DEF overloadSize, sockVars, PauseInv, Resuming
  <2>3. CASE overload
    <3>1. io'.pc # "pause" /\ worker' = worker /\ paused' = paused
      BY <1>0, <2>3 DEF overload, IoStates, sockVars
    <3>2. Resuming => Resuming'
      BY <1>0, <2>3, <3>1 DEF overload, Resuming
    <3> QED BY <3>1, <3>2 DEF PauseInv
  <2>4. CASE overloadReturn
    <3>1. io.prio \in {"data", "low"} /\ io'.over = flags[io.prio]
      BY <1>0, <2>4 DEF overloadReturn, IoSound, IoStates
    <3>2. UNCHANGED <<flags, worker, paused>>
      BY <2>4 DEF overloadReturn, sockVars
    <3> QED BY <3>1, <3>2 DEF PauseInv, Resuming
  <2>5. CASE autoPause
    BY <2>5 DEF autoPause, Polling, PauseInv, Resuming
  <2>6. CASE readdataWait
    BY <2>6 DEF readdataWait, Polling, sockVars, PauseInv, Resuming
  <2>7. CASE handleExternalIn
    BY <1>3, <2>7 DEF handleExternalIn
  <2>8. ASSUME NEW s \in Socks,
               handleIn(s) \/ handleOut(s) \/ handleGone(s)
               \/ \E d \in {{}, {s}} : handleTCPSSLIn(s, d)
        PROVE  PauseInv'
    BY <1>3, <2>8 DEF handleIn, handleOut, handleGone, handleTCPSSLIn
  <2> QED BY <1>4, <2>1, <2>2, <2>3, <2>4, <2>5, <2>6, <2>7, <2>8 DEF IoStep, IoGoesOn
<1>5. CASE WorkerStep
  <2>1. io' = io
    BY <1>5 DEF WorkerStep, wake, getClearFirst, popLow, look, handled, signalled,
       checkReady, resetFlags, workerReady, destroy
  <2>2. CASE workerReady
    <3>1. io.pc # "pause" /\ paused' = {}
      BY <1>0, <2>2 DEF workerReady, MapLocked, IoSound
    <3> QED BY <2>1, <3>1 DEF PauseInv
  <2>3. CASE resetFlags
    <3>1. worker'.pc = "notify"
      BY <1>0, <2>3 DEF resetFlags, Worker
    <3> QED BY <3>1 DEF PauseInv, Resuming
  <2>4. CASE wake \/ getClearFirst \/ popLow \/ look("high", "data") \/ look("data", "low")
             \/ handled \/ signalled \/ checkReady \/ destroy
    <3>1. worker.pc # "notify" /\ flags' = flags
      BY <2>4 DEF wake, getClearFirst, popLow, look, handled, signalled, checkReady, destroy
    <3>2. paused' \subseteq paused
      BY <2>4 DEF wake, getClearFirst, popLow, look, handled, signalled, checkReady, destroy,
         flushEventReceiver, sockVars
    <3> QED BY <2>1, <3>1, <3>2 DEF PauseInv, Resuming
  <2> QED BY <1>5, <2>2, <2>3, <2>4 DEF WorkerStep
<1>6. CASE Crashed
  BY <1>6 DEF Crashed, vars, sockVars, PauseInv, Resuming
<1> QED BY <1>1, <1>2, <1>4, <1>5, <1>6 DEF Next

\* A socket that was paused for the length of the queues has a flag, or the
\* worker itself, that will resume it: IOManager::autoPause and workerReady
\* exclude each other for long enough, for any sizes of the queues.
THEOREM PausesRemembered == Spec => []PauseRemembered
<1>1. Init => PauseInv
  BY DEF Init, Polling, PauseInv
<1>2. PauseInv /\ UNCHANGED vars => PauseInv'
  BY DEF vars, sockVars, PauseInv, Resuming
<1>3. PauseInv => PauseRemembered
  BY DEF PauseInv, Resuming, PauseRemembered
<1> QED BY <1>1, <1>2, <1>3, PauseNext, BaseInvariant, PTL DEF Spec

-----------------------------------------------------------------------------
(***************************************************************************)
(* Deferred deletions.                                                     *)
(***************************************************************************)
\* highprioqueue has no event of a receiver that can be deleted.
HighApp == \A i \in 1..Len(queue["high"]) : queue["high"][i].er = App

\* The deletion of a receiver is behind its other events in lowprioqueue.
DeletionLast ==
  \A i, j \in 1..Len(queue["low"]) :
    i < j /\ queue["low"][i].type = "delete" => queue["low"][j].er # queue["low"][i].er

\* When the worker turns to lowprioqueue, the receivers that are deleted there
\* have nothing in dataqueue.
DataDrained ==
  worker.pc = "low" =>
    \A i \in 1..Len(queue["low"]), j \in 1..Len(queue["data"]) :
      queue["low"][i].type = "delete" => queue["data"][j].er # queue["low"][i].er

\* While the worker holds a deletion, there is no event of the receiver.
NoneLeft ==
  worker.ev.type = "delete" =>
    \A x \in Prios : \A i \in 1..Len(queue[x]) : queue[x][i].er # worker.ev.er

OrderInv == ~broken /\ HighApp /\ DeletionLast /\ DataDrained /\ NoneLeft

\* An event is pushed of a receiver whose deletion is not on its way.
LEMMA OrderPush ==
  ASSUME LoopBase, OrderInv, NEW p \in Prios, NEW type \in EventTypes,
         NEW r \in Socks \cup {App}, Push(p, type, r), NotDeferred(r),
         p = "high" => r = App, type = "delete" => p = "low" /\ worker.pc # "low",
         worker' = worker, broken' = broken
  PROVE  OrderInv'
<1>1. queue \in [Prios -> Seq(Events)]
  BY DEF LoopBase, LoopTypeOK
<1>2. /\ \A x \in Prios : x # p => queue'[x] = queue[x]
      /\ Len(queue'[p]) = Len(queue[p]) + 1
      /\ \A i \in 1..Len(queue[p]) : queue'[p][i] = queue[p][i]
      /\ queue'[p][Len(queue[p]) + 1] = [type |-> type, er |-> r]
  BY <1>1, PushFacts
<1>3. Len(queue[p]) \in Nat
  BY <1>1, Lengths DEF Prios
<1>4. ASSUME NEW x \in Prios, NEW i \in 1..Len(queue'[x])
      PROVE  \/ i \in 1..Len(queue[x]) /\ queue'[x][i] = queue[x][i]
             \/ /\ x = p /\ i = Len(queue'[x])
                /\ queue'[x][i].type = type /\ queue'[x][i].er = r
  <2>1. CASE x # p
    BY <1>2, <2>1
  <2>2. CASE x = p /\ i = Len(queue[p]) + 1
    BY <1>2, <2>2
  <2>3. CASE x = p /\ i # Len(queue[p]) + 1
    <3>1. i \in 1..Len(queue[p])
      BY <1>2, <1>3, <2>3
    <3> QED BY <1>2, <2>3, <3>1
  <2> QED BY <2>1, <2>2, <2>3
<1>5. "low" \in Prios /\ "data" \in Prios /\ "high" \in Prios
  BY DEF Prios
<1>6. HighApp'
  BY <1>4, <1>5 DEF OrderInv, HighApp
<1>7. DeletionLast'
  <2> SUFFICES ASSUME NEW i \in 1..Len(queue'["low"]), NEW j \in 1..Len(queue'["low"]),
                      i < j, queue'["low"][i].type = "delete"
               PROVE  queue'["low"][j].er # queue'["low"][i].er
    BY DEF DeletionLast
  <2>1. i \in 1..Len(queue["low"]) /\ queue'["low"][i] = queue["low"][i]
    <3>1. Len(queue'["low"]) \in Nat
      <4>1. queue' \in [Prios -> Seq(Events)]
        BY <1>1, PushFacts
      <4> QED BY <4>1, Lengths
    <3>2. i # Len(queue'["low"])
      BY <3>1
    <3> QED BY <1>4, <1>5, <3>2
  <2>2. CASE j \in 1..Len(queue["low"]) /\ queue'["low"][j] = queue["low"][j]
    BY <2>1, <2>2 DEF OrderInv, DeletionLast
  <2>3. CASE queue'["low"][j].er = r
    BY <2>1, <2>3 DEF NotDeferred
  <2> QED BY <1>4, <1>5, <2>2, <2>3
<1>8. DataDrained'
  <2> SUFFICES ASSUME worker.pc = "low", NEW i \in 1..Len(queue'["low"]),
                      NEW j \in 1..Len(queue'["data"]), queue'["low"][i].type = "delete"
               PROVE  queue'["data"][j].er # queue'["low"][i].er
    BY DEF DataDrained
  <2>1. i \in 1..Len(queue["low"]) /\ queue'["low"][i] = queue["low"][i]
    BY <1>4, <1>5
  <2>2. CASE j \in 1..Len(queue["data"]) /\ queue'["data"][j] = queue["data"][j]
    BY <2>1, <2>2 DEF OrderInv, DataDrained
  <2>3. CASE queue'["data"][j].er = r
    BY <2>1, <2>3 DEF NotDeferred
  <2> QED BY <1>4, <1>5, <2>2, <2>3
<1>9. NoneLeft'
  <2> SUFFICES ASSUME worker.ev.type = "delete", NEW x \in Prios,
                      NEW i \in 1..Len(queue'[x])
               PROVE  queue'[x][i].er # worker.ev.er
    BY DEF NoneLeft
  <2> QED BY <1>4 DEF OrderInv, NoneLeft, NotDeferred
<1> QED BY <1>6, <1>7, <1>8, <1>9 DEF OrderInv

\* The worker takes an event; if it is a deletion, it is the last of its receiver.
LEMMA OrderPop ==
  ASSUME LoopBase, OrderInv, NEW p \in Prios, worker.pc = p, Pop(p), broken' = broken
  PROVE  OrderInv'
<1>1. queue \in [Prios -> Seq(Events)] /\ alive \subseteq Socks
  BY DEF LoopBase, LoopTypeOK
<1>2. /\ \A x \in Prios : x # p => queue'[x] = queue[x]
      /\ Len(queue[p]) > 0 /\ Len(queue'[p]) = Len(queue[p]) - 1
      /\ \A i \in 1..Len(queue'[p]) : queue'[p][i] = queue[p][i + 1]
      /\ worker' = [pc |-> "handle", ev |-> queue[p][1]]
  BY <1>1, PopFacts
<1>3. Len(queue[p]) \in Nat /\ 1 \in 1..Len(queue[p])
  <2>1. Len(queue[p]) \in Nat
    BY <1>1, Lengths DEF Prios
  <2> QED BY <1>2, <2>1
<1>4. ASSUME NEW x \in Prios, NEW i \in 1..Len(queue'[x])
      PROVE  \/ x # p /\ i \in 1..Len(queue[x]) /\ queue'[x][i] = queue[x][i]
             \/ x = p /\ i + 1 \in 1..Len(queue[x]) /\ queue'[x][i] = queue[x][i + 1]
  <2>1. CASE x # p
    BY <1>2, <2>1
  <2>2. CASE x = p
    <3>1. i + 1 \in 1..Len(queue[p])
      BY <1>2, <1>3, <2>2
    <3> QED BY <1>2, <2>2, <3>1
  <2> QED BY <2>1, <2>2
<1>5. "low" \in Prios /\ "data" \in Prios /\ "high" \in Prios
  BY DEF Prios
<1>6. HighApp'
  BY <1>4, <1>5 DEF OrderInv, HighApp
<1>7. DeletionLast'
  <2> SUFFICES ASSUME NEW i \in 1..Len(queue'["low"]), NEW j \in 1..Len(queue'["low"]),
                      i < j, queue'["low"][i].type = "delete"
               PROVE  queue'["low"][j].er # queue'["low"][i].er
    BY DEF DeletionLast
  <2>1. CASE p # "low"
    <3>1. queue'["low"] = queue["low"]
      BY <1>2, <1>5, <2>1
    <3> QED BY <3>1 DEF OrderInv, DeletionLast
  <2>2. CASE p = "low"
    <3>1. /\ i + 1 \in 1..Len(queue["low"]) /\ queue'["low"][i] = queue["low"][i + 1]
          /\ j + 1 \in 1..Len(queue["low"]) /\ queue'["low"][j] = queue["low"][j + 1]
      BY <1>4, <1>5, <2>2
    <3>2. i + 1 < j + 1
      OBVIOUS
    <3> QED BY <3>1, <3>2 DEF OrderInv, DeletionLast
  <2> QED BY <2>1, <2>2
<1>8. DataDrained'
  BY <1>2 DEF DataDrained
<1>9. NoneLeft'
  <2> SUFFICES ASSUME queue[p][1].type = "delete", NEW x \in Prios,
                      NEW i \in 1..Len(queue'[x])
               PROVE  queue'[x][i].er # queue[p][1].er
    BY <1>2 DEF NoneLeft
  <2>1. p = "low"
    BY <1>3 DEF LoopBase, DeletesInLow, Prios
  <2>2. queue["low"][1].er \in Socks
    BY <1>1, <1>3, <2>1 DEF LoopBase, DeferredClosed
  <2>3. CASE x = "low"
    <3>1. i + 1 \in 1..Len(queue["low"]) /\ queue'["low"][i] = queue["low"][i + 1] /\ 1 < i + 1
      BY <1>4, <2>1, <2>3
    <3> QED BY <1>3, <2>1, <2>3, <3>1 DEF OrderInv, DeletionLast
  <2>4. CASE x = "data"
    <3>1. i \in 1..Len(queue["data"]) /\ queue'["data"][i] = queue["data"][i]
      BY <1>4, <2>1, <2>4
    <3> QED BY <1>3, <2>1, <2>4, <3>1 DEF OrderInv, DataDrained
  <2>5. CASE x = "high"
    <3>1. i \in 1..Len(queue["high"]) /\ queue'["high"][i] = queue["high"][i]
      BY <1>4, <2>1, <2>5
    <3> QED BY <2>1, <2>2, <2>5, <3>1, LoopAssumption DEF OrderInv, HighApp
  <2> QED BY <2>3, <2>4, <2>5 DEF Prios
<1> QED BY <1>6, <1>7, <1>8, <1>9 DEF OrderInv

\* Other steps leave the order alone when the worker is not led to lowprioqueue.
LEMMA OrderFrame ==
  ASSUME OrderInv, queue' = queue, broken' = broken,
         worker'.pc = "low" => worker.pc = "low" \/ Len(queue["data"]) = 0,
         worker'.ev.type = "delete" => worker'.ev = worker.ev
  PROVE  OrderInv'
<1>1. HighApp' /\ DeletionLast'
  BY DEF OrderInv, HighApp, DeletionLast
<1>2. DataDrained'
  BY DEF OrderInv, DataDrained
<1>3. NoneLeft'
  BY DEF OrderInv, NoneLeft
<1> QED BY <1>1, <1>2, <1>3 DEF OrderInv

\* A step keeps the order of deletions.
LEMMA OrderNext == ~DirectDelete /\ LoopBase /\ OrderInv /\ Next => OrderInv'
<1> SUFFICES ASSUME ~DirectDelete, LoopBase, OrderInv, Next PROVE OrderInv'
  OBVIOUS
<1>0. /\ worker \in [pc : WorkerPcs, ev : Events] /\ queue \in [Prios -> Seq(Events)]
      /\ open \subseteq alive /\ alive \subseteq Socks
  BY DEF LoopBase, LoopTypeOK
<1>1. \A r : r \notin alive \/ r \in open => NotDeferred(r)
  BY DEF LoopBase, DeferredClosed, NotDeferred
<1>2. NotDeferred(App)
  BY <1>0, <1>1, LoopAssumption
<1>3. CASE OtherStep
  <2>1. ASSUME NEW p \in {"data", "high"}, NEW type \in EventTypes \ {"delete"},
               Push(p, type, App), UNCHANGED <<worker, broken>>
        PROVE  OrderInv'
    BY <1>2, <2>1, OrderPush DEF Prios
  <2>2. CASE dispatchTick
    BY <2>1, <2>2 DEF dispatchTick, EventTypes
  <2>3. ASSUME NEW t \in Posters, dispatchAsyncTaskComplete(t) PROVE OrderInv'
    BY <2>1, <2>3 DEF dispatchAsyncTaskComplete, EventTypes
  <2>4. ASSUME NEW t, dispatchSignal(t) \/ post(t) PROVE OrderInv'
    <3>1. UNCHANGED <<queue, worker, broken>>
      BY <2>4 DEF dispatchSignal, post
    <3> QED BY <3>1, OrderFrame
  <2> QED BY <1>3, <2>2, <2>3, <2>4 DEF OtherStep
<1>4. CASE HandlerStep
  <2>1. ASSUME NEW s \in Socks, deferDelete(s) PROVE OrderInv'
    <3>1. /\ s \in alive /\ ~Deferred(s) /\ worker.pc # "low"
          /\ Push("low", "delete", s) /\ UNCHANGED <<worker, broken>>
      BY <2>1 DEF deferDelete, Running
    <3>2. NotDeferred(s)
      BY <3>1, DeferredMeans DEF LoopBase
    <3> QED BY <3>1, <3>2, OrderPush DEF Prios, EventTypes
  <2>2. CASE asyncTask \/ \E s \in Socks : registerSocket(s) \/ closeSocket(s)
    <3>1. UNCHANGED <<queue, worker, broken>>
      BY <2>2 DEF asyncTask, registerSocket, closeSocket
    <3> QED BY <3>1, OrderFrame
  <2>3. ASSUME NEW s \in Socks, handleTCPNameResolution(s) \/ failSocket(s) PROVE OrderInv'
    <3>1. s \in open /\ Push("data", "sock", s) /\ UNCHANGED <<worker, broken>>
      BY <2>3 DEF handleTCPNameResolution, failSocket
    <3> QED BY <1>1, <3>1, OrderPush DEF Prios, EventTypes
  <2> QED BY <1>4, <2>1, <2>2, <2>3 DEF HandlerStep, deleteReceiver
<1>5. CASE IoStep
  <2>1. ASSUME NEW what, NEW type \in EventTypes \ {"delete"}, NEW p \in Prios,
               NEW r \in open \cup {App}, Handle(what, type, p, r), p = "high" => r = App
        PROVE  OrderInv'
    <3>1. NotDeferred(r) /\ r \in Socks \cup {App}
      BY <1>0, <1>1, <1>2
    <3> QED BY <2>1, <3>1, OrderPush DEF Handle
  <2>2. CASE handleExternalIn
    BY <2>1, <2>2 DEF handleExternalIn, EventTypes, Prios
  <2>3. ASSUME NEW s \in Socks, handleIn(s) \/ handleOut(s) \/ handleGone(s) PROVE OrderInv'
    <3>1. PrioOf(s) \in Prios /\ PrioOf(s) # "high"
      BY DEF PrioOf, Prios
    <3>2. /\ s \in open
          /\ \/ Handle("buf", "buf", PrioOf(s), s) \/ Handle("sock", "sock", PrioOf(s), s)
             \/ Handle("gone", "sock", PrioOf(s), s)
      BY <2>3 DEF handleIn, handleOut, handleGone
    <3>3. "buf" \in EventTypes \ {"delete"} /\ "sock" \in EventTypes \ {"delete"}
      BY DEF EventTypes
    <3> HIDE DEF PrioOf
    <3> QED BY <2>1, <3>1, <3>2, <3>3
  <2>4. ASSUME NEW s \in Socks, NEW d \in {{}, {s}}, handleTCPSSLIn(s, d) PROVE OrderInv'
    <3>1. PICK p \in {"data", "low"} : Handle("block", "buf", p, s)
      BY <2>4 DEF handleTCPSSLIn
    <3>2. s \in open \cup {App} /\ "buf" \in EventTypes \ {"delete"}
      BY <2>4 DEF handleTCPSSLIn, EventTypes
    <3>3. p \in Prios /\ p # "high"
      BY DEF Prios
    <3> QED BY <2>1, <3>1, <3>2, <3>3
  <2>5. CASE IoGoesOn
    <3>1. UNCHANGED <<queue, worker, broken>>
      BY <2>5 DEF IoGoesOn, ioPost, overloadSize, overload, overloadReturn, autoPause,
         readdataWait
    <3> QED BY <3>1, OrderFrame
  <2> QED BY <1>5, <2>2, <2>3, <2>4, <2>5 DEF IoStep
<1>6. CASE WorkerStep
  <2>1. CASE popLow
    BY <2>1, OrderPop DEF popLow, Prios
  <2>2. ASSUME NEW p \in {"high", "data"}, NEW next \in {"data", "low"}, look(p, next),
               next = "low" => p = "data"
        PROVE  OrderInv'
    <3>1. worker.pc = p /\ broken' = broken
      BY <2>2 DEF look
    <3>2. CASE Pop(p)
      BY <3>1, <3>2, OrderPop DEF Prios
    <3>3. CASE queue[p] = <<>> /\ Worker(next) /\ UNCHANGED queue
      <4>1. worker'.pc = next /\ worker'.ev = worker.ev
        BY <1>0, <3>3 DEF Worker
      <4>2. next = "low" => Len(queue["data"]) = 0
        BY <2>2, <3>3
      <4> QED BY <3>1, <3>3, <4>1, <4>2, OrderFrame
    <3> QED BY <2>2, <3>2, <3>3 DEF look
  <2>3. CASE wake \/ signalled \/ handled \/ resetFlags
    <3>1. UNCHANGED <<queue, broken>> /\ worker'.pc # "low" /\ worker'.ev = worker.ev
      BY <1>0, <2>3 DEF wake, signalled, handled, resetFlags, Worker
    <3> QED BY <3>1, OrderFrame
  <2>4. CASE getClearFirst
    <3>1. /\ UNCHANGED <<queue, broken>> /\ worker'.pc # "low"
          /\ worker'.ev.type = "delete" => worker'.ev = worker.ev
      BY <1>0, <2>4 DEF getClearFirst, Worker, Found, Nothing
    <3> QED BY <3>1, OrderFrame
  <2>5. CASE checkReady
    <3>1. /\ UNCHANGED <<queue, broken>> /\ worker'.pc # "low"
          /\ worker'.ev.type = "delete" => worker'.ev = worker.ev
      BY <1>0, <2>5, LeaveFacts DEF checkReady, Worker
    <3> QED BY <3>1, OrderFrame
  <2>6. CASE workerReady
    <3>1. /\ UNCHANGED <<queue, broken>> /\ worker'.pc # "low"
          /\ worker'.ev.type = "delete" => worker'.ev = worker.ev
      BY <2>6, LeaveFacts DEF workerReady
    <3> QED BY <3>1, OrderFrame
  <2>7. CASE destroy
    <3>1. worker.ev.type = "delete"
      BY <2>7 DEF destroy, LoopBase, DeferredClosed
    <3>2. ~Pending(worker.ev.er)
      BY <3>1 DEF OrderInv, NoneLeft, Pending, InQueue
    <3>3. /\ UNCHANGED <<queue, broken>> /\ worker'.pc # "low"
          /\ worker'.ev.type # "delete"
      BY <2>7, <3>2 DEF destroy, flushEventReceiver, Found, Nothing
    <3> QED BY <3>3, OrderFrame
  <2> QED BY <1>6, <2>1, <2>2, <2>3, <2>4, <2>5, <2>6, <2>7 DEF WorkerStep
<1>7. CASE Crashed
  BY <1>7 DEF Crashed, OrderInv
<1> QED BY <1>3, <1>4, <1>5, <1>6, <1>7 DEF Next

\* A receiver that is only ever deleted by deferDelete, as FTPConnect is, is
\* deleted after the last of its events: flushEventReceiver has nothing to erase.
THEOREM DeferredDeleteClean ==
  ASSUME ~DirectDelete
  PROVE  Spec => []FlushFindsNothing
<1>1. Init => OrderInv
  <2> SUFFICES ASSUME Init PROVE OrderInv
    OBVIOUS
  <2>1. \A x \in Prios : 1..Len(queue[x]) = {}
    BY DEF Init
  <2>2. ~broken /\ worker.pc # "low" /\ worker.ev.type # "delete"
    BY DEF Init, Nothing
  <2> QED BY <2>1, <2>2 DEF OrderInv, HighApp, DeletionLast, DataDrained, NoneLeft, Prios
<1>2. OrderInv /\ UNCHANGED vars => OrderInv'
  BY DEF vars, OrderInv, HighApp, DeletionLast, DataDrained, NoneLeft
<1>3. LoopBase /\ OrderInv /\ [Next]_vars => OrderInv'
  BY <1>2, OrderNext
<1>4. OrderInv => FlushFindsNothing
  BY DEF OrderInv, FlushFindsNothing
<1> QED BY <1>1, <1>3, <1>4, BaseInvariant, PTL DEF Spec

-----------------------------------------------------------------------------
(***************************************************************************)
(* External descriptors.                                                   *)
(***************************************************************************)
Asked == io.what = "key" /\ io.pc \in {"post", "wait"}
Keys == {i \in 1..Len(queue["high"]) : queue["high"][i].type = "key"}
Reading == worker.pc = "handle" /\ worker.ev.type = "key"

\* The three stages of the handshake, and none.
Stages ==
  IF Asked
  THEN \/ ~Reading /\ readdata = 0 /\ \E i \in Keys : Keys = {i}
       \/ Reading /\ readdata = 0 /\ Keys = {}
       \/ ~Reading /\ readdata = 1 /\ Keys = {}
  ELSE ~Reading /\ readdata = 0 /\ Keys = {}

\* Only highprioqueue holds DATA events, and the I/O thread waits for nothing else.
KeysHigh ==
  /\ \A p \in {"data", "low"} : \A i \in 1..Len(queue[p]) : queue[p][i].type # "key"
  /\ io.pc = "wait" => io.what = "key"

HandInv == Stages /\ KeysHigh

\* An event is pushed that is not DATA.
LEMMA KeysPush ==
  ASSUME LoopBase, KeysHigh, NEW p \in Prios, NEW type \in EventTypes,
         NEW r \in Socks \cup {App}, Push(p, type, r), type = "key" => p = "high"
  PROVE  /\ type # "key" => Keys' = Keys
         /\ type = "key" => Keys' = Keys \cup {Len(queue["high"]) + 1}
         /\ \A x \in {"data", "low"} :
              \A i \in 1..Len(queue'[x]) : queue'[x][i].type # "key"
<1>1. queue \in [Prios -> Seq(Events)]
  BY DEF LoopBase, LoopTypeOK
<1>2. /\ \A x \in Prios : x # p => queue'[x] = queue[x]
      /\ Len(queue'[p]) = Len(queue[p]) + 1
      /\ \A i \in 1..Len(queue[p]) : queue'[p][i] = queue[p][i]
      /\ queue'[p][Len(queue[p]) + 1] = [type |-> type, er |-> r]
  BY <1>1, PushFacts
<1>3. Len(queue[p]) \in Nat
  BY <1>1, Lengths DEF Prios
<1>4. 1..Len(queue'[p]) = (1..Len(queue[p])) \cup {Len(queue[p]) + 1}
  BY <1>2, <1>3
<1>5. CASE p = "high"
  <2>1. queue'["data"] = queue["data"] /\ queue'["low"] = queue["low"]
    BY <1>2, <1>5 DEF Prios
  <2>2. Keys' = {i \in 1..Len(queue'["high"]) : queue'["high"][i].type = "key"}
    BY DEF Keys
  <2>3. \A i : i \in Keys' <=>
               i \in Keys \/ (i = Len(queue["high"]) + 1 /\ type = "key")
    BY <1>2, <1>3, <1>4, <1>5, <2>2 DEF Keys
  <2> QED BY <2>1, <2>3 DEF KeysHigh
<1>6. CASE p # "high"
  <2>1. queue'["high"] = queue["high"] /\ type # "key"
    BY <1>2, <1>6 DEF Prios
  <2>2. Keys' = Keys
    BY <2>1 DEF Keys
  <2>3. ASSUME NEW x \in {"data", "low"}, NEW i \in 1..Len(queue'[x])
        PROVE  queue'[x][i].type # "key"
    <3>1. CASE x # p
      <4>1. queue'[x] = queue[x]
        BY <1>2, <3>1 DEF Prios
      <4> QED BY <4>1 DEF KeysHigh
    <3>2. CASE x = p
      BY <1>2, <1>4, <2>1, <3>2 DEF KeysHigh
    <3> QED BY <3>1, <3>2
  <2> QED BY <2>1, <2>2, <2>3
<1> QED BY <1>5, <1>6

\* The I/O thread or another one pushes an event that is not DATA, and no
\* handshake is begun or ended.
LEMMA HandPush ==
  ASSUME LoopBase, HandInv, NEW p \in Prios, NEW type \in EventTypes \ {"key"},
         NEW r \in Socks \cup {App}, Push(p, type, r), Asked' <=> Asked,
         io'.pc = "wait" => io'.what = "key", UNCHANGED <<worker, readdata>>
  PROVE  HandInv'
<1>1. /\ Keys' = Keys
      /\ \A x \in {"data", "low"} : \A i \in 1..Len(queue'[x]) : queue'[x][i].type # "key"
  BY KeysPush DEF HandInv
<1>2. Reading' = Reading
  BY DEF Reading
<1>3. Stages'
  BY <1>1, <1>2 DEF HandInv, Stages
<1> QED BY <1>1, <1>3 DEF HandInv, KeysHigh

\* Steps that leave the queues alone.
LEMMA HandFrame ==
  ASSUME HandInv, queue' = queue, Asked' <=> Asked, readdata' = readdata,
         Reading' <=> Reading, io'.pc = "wait" => io'.what = "key"
  PROVE  HandInv'
<1>1. Keys' = Keys
  BY DEF Keys
<1>2. Stages'
  BY <1>1 DEF HandInv, Stages
<1> QED BY <1>2 DEF HandInv, KeysHigh

\* The worker takes an event.
LEMMA HandPop ==
  ASSUME LoopBase, HandInv, NEW p \in Prios, worker.pc = p, Pop(p), UNCHANGED <<io, readdata>>
  PROVE  HandInv'
<1>1. queue \in [Prios -> Seq(Events)]
  BY DEF LoopBase, LoopTypeOK
<1>2. /\ \A x \in Prios : x # p => queue'[x] = queue[x]
      /\ Len(queue[p]) > 0 /\ Len(queue'[p]) = Len(queue[p]) - 1
      /\ \A i \in 1..Len(queue'[p]) : queue'[p][i] = queue[p][i + 1]
      /\ worker' = [pc |-> "handle", ev |-> queue[p][1]]
  BY <1>1, PopFacts
<1>3. Len(queue[p]) \in Nat
  BY <1>1, Lengths DEF Prios
<1>4. 1 \in 1..Len(queue[p]) /\ \A i \in 1..Len(queue'[p]) : i + 1 \in 1..Len(queue[p])
  BY <1>2, <1>3
<1>5. ~Reading /\ (Reading' <=> queue[p][1].type = "key") /\ Asked' = Asked
  BY <1>2 DEF Reading, Prios, Asked
<1>6. KeysHigh'
  <2> SUFFICES ASSUME NEW x \in {"data", "low"}, NEW i \in 1..Len(queue'[x])
               PROVE  queue'[x][i].type # "key"
    BY DEF HandInv, KeysHigh
  <2>1. CASE x # p
    <3>1. queue'[x] = queue[x]
      BY <1>2, <2>1 DEF Prios
    <3> QED BY <3>1 DEF HandInv, KeysHigh
  <2>2. CASE x = p
    BY <1>2, <1>4, <2>2 DEF HandInv, KeysHigh
  <2> QED BY <2>1, <2>2
<1>7. CASE p # "high"
  <2>1. queue'["high"] = queue["high"] /\ p \in {"data", "low"}
    BY <1>2, <1>7 DEF Prios
  <2>2. Keys' = Keys /\ ~Reading'
    BY <1>4, <1>5, <2>1 DEF Keys, HandInv, KeysHigh
  <2> QED BY <1>5, <1>6, <2>2 DEF HandInv, Stages
<1>8. CASE p = "high"
  <2>1. Keys' = {i \in 1..Len(queue'["high"]) : queue'["high"][i].type = "key"}
    BY DEF Keys
  <2>2. \A i \in Keys' : i \in 1..Len(queue'["high"]) /\ i + 1 \in Keys /\ i + 1 # 1
    BY <1>2, <1>3, <1>4, <1>8, <2>1 DEF Keys
  <2>3. \A i \in Keys : i = 1 \/ i - 1 \in Keys'
    BY <1>2, <1>3, <1>8, <2>1 DEF Keys
  <2>4. 1 \in Keys <=> Reading'
    BY <1>4, <1>5, <1>8 DEF Keys
  <2>5. CASE Keys = {}
    <3>1. Keys' = {} /\ ~Reading'
      BY <2>2, <2>4, <2>5
    <3> QED BY <1>5, <1>6, <2>5, <3>1 DEF HandInv, Stages
  <2>6. CASE Keys # {}
    <3>1. Asked /\ readdata = 0
      BY <1>5, <2>6 DEF HandInv, Stages
    <3>2. PICK k \in Keys : Keys = {k}
      BY <1>5, <2>6 DEF HandInv, Stages
    <3>3. CASE k = 1
      <4>1. Keys' = {} /\ Reading'
        BY <2>2, <2>4, <3>2, <3>3
      <4> QED BY <1>5, <1>6, <3>1, <4>1 DEF HandInv, Stages
    <3>4. CASE k # 1
      <4>1. ~Reading' /\ k - 1 \in Keys'
        BY <2>3, <2>4, <3>2, <3>4
      <4>2. \A i \in Keys' : i = k - 1
        <5> SUFFICES ASSUME NEW i \in Keys' PROVE i = k - 1
          OBVIOUS
        <5>1. i + 1 = k /\ i \in 1..Len(queue'["high"])
          BY <2>2, <3>2
        <5> QED BY <5>1
      <4>3. Keys' = {k - 1}
        BY <4>1, <4>2
      <4> QED BY <1>5, <1>6, <3>1, <4>1, <4>3 DEF HandInv, Stages
    <3> QED BY <3>3, <3>4
  <2> QED BY <2>5, <2>6
<1> QED BY <1>7, <1>8

\* The I/O thread.
LEMMA HandIo == LoopBase /\ HandInv /\ IoStep => HandInv'
<1> SUFFICES ASSUME LoopBase, HandInv, IoStep PROVE HandInv'
  OBVIOUS
<1>0. io \in IoStates /\ IoSound /\ (io.pc = "wait" => io.what = "key")
  BY DEF LoopBase, LoopTypeOK, HandInv, KeysHigh
<1>1. Polling.pc = "poll"
  BY DEF Polling
<1>2. ASSUME NEW what \in {"buf", "block", "sock", "gone"}, NEW type \in EventTypes \ {"key"},
             NEW p \in Prios, NEW r \in Socks \cup {App}, Handle(what, type, p, r)
      PROVE  HandInv'
  <2>1. ~Asked /\ ~Asked' /\ io'.pc # "wait"
    BY <1>2 DEF Handle, Asked
  <2> QED BY <1>2, <2>1, HandPush DEF Handle
<1>3. CASE handleExternalIn
  <2>1. /\ Push("high", "key", App) /\ UNCHANGED <<worker, readdata>>
        /\ io.pc = "poll" /\ io'.pc = "post" /\ io'.what = "key"
    BY <1>3 DEF handleExternalIn, Handle
  <2>2. /\ Keys' = Keys \cup {Len(queue["high"]) + 1}
        /\ \A x \in {"data", "low"} : \A i \in 1..Len(queue'[x]) : queue'[x][i].type # "key"
    BY <2>1, KeysPush DEF HandInv, EventTypes, Prios
  <2>3. ~Asked /\ Asked' /\ Reading' = Reading
    BY <2>1 DEF Asked, Reading
  <2>4. Keys' = {Len(queue["high"]) + 1} /\ ~Reading' /\ readdata' = 0
    BY <2>1, <2>2, <2>3 DEF HandInv, Stages
  <2> QED BY <2>1, <2>2, <2>3, <2>4 DEF HandInv, Stages, KeysHigh
<1>4. ASSUME NEW s \in Socks, handleIn(s) \/ handleOut(s) \/ handleGone(s) PROVE HandInv'
  <2>1. PrioOf(s) \in Prios
    BY DEF PrioOf, Prios
  <2>2. "buf" \in EventTypes \ {"key"} /\ "sock" \in EventTypes \ {"key"}
    BY DEF EventTypes
  <2>3. \/ Handle("buf", "buf", PrioOf(s), s) \/ Handle("sock", "sock", PrioOf(s), s)
        \/ Handle("gone", "sock", PrioOf(s), s)
    BY <1>4 DEF handleIn, handleOut, handleGone
  <2> QED BY <1>2, <2>1, <2>2, <2>3
<1>5. ASSUME NEW s \in Socks, NEW d \in {{}, {s}}, handleTCPSSLIn(s, d) PROVE HandInv'
  <2>1. PICK p \in {"data", "low"} : Handle("block", "buf", p, s)
    BY <1>5 DEF handleTCPSSLIn
  <2>2. p \in Prios /\ "buf" \in EventTypes \ {"key"}
    BY DEF Prios, EventTypes
  <2> QED BY <1>2, <2>1, <2>2
<1>6. CASE ioPost
  <2>1. UNCHANGED <<queue, worker, readdata>>
    BY <1>6 DEF ioPost
  <2>2. CASE io.what \in {"buf", "block"}
    <3>1. io' = [io EXCEPT !.pc = "size"]
      BY <1>6, <2>2 DEF ioPost
    <3>2. ~Asked /\ ~Asked' /\ io'.pc # "wait"
      BY <1>0, <2>2, <3>1 DEF Asked, IoStates
    <3> QED BY <2>1, <3>2, HandFrame DEF Reading
  <2>3. CASE io.what = "key"
    <3>1. io' = [io EXCEPT !.pc = "wait"] /\ io.pc = "post"
      BY <1>6, <2>3 DEF ioPost
    <3>2. Asked /\ Asked' /\ io'.what = "key"
      BY <1>0, <2>3, <3>1 DEF Asked, IoStates
    <3> QED BY <2>1, <3>2, HandFrame DEF Reading
  <2>4. CASE io.what \notin {"key", "buf", "block"}
    <3>1. io' = Polling
      BY <1>6, <2>4 DEF ioPost
    <3>2. ~Asked /\ ~Asked' /\ io'.pc # "wait"
      BY <1>1, <2>4, <3>1 DEF Asked
    <3> QED BY <2>1, <3>2, HandFrame DEF Reading
  <2> QED BY <2>2, <2>3, <2>4
<1>7. CASE overloadSize \/ overload \/ overloadReturn \/ autoPause
  <2>1. UNCHANGED <<queue, worker, readdata>>
    BY <1>7 DEF overloadSize, overload, overloadReturn, autoPause
  <2>2. io'.pc \in {"set", "ret", "pause", "poll"}
    <3>1. CASE overloadSize
      BY <1>0, <3>1, Zenon DEF overloadSize, IoStates
    <3>2. CASE overload \/ overloadReturn
      BY <1>0, <3>2 DEF overload, overloadReturn, IoStates
    <3>3. CASE autoPause
      BY <1>1, <3>3 DEF autoPause
    <3> QED BY <1>7, <3>1, <3>2, <3>3
  <2>3. ~Asked
    BY <1>7 DEF overloadSize, overload, overloadReturn, autoPause, Asked
  <2>4. ~Asked' /\ io'.pc # "wait"
    BY <2>2 DEF Asked
  <2> QED BY <2>1, <2>3, <2>4, HandFrame DEF Reading
<1>8. CASE readdataWait
  <2>1. /\ UNCHANGED <<queue, worker>> /\ io' = Polling
        /\ Asked /\ readdata > 0 /\ readdata' = readdata - 1
    BY <1>0, <1>8 DEF readdataWait, Asked
  <2>2. ~Reading /\ readdata = 1 /\ Keys = {}
    BY <2>1 DEF HandInv, Stages
  <2>3. ~Reading' /\ readdata' = 0 /\ Keys' = {} /\ ~Asked' /\ io'.pc # "wait"
    BY <1>1, <2>1, <2>2 DEF Reading, Keys, Asked
  <2> QED BY <2>1, <2>3 DEF HandInv, Stages, KeysHigh
<1> QED BY <1>3, <1>4, <1>5, <1>6, <1>7, <1>8 DEF IoStep, IoGoesOn

\* The worker, its handlers and the other threads.
LEMMA HandRest == LoopBase /\ HandInv /\ (WorkerStep \/ HandlerStep \/ OtherStep) => HandInv'
<1> SUFFICES ASSUME LoopBase, HandInv, WorkerStep \/ HandlerStep \/ OtherStep PROVE HandInv'
  OBVIOUS
<1>0. /\ worker \in [pc : WorkerPcs, ev : Events] /\ readdata \in Nat
      /\ io.pc = "wait" => io.what = "key"
  BY DEF LoopBase, LoopTypeOK, HandInv, KeysHigh
<1>1. io' = io
  BY DEF WorkerStep, HandlerStep, OtherStep, wake, getClearFirst, popLow, look, handled,
     signalled, checkReady, resetFlags, workerReady, destroy, asyncTask, registerSocket,
     handleTCPNameResolution, failSocket, closeSocket, deferDelete, deleteReceiver, dispatchTick, dispatchSignal,
     dispatchAsyncTaskComplete, post
<1>2. Asked' = Asked /\ (io'.pc = "wait" => io'.what = "key")
  BY <1>0, <1>1 DEF Asked
<1>3. ASSUME NEW p \in Prios, NEW type \in EventTypes \ {"key"}, NEW r \in Socks \cup {App},
             Push(p, type, r), UNCHANGED <<worker, readdata>>
      PROVE  HandInv'
  BY <1>2, <1>3, HandPush
<1>4. CASE OtherStep
  <2>1. CASE dispatchTick
    BY <1>3, <2>1 DEF dispatchTick, Prios, EventTypes
  <2>2. ASSUME NEW t \in Posters, dispatchAsyncTaskComplete(t) PROVE HandInv'
    BY <1>3, <2>2 DEF dispatchAsyncTaskComplete, Prios, EventTypes
  <2>3. ASSUME NEW t, dispatchSignal(t) \/ post(t) PROVE HandInv'
    <3>1. UNCHANGED <<queue, worker, readdata>>
      BY <2>3 DEF dispatchSignal, post
    <3> QED BY <1>2, <3>1, HandFrame DEF Reading
  <2> QED BY <1>4, <2>1, <2>2, <2>3 DEF OtherStep
<1>5. CASE HandlerStep
  <2>1. ASSUME NEW s \in Socks,
               deferDelete(s) \/ handleTCPNameResolution(s) \/ failSocket(s)
        PROVE  HandInv'
    BY <1>3, <2>1 DEF deferDelete, handleTCPNameResolution, failSocket, Prios, EventTypes
  <2>2. CASE UNCHANGED <<queue, worker, readdata>>
    BY <1>2, <2>2, HandFrame DEF Reading
  <2> QED BY <1>5, <2>1, <2>2 DEF HandlerStep, asyncTask, registerSocket, closeSocket,
         deleteReceiver
<1>6. CASE WorkerStep
  <2>1. CASE popLow
    BY <1>1, <2>1, HandPop DEF popLow, Prios
  <2>2. ASSUME NEW p \in {"high", "data"}, NEW next \in {"data", "low"}, look(p, next)
        PROVE  HandInv'
    <3>1. worker.pc = p /\ p \in Prios /\ readdata' = readdata
      BY <2>2 DEF look, Prios
    <3>2. CASE Pop(p)
      BY <1>1, <3>1, <3>2, HandPop
    <3>3. CASE Worker(next) /\ UNCHANGED queue
      <4>1. ~Reading /\ ~Reading'
        BY <1>0, <3>1, <3>3 DEF Worker, Reading
      <4> QED BY <1>2, <3>1, <3>3, <4>1, HandFrame
    <3> QED BY <2>2, <3>2, <3>3 DEF look
  <2>3. CASE handled
    <3>1. /\ worker.pc = "handle" /\ worker'.pc = "check" /\ queue' = queue
          /\ readdata' = readdata + Count(worker.ev.type = "key")
      BY <1>0, <2>3 DEF handled, Worker
    <3>2. CASE worker.ev.type = "key"
      <4>1. Reading /\ ~Reading' /\ readdata' = readdata + 1 /\ Keys' = Keys
        BY <3>1, <3>2 DEF Reading, Count, Keys
      <4>2. readdata = 0 /\ Keys = {} /\ Asked
        BY <4>1 DEF HandInv, Stages
      <4> QED BY <1>2, <3>1, <4>1, <4>2 DEF HandInv, Stages, KeysHigh
    <3>3. CASE worker.ev.type # "key"
      <4>1. ~Reading /\ ~Reading' /\ readdata' = readdata
        BY <1>0, <3>1, <3>3 DEF Reading, Count
      <4> QED BY <1>2, <3>1, <4>1, HandFrame
    <3> QED BY <3>2, <3>3
  <2>4. CASE \/ wake \/ getClearFirst \/ signalled \/ checkReady \/ resetFlags \/ workerReady
             \/ destroy
    <3>1. UNCHANGED <<queue, readdata>> /\ worker.pc # "handle"
      BY <2>4 DEF wake, getClearFirst, signalled, checkReady, resetFlags, workerReady, destroy
    <3>2. worker'.pc # "handle"
      BY <1>0, <2>4 DEF wake, getClearFirst, signalled, checkReady, resetFlags, workerReady,
         destroy, Leave, Worker, Found
    <3> QED BY <1>2, <3>1, <3>2, HandFrame DEF Reading
  <2> QED BY <1>6, <2>1, <2>2, <2>3, <2>4 DEF WorkerStep
<1> QED BY <1>4, <1>5, <1>6

\* IOManager and the worker take turns on an external descriptor: readdata is
\* posted once for each event, and for no other, whatever else is dispatched.
THEOREM DescriptorHandshake == Spec => []ExternalHandshake
<1>1. Init => HandInv
  <2> SUFFICES ASSUME Init PROVE HandInv
    OBVIOUS
  <2>1. \A x \in Prios : 1..Len(queue[x]) = {}
    BY DEF Init
  <2>2. ~Asked /\ ~Reading /\ readdata = 0 /\ Keys = {}
    BY <2>1 DEF Init, Polling, Asked, Reading, Keys, Prios
  <2>3. KeysHigh
    BY <2>1 DEF Init, Polling, KeysHigh, Prios
  <2> QED BY <2>2, <2>3 DEF HandInv, Stages
<1>2. HandInv /\ UNCHANGED vars => HandInv'
  <2> SUFFICES ASSUME HandInv, UNCHANGED vars PROVE HandInv'
    OBVIOUS
  <2>1. UNCHANGED <<queue, worker, io, readdata>>
    BY DEF vars
  <2>2. Asked' = Asked /\ Reading' = Reading /\ (io'.pc = "wait" => io'.what = "key")
    BY <2>1 DEF Asked, Reading, HandInv, KeysHigh
  <2> QED BY <2>1, <2>2, HandFrame
<1>3. LoopBase /\ HandInv /\ [Next]_vars => HandInv'
  BY <1>2, HandIo, HandRest DEF Next, Crashed
<1>4. HandInv => ExternalHandshake
  BY DEF HandInv, Stages, Asked, Reading, Keys, ExternalHandshake
<1> QED BY <1>1, <1>3, <1>4, BaseInvariant, PTL DEF Spec
=============================================================================
