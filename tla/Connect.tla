------------------------------ MODULE Connect ------------------------------
(***************************************************************************)
(* How one connection of a site logs in and goes away again: the           *)
(* connectors FTPConnect that race each other to the site's addresses,     *)
(* straight or through a SOCKS proxy (ProxySession), the handover of the   *)
(* winner's socket to FTPConn, the login dialogue, and the part of         *)
(* SiteLogic that reacts to its outcome, with its delayed commands.        *)
(*                                                                         *)
(* The I/O manager is present as the sockets and the queue of events it    *)
(* hands to the worker: an event is addressed when it is produced and      *)
(* handled later, whatever happened to its socket and receiver meanwhile.  *)
(* A reply of the server is abstracted to what the handlers tell apart,    *)
(* and the connectors of an attempt are a set: no handler heeds the order  *)
(* of their list.                                                          *)
(***************************************************************************)
EXTENDS Naturals, Sequences, FiniteSets

CONSTANTS
  MaxConnectors,  \* bound: connectors (and sockets) made in a behaviour
  MaxLogins,      \* bound: attempts to log in at the site
  MaxQueue,       \* bound: events that wait for the worker
  WelcomeTicks,   \* ticks until the wait for the welcome message is over
  Sites           \* the site settings to consider

ASSUME ConnectAssumption ==
  /\ MaxConnectors \in Nat \ {0} /\ MaxLogins \in Nat /\ MaxQueue \in Nat
  /\ WelcomeTicks \in Nat \ {0}
  /\ Sites \subseteq [addresses : Nat \ {0}, tls : {"NONE", "AUTH_TLS", "IMPLICIT"},
                      proxy : {"none", "open", "userpass"}, binary : BOOLEAN, xdupe : BOOLEAN]

VARIABLES
  site,    \* the settings of the site
  conn,    \* FTPConn: state, processing, its socket and its connectors
  net,     \* the sockets, the events on their way to the worker
  cst      \* ConnStateTracker: login, lock and delayed command

cvars == <<site, conn, net, cst>>

Ids == 1..MaxConnectors
Replies == {"good", "more", "full", "simultaneous", "bad"}
NoSock == 0

\* FTPConnState, the commands of a logged in connection taken together
ConnStates == {"DISCONNECTED", "CONNECTING", "AUTH_TLS", "USER", "USER_LOGINKILL", "PASS",
               "PASS_LOGINKILL", "TYPEI", "XDUPE", "COMMAND", "QUIT", "IDLE"}

\* A connector: FTPConnect and the stage of its EventReceiverProxyIntermediate
Connector == [engaged : BOOLEAN, connected : BOOLEAN, primary : BOOLEAN, waited : 0..WelcomeTicks,
              stage : {"none", "INIT", "SEND", "SEND_CONNECT", "direct"}]
SocketState == {"none", "connecting", "up", "negotiating", "closing", "closed"}
Event == [kind : {"connected", "data", "fail", "disconnected", "ssl"}, sock : Ids,
          to : {"connector", "conn"}, reply : Replies]

\* The commands that wait for their time: DelayedCommand
Delayed == {"none", "reconnect", "quit", "antiantiidle"}

\* FTPConn::FTPConn, ConnStateTracker::ConnStateTracker
ConnectInit ==
  /\ site \in Sites
  /\ conn = [state |-> "DISCONNECTED", processing |-> FALSE, sock |-> NoSock, all |-> FALSE,
             typei |-> FALSE, xdupe |-> FALSE, list |-> {}, poke |-> 0]
  /\ net = [sock |-> [i \in Ids |-> "none"], owner |-> [i \in Ids |-> "connector"], last |-> 0,
            ctr |-> [i \in Ids |-> [engaged |-> FALSE, connected |-> FALSE, primary |-> FALSE,
                                    waited |-> 0, stage |-> "none"]],
            queue |-> << >>, deaf |-> FALSE, stale |-> FALSE]
  /\ cst = [loggedin |-> FALSE, quitting |-> FALSE, locked |-> FALSE, command |-> "none",
            persisting |-> FALSE, early |-> FALSE]

\* The state handlers pass along, and its return to the variables, as long as
\* the connectors of the attempt under way stay within the bound
Now == [conn |-> conn, net |-> net, cst |-> cst]
Become(s) ==
  /\ LET reserved == IF s.conn.state = "CONNECTING" /\ ~s.conn.all THEN site.addresses - 1 ELSE 0
     IN  s.net.last \in 0..(MaxConnectors - reserved) /\ s.net.last + reserved <= MaxLogins * site.addresses
  /\ conn' = s.conn /\ net' = s.net /\ cst' = s.cst /\ UNCHANGED site

-----------------------------------------------------------------------------
\* Sockets

Open == {"connecting", "up", "negotiating"}

\* IOManager::closeSocket: a socket with unsent data lingers and still produces events
CloseWays == IF conn.sock # NoSock /\ net.sock[conn.sock] = "up" THEN {"closed", "closing"} ELSE {"closed"}
CloseSocket(s, k, how) ==
  IF k # NoSock /\ s.net.sock[k] \in Open
  THEN [s EXCEPT !.net.sock[k] = IF s.net.sock[k] = "up" THEN how ELSE "closed"]
  ELSE s

\* A connector that is not engaged any more: the rest of it is not read again
Retired(c) == [c EXCEPT !.engaged = FALSE, !.connected = FALSE, !.waited = 0, !.stage = "direct"]

\* FTPConnect::disengage, of some connectors
disengage(s, K) ==
  LET D == {k \in K : s.net.ctr[k].engaged}
  IN  [s EXCEPT
         !.net.sock = [k \in Ids |-> IF k \in D /\ s.net.sock[k] \in Open THEN "closed" ELSE s.net.sock[k]],
         !.net.ctr = [k \in Ids |-> IF k \in D THEN Retired(s.net.ctr[k]) ELSE s.net.ctr[k]]]

\* FTPConn::clearConnectors
clearConnectors(s) == [disengage(s, s.conn.list) EXCEPT !.conn.list = {}]

\* FTPConnect::FTPConnect, EventReceiverProxyIntermediate::interConnect
NewConnectors(s, n, primary) ==
  LET new == (s.net.last + 1)..(s.net.last + n)
      c == [engaged |-> TRUE, connected |-> FALSE, primary |-> primary, waited |-> 0,
            stage |-> IF site.proxy = "none" THEN "direct" ELSE "INIT"]
  IN  [s EXCEPT !.net.last = s.net.last + n, !.conn.list = s.conn.list \cup new,
                !.net.sock = [k \in Ids |-> IF k \in new THEN "connecting" ELSE s.net.sock[k]],
                !.net.ctr = [k \in Ids |-> IF k \in new THEN c ELSE s.net.ctr[k]]]

\* FTPConn::connectAllAddresses
connectAllAddresses(s) == NewConnectors([s EXCEPT !.conn.all = TRUE], site.addresses - 1, FALSE)

startPoke(s) == [s EXCEPT !.conn.poke = @ + 1]
stopPoke(s) == IF s.conn.poke = 0 THEN s ELSE [s EXCEPT !.conn.poke = @ - 1]

\* FTPConn::login
login(s) ==
  IF s.conn.state \notin {"DISCONNECTED", "QUIT"} THEN s
  ELSE startPoke(NewConnectors(
         [clearConnectors(s) EXCEPT !.conn.state = "CONNECTING", !.conn.processing = TRUE,
            !.conn.all = FALSE, !.conn.sock = NoSock, !.conn.typei = FALSE, !.conn.xdupe = FALSE], 1, TRUE))

\* FTPConn::disconnect
disconnect(s, how) ==
  IF s.conn.state = "DISCONNECTED" THEN s
  ELSE clearConnectors(CloseSocket(
         [(IF s.conn.state = "CONNECTING" THEN stopPoke(s) ELSE s)
            EXCEPT !.conn.state = "DISCONNECTED", !.conn.processing = FALSE], s.conn.sock, how))

\* FTPConn::sendEcho of one command
Send(s, state) == [s EXCEPT !.conn.state = state, !.conn.processing = TRUE]

-----------------------------------------------------------------------------
\* SiteLogic: delayed commands, disconnects, and work on a connection

\* ConnStateTracker::resetIdleTime, ConnStateTracker::use
ClearCommand(s) == [s EXCEPT !.cst.command = "none", !.cst.persisting = FALSE, !.cst.early = FALSE]

\* ConnStateTracker::delayedCommand
delayedCommand(s, command, persisting) ==
  [s EXCEPT !.cst.command = command, !.cst.persisting = persisting,
            !.cst.early = s.cst.locked \/ s.conn.processing]

\* ConnStateTracker::setDisconnected
setDisconnected(s) ==
  LET t == [s EXCEPT !.cst.loggedin = FALSE, !.cst.quitting = FALSE]
  IN  IF s.cst.persisting THEN t ELSE ClearCommand(t)

\* SiteLogic::cleanupConnection, the connection's lock and request released
cleanupConnection(s) == [s EXCEPT !.cst.locked = FALSE]

\* SiteLogic::disconnectConn
disconnectConn(s, hard, how) ==
  LET t == cleanupConnection(ClearCommand(s))
  IN  IF s.conn.state = "DISCONNECTED" THEN t
      ELSE IF ~hard /\ s.cst.loggedin /\ ~s.conn.processing
           THEN [Send(t, "QUIT") EXCEPT !.cst.quitting = TRUE]
           ELSE setDisconnected(disconnect(t, how))

\* SiteLogic::disconnected
disconnected(s) == setDisconnected(cleanupConnection(s))

\* SiteLogic::handleConnection, by what it finds to do: nothing, a command, or
\* the lock for a transfer, whose commands may have to wait for the other side.
\* Every way to work calls ConnStateTracker::use first.
Work == {"nothing", "command", "transfer", "waitingtransfer"}
handleConnection(s, work) ==
  IF s.conn.processing \/ s.cst.locked \/ work = "nothing" THEN s
  ELSE LET t == ClearCommand(s)
       IN  CASE work = "command" -> Send(t, "COMMAND")
             [] work = "transfer" -> [Send(t, "COMMAND") EXCEPT !.cst.locked = TRUE]
             [] work = "waitingtransfer" -> [t EXCEPT !.cst.locked = TRUE]

-----------------------------------------------------------------------------
\* The handlers of FTPConn

\* FTPConn::doUSER
doUSER(s, killer) == Send(s, IF killer THEN "USER_LOGINKILL" ELSE "USER")

\* FTPConn::finishLogin; SiteLogic::commandSuccess of LOGIN
finishLogin(s, work) ==
  IF site.binary /\ ~s.conn.typei THEN Send(s, "TYPEI")
  ELSE IF site.xdupe /\ ~s.conn.xdupe THEN Send(s, "XDUPE")
  ELSE handleConnection([ClearCommand(s) EXCEPT !.cst.loggedin = TRUE], work)

\* What SiteLogic does with a refused login, by the state that met the refusal
Refused(s, reply, how) ==
  IF reply = "full" THEN delayedCommand(s, "reconnect", TRUE)
  ELSE IF reply = "simultaneous" /\ s.conn.state \in {"USER", "PASS"} THEN doUSER(s, TRUE)
  ELSE disconnectConn(s, FALSE, how)

\* FTPConn::FDData, the handler of the state
HandleReply(s, reply, work, how) ==
  LET done == [s EXCEPT !.conn.processing = FALSE]
  IN  CASE s.conn.state = "AUTH_TLS" ->
             IF reply = "good"
             THEN IF s.net.sock[s.conn.sock] = "up" THEN [s EXCEPT !.net.sock[s.conn.sock] = "negotiating"] ELSE s
             ELSE disconnectConn(done, FALSE, how)
        [] s.conn.state \in {"USER", "USER_LOGINKILL"} ->
             IF reply = "good" THEN finishLogin(done, work)
             ELSE IF reply = "more"
                  THEN [s EXCEPT !.conn.state = IF @ = "USER" THEN "PASS" ELSE "PASS_LOGINKILL"]
                  ELSE Refused(done, reply, how)
        [] s.conn.state \in {"PASS", "PASS_LOGINKILL"} ->
             IF reply = "good" THEN finishLogin(done, work) ELSE Refused(done, reply, how)
        [] s.conn.state = "TYPEI" ->
             IF reply = "good" THEN finishLogin([done EXCEPT !.conn.typei = TRUE], work)
             ELSE login(disconnect(disconnected(ClearCommand(done)), how))
        [] s.conn.state = "XDUPE" -> finishLogin([done EXCEPT !.conn.xdupe = TRUE], work)
        [] s.conn.state = "COMMAND" ->  \* commandSuccess, commandFail: the transfer may be over
             handleConnection(ClearCommand(IF work = "nothing" THEN [done EXCEPT !.cst.locked = FALSE] ELSE done), work)
        [] s.conn.state = "QUIT" -> setDisconnected(disconnect(done, how))
        [] OTHER -> s

\* FTPConn::FDData
FDData(s, k, reply, work, how) ==
  IF s.conn.sock # k THEN s
  ELSE LET t == HandleReply(s, reply, work, how)
       IN  IF ~t.conn.processing /\ t.conn.state # "DISCONNECTED"
           THEN [t EXCEPT !.conn.state = "IDLE"] ELSE t

\* FTPConn::FDDisconnected: processing is left alone
FDDisconnected(s, k) ==
  IF s.conn.sock # k \/ s.conn.state = "DISCONNECTED" THEN s
  ELSE disconnected([s EXCEPT !.conn.state = "DISCONNECTED"])

\* FTPConn::FDSSLSuccess compares no socket; stale remembers that it should have
FDSSLSuccess(s, k) ==
  LET t == IF s.conn.sock # k \/ s.conn.state = "DISCONNECTED" THEN [s EXCEPT !.net.stale = TRUE] ELSE s
  IN  IF s.conn.state = "AUTH_TLS" THEN doUSER(t, FALSE) ELSE [t EXCEPT !.conn.state = "IDLE"]

\* A handover that leaves the connector as the receiver
ftpConnectSuccessNoAdopt(s, k) ==
  IF s.conn.state # "CONNECTING" THEN s
  ELSE doUSER(clearConnectors(stopPoke([s EXCEPT !.net.ctr[k] = Retired(@), !.conn.sock = k])), FALSE)

\* The I/O manager is about to forget, or has forgotten, the socket that is adopted.
Shut(s, k) == s.net.sock[k] \in {"closing", "closed"}

\* FTPConn::ftpConnectSuccess with handedOver and IOManager::adopt; deaf remembers
\* that the disconnect of the socket is on its way to the connector that gave it up
ftpConnectSuccess(s, k) ==
  IF s.conn.state # "CONNECTING" THEN s
  ELSE LET t == [s EXCEPT !.net.ctr[k] = Retired(@), !.conn.sock = k, !.net.owner[k] = "conn",
                          !.net.deaf = Shut(s, k)]
           u == clearConnectors(stopPoke(t))
       IN  IF site.tls = "AUTH_TLS" THEN Send(u, "AUTH_TLS") ELSE doUSER(u, FALSE)

\* FTPConn::ftpConnectFail, SiteLogic::connectFailed: connectors have failed, those
\* of a tick together
ftpConnectFail(s, K, how) ==
  IF s.conn.state # "CONNECTING" \/ K = {} THEN s
  ELSE LET t == [s EXCEPT !.conn.list = s.conn.list \ K]
           u == IF site.addresses > 1 /\ ~s.conn.all /\ \E k \in K : s.net.ctr[k].primary
                THEN connectAllAddresses(t) ELSE t
       IN  IF u.conn.list # {} THEN u
           ELSE disconnectConn([stopPoke(u) EXCEPT !.conn.state = "DISCONNECTED"], FALSE, how)

-----------------------------------------------------------------------------
\* The handlers of FTPConnect, in front of them the proxy dialogue

\* FTPConnect::FDFail and FDInterDisconnected
ConnectorFail(s, k, how) ==
  IF s.net.ctr[k].engaged THEN ftpConnectFail([s EXCEPT !.net.ctr[k] = Retired(@)], {k}, how) ELSE s

\* FTPConnect::FDInterConnected
FDInterConnected(s, k) ==
  IF ~s.net.ctr[k].engaged THEN s
  ELSE [s EXCEPT !.net.ctr[k].connected = TRUE, !.net.ctr[k].waited = 0,
                 !.net.sock[k] = IF site.tls = "IMPLICIT" /\ @ = "up" THEN "negotiating" ELSE @]

\* FTPConnect::FDInterData
FDInterData(s, k, reply, how) ==
  IF ~s.net.ctr[k].engaged THEN s
  ELSE IF reply = "good" THEN ftpConnectSuccess(s, k)
  ELSE ftpConnectFail(disengage(s, {k}), {k}, how)

\* ProxySession::received: the stage after a reply, or ERROR
received(stage, reply) ==
  IF reply # "good" THEN "ERROR"
  ELSE CASE stage = "INIT" -> IF site.proxy = "userpass" THEN "SEND" ELSE "SEND_CONNECT"
         [] stage = "SEND" -> "SEND_CONNECT"
         [] stage = "SEND_CONNECT" -> "SUCCESS"

\* EventReceiverProxyIntermediate::FDData and proxySessionInit
ProxyData(s, k, reply, how) ==
  LET next == received(s.net.ctr[k].stage, reply)
  IN  CASE next = "SUCCESS" -> FDInterConnected([s EXCEPT !.net.ctr[k].stage = "direct"], k)
        [] next = "ERROR" -> ConnectorFail(CloseSocket(s, k, how), k, how)
        [] OTHER -> [s EXCEPT !.net.ctr[k].stage = next]

\* What an event does at its receiver
Handle(s, e, work, how) ==
  IF e.to = "conn"
  THEN CASE e.kind = "data" -> FDData(s, e.sock, e.reply, work, how)
         [] e.kind \in {"disconnected", "fail"} -> FDDisconnected(s, e.sock)
         [] e.kind = "ssl" -> FDSSLSuccess(s, e.sock)
  ELSE CASE e.kind = "connected" ->
              IF s.net.ctr[e.sock].stage = "direct" THEN FDInterConnected(s, e.sock) ELSE s
         [] e.kind = "data" ->
              IF s.net.ctr[e.sock].stage = "direct" THEN FDInterData(s, e.sock, e.reply, how)
              ELSE ProxyData(s, e.sock, e.reply, how)
         [] e.kind \in {"disconnected", "fail"} -> ConnectorFail(s, e.sock, how)
         [] e.kind = "ssl" -> s

-----------------------------------------------------------------------------
\* The I/O thread

Room == Len(net.queue) < MaxQueue
Put(n, k, kind, reply) ==
  [n EXCEPT !.queue = Append(@, [kind |-> kind, sock |-> k, to |-> n.owner[k], reply |-> reply])]

\* The connection comes about, or fails or times out (IOManager::tick)
SocketConnects(k) ==
  /\ net.sock[k] = "connecting"
  /\ \/ net' = Put([net EXCEPT !.sock[k] = "up"], k, "connected", "good")
     \/ net' = Put([net EXCEPT !.sock[k] = "closed"], k, "fail", "bad")
  /\ UNCHANGED <<site, conn, cst>>

\* Data arrives; a connector tells only the welcome from the rest
SocketData(k) ==
  /\ Room /\ net.sock[k] \in {"up", "closing"}
  /\ \E reply \in IF net.owner[k] = "conn" THEN Replies ELSE {"good", "bad"} :
       net' = Put(net, k, "data", reply)
  /\ UNCHANGED <<site, conn, cst>>

\* A TLS negotiation ends well
SocketSecure(k) ==
  /\ Room /\ net.sock[k] = "negotiating"
  /\ net' = Put([net EXCEPT !.sock[k] = "up"], k, "ssl", "good")
  /\ UNCHANGED <<site, conn, cst>>

\* The other end, or a failing negotiation, closes the socket; a closing one is done
SocketCloses(k) ==
  /\ Room
  /\ \/ net.sock[k] \in {"up", "negotiating", "closing"}
        /\ net' = Put([net EXCEPT !.sock[k] = "closed"], k, "disconnected", "bad")
     \/ net.sock[k] = "closing" /\ net' = [net EXCEPT !.sock[k] = "closed"]
  /\ UNCHANGED <<site, conn, cst>>

-----------------------------------------------------------------------------
\* The worker

\* One event is handled
Dispatch ==
  /\ net.queue # << >>
  /\ \E work \in IF Head(net.queue).to = "conn" THEN Work ELSE {"nothing"}, how \in CloseWays :
       Become(Handle([Now EXCEPT !.net.queue = Tail(@)], Head(net.queue), work, how))

\* SiteLogic::activateAll for this connection: log in, or look for work
Activate ==
  \/ conn.state = "DISCONNECTED" /\ Become(login(ClearCommand(Now)))
  \/ conn.state # "DISCONNECTED" /\ \E work \in Work : Become(handleConnection(Now, work))

\* SiteLogic::disconnectConn, from the user or a transfer monitor
Disconnect == \E hard \in BOOLEAN, how \in CloseWays : Become(disconnectConn(Now, hard, how))

\* The other side of a transfer this connection waits for is ready
TransferGoesOn ==
  /\ cst.locked /\ ~conn.processing
  /\ \/ Become(ClearCommand(Send(Now, "COMMAND")))
     \/ Become([Now EXCEPT !.cst.locked = FALSE])

\* An idle request is ready: SiteLogic::handleRequest, REQ_IDLE
IdleRequest ==
  /\ cst.loggedin /\ ~cst.quitting /\ ~cst.locked /\ ~conn.processing
  /\ \E work \in Work, command \in {"quit", "antiantiidle"} :
       LET s == handleConnection(ClearCommand(Now), work)
       IN  Become(IF s.conn.processing THEN s ELSE delayedCommand(s, command, FALSE))

\* FTPConnect::tickIntern of each connector; those whose welcome message is late fail
tickIntern(s) ==
  LET late(k) == k \in s.conn.list /\ s.net.ctr[k].waited + 1 >= WelcomeTicks
      t == [s EXCEPT !.net.ctr = [k \in Ids |->
              [s.net.ctr[k] EXCEPT !.waited = IF k \notin s.conn.list THEN @
                                              ELSE IF late(k) THEN WelcomeTicks ELSE @ + 1]]]
      failed == {k \in s.conn.list : late(k) /\ s.net.ctr[k].engaged /\ s.net.ctr[k].connected}
  IN  ftpConnectFail(disengage(t, failed), failed, "closed")

\* FTPConn::tick, called while it is poked
ConnTick ==
  /\ conn.poke > 0
  /\ LET s == tickIntern(Now)
         t == IF s.conn.state = "CONNECTING" /\ ~s.conn.all THEN connectAllAddresses(s) ELSE s
     IN  Become(IF t.conn.list = {} THEN stopPoke(t) ELSE t)

\* SiteLogic::antiAntiIdle: work, or else a file list request
antiAntiIdle(s, work) ==
  LET t == handleConnection(s, work)
  IN  IF t.cst.locked \/ t.conn.processing THEN t ELSE handleConnection(t, "command")

\* SiteLogic::tick releases the delayed command; its assertion is a property below
CommandReleased ==
  /\ cst.command # "none"
  /\ \E work \in Work, how \in CloseWays :
       LET s == ClearCommand(Now)
       IN  Become(CASE cst.command = "reconnect" -> login(disconnect(s, how))
                    [] cst.command = "antiantiidle" -> antiAntiIdle(s, work)
                    [] cst.command = "quit" -> disconnectConn(s, FALSE, how))

ConnectNext ==
  \/ \E k \in Ids : SocketConnects(k) \/ SocketData(k) \/ SocketSecure(k) \/ SocketCloses(k)
  \/ Dispatch \/ Activate \/ Disconnect \/ TransferGoesOn \/ IdleRequest \/ ConnTick \/ CommandReleased

ConnectSpec == ConnectInit /\ [][ConnectNext]_cvars

-----------------------------------------------------------------------------
\* Properties

\* Types.
ConnTypeOK ==
  /\ site \in Sites
  /\ conn.state \in ConnStates /\ conn.processing \in BOOLEAN /\ conn.sock \in Ids \cup {NoSock}
  /\ conn.list \subseteq Ids /\ conn.poke \in Nat
  /\ net.sock \in [Ids -> SocketState] /\ net.owner \in [Ids -> {"connector", "conn"}]
  /\ net.ctr \in [Ids -> Connector] /\ net.queue \in Seq(Event)
  /\ cst.command \in Delayed

\* The connection is poked once while it connects and not otherwise, so no tick
\* of an earlier attempt is left running and none is missing.
PokedWhileConnecting ==
  ~net.stale => conn.poke = IF conn.state = "CONNECTING" THEN 1 ELSE 0

\* No socket is forgotten: an open one is the connection's own or that of an
\* engaged connector the connection still knows, and so can be closed.
NoSocketForgotten ==
  ~net.stale =>
  \A k \in Ids : net.sock[k] \in {"connecting", "up", "negotiating"} =>
    \/ conn.sock = k /\ conn.state \notin {"DISCONNECTED", "CONNECTING"}
    \/ net.ctr[k].engaged /\ k \in conn.list /\ conn.state = "CONNECTING"

\* A connector that fails is found in the list (FTPConn::ftpConnectFail asserts it),
\* and a connecting connection has something to wait for.
AttemptsKnown ==
  ~net.stale =>
  /\ conn.state = "CONNECTING" => conn.list # {} /\ \A k \in conn.list : net.ctr[k].engaged
  /\ \A k \in Ids : net.ctr[k].engaged => k \in conn.list

\* A delayed command is released on a connection that is neither locked nor
\* processing (the assertion in SiteLogic::tick) unless it was set on a busy one.
ReleasedWhenFree ==
  cst.command # "none" /\ ~cst.early => ~cst.locked /\ ~conn.processing

\* A connection that waits for an answer has a socket that can bring it, or the
\* news of its end is on the way to it.
AnswerCanCome ==
  conn.processing /\ conn.state \notin {"DISCONNECTED", "CONNECTING"} /\ ~net.stale /\ ~net.deaf =>
    \/ net.sock[conn.sock] \in {"up", "negotiating"}
    \/ \E i \in DOMAIN net.queue : net.queue[i].to = "conn" /\ net.queue[i].sock = conn.sock
                                     /\ net.queue[i].kind = "disconnected"

\* The same without the exception for a handover that overtakes the disconnect,
\* as the description of IOManager's events promises.
DisconnectTold ==
  conn.processing /\ conn.state \notin {"DISCONNECTED", "CONNECTING"} /\ ~net.stale =>
    \/ net.sock[conn.sock] \in {"up", "negotiating"}
    \/ \E i \in DOMAIN net.queue : net.queue[i].to = "conn" /\ net.queue[i].sock = conn.sock
                                     /\ net.queue[i].kind = "disconnected"

\* An attempt without a proxy has an end: every connector still waits for its
\* socket (IOManager's connect timeout), for the welcome message (tickIntern's
\* timeout), or for an event that will make it fail.
AttemptsEnd ==
  conn.state = "CONNECTING" /\ site.proxy = "none" /\ ~net.stale =>
  \A k \in conn.list :
    LET Queued(kinds) == \E i \in DOMAIN net.queue : net.queue[i].sock = k /\ net.queue[i].kind \in kinds
    IN  \/ net.sock[k] = "connecting"
        \/ net.sock[k] \in {"up", "negotiating"} /\ (net.ctr[k].connected \/ Queued({"connected"}))
        \/ Queued({"fail", "disconnected"})

\* Connectors, sockets, the poke and the state of the connection agree through
\* every race of attempts, so that an attempt and a command have an end.
ConnectInv ==
  /\ ConnTypeOK /\ PokedWhileConnecting /\ NoSocketForgotten /\ AttemptsKnown
  /\ ReleasedWhenFree /\ AnswerCanCome /\ AttemptsEnd
=============================================================================
