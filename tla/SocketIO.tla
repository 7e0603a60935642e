------------------------------ MODULE SocketIO ------------------------------
(***************************************************************************)
(* One TCP socket of IOManager from its registration to its removal: name  *)
(* resolution, connecting with its timer, the send queue, the negotiation  *)
(* of TLS, pausing, lingering while the queue is sent, and what epoll is   *)
(* told to watch.  The thread of the I/O manager, the users of the socket  *)
(* and the tick take turns under socketinfomaplock.                        *)
(*                                                                         *)
(* The queue holds pieces of data; a write takes some of them.  The users  *)
(* of the repository send over a socket that is registered with            *)
(* listenimmediately = false only when TLS is up, and begin to negotiate   *)
(* when all they sent has been answered.                                   *)
(***************************************************************************)
EXTENDS Naturals, Sequences, SequencesExt

CONSTANTS
  MaxSends,   \* bound: calls of sendData
  MaxPauses   \* bound: calls of pause, and events the workers cannot take

ASSUME SocketIOAssumption == MaxSends \in Nat /\ MaxPauses \in Nat

VARIABLES
  sock,   \* the SocketInfo and the entries of the other tables for its id
  peer,   \* what has reached the other end, and whether it has closed
  client  \* what the user of the socket did, and the events it was sent

sockVars == <<sock, peer, client>>

Plain == {"TCP_PLAIN", "TCP_PLAIN_LISTEN"}
SocketType ==
  Plain \cup {"UNUSED", "TCP_SSL", "TCP_SSL_NEG", "TCP_SSL_NEG_REDO", "TCP_CONNECTING", "TCP_RESOLVING"}
Watch == {"NONE", "IN", "OUT"}

SockInit ==
  /\ sock = [live |-> FALSE, type |-> "UNUSED", listen |-> TRUE, watched |-> "NONE", direction |-> "IN",
             auto |-> FALSE, manual |-> FALSE, paused |-> FALSE, queue |-> << >>, closing |-> FALSE, timed |-> FALSE]
  /\ peer = [got |-> << >>, gone |-> FALSE]
  /\ client = [began |-> FALSE, sends |-> 0, pauses |-> 0, closed |-> FALSE, failed |-> FALSE, told |-> [e \in {"Connected", "SSLSuccess", "Final"} |-> 0]]

-----------------------------------------------------------------------------
\* Polling: adding a descriptor that is watched, and changing one that is not, fail in
\* epoll_ctl, and nobody looks at the result
addFD(s, d) == IF s.watched = "NONE" THEN [s EXCEPT !.watched = d] ELSE s
setFD(s, d) == IF s.watched = "NONE" THEN s ELSE [s EXCEPT !.watched = d]

\* IOManager::pollRead and pollWrite, setPollRead and setPollWrite
poll(s, d) == IF s.paused THEN [s EXCEPT !.direction = d] ELSE addFD([s EXCEPT !.direction = d], d)
setPoll(s, d) == IF s.paused THEN [s EXCEPT !.direction = d] ELSE setFD([s EXCEPT !.direction = d], d)

\* IOManager::autoPause
autoPause(s) == [s EXCEPT !.auto = TRUE, !.paused = TRUE, !.watched = "NONE"]

\* IOManager::closeSocketIntern
closeSocketIntern(s) ==
  [s EXCEPT !.live = FALSE, !.watched = "NONE", !.queue = << >>, !.timed = FALSE, !.auto = FALSE, !.manual = FALSE]

\* An event for the user of the socket
Tell(e) == client' = [client EXCEPT !.told[e] = @ + 1]
TellUnlessClosing(e) == IF sock.closing THEN UNCHANGED client ELSE Tell(e)

-----------------------------------------------------------------------------
\* Connecting

\* IOManager::registerTCPClientSocket: the host has to be resolved by another thread, or
\* the address is numeric and connecting begins at once
registerTCPClientSocket(listen, numeric) ==
  /\ ~client.began
  /\ client' = [client EXCEPT !.began = TRUE]
  /\ LET new == [sock EXCEPT !.live = TRUE, !.listen = listen, !.timed = TRUE] IN
     sock' = IF numeric THEN poll([new EXCEPT !.type = "TCP_CONNECTING"], "OUT") ELSE [new EXCEPT !.type = "TCP_RESOLVING"]
  /\ UNCHANGED peer

\* IOManager::handleTCPServerIn and registerTCPServerClientSocket
Accepted(listen) ==
  /\ ~client.began
  /\ client' = [client EXCEPT !.began = TRUE, !.told["Connected"] = 1]
  /\ LET new == [sock EXCEPT !.live = TRUE, !.listen = listen, !.type = "TCP_PLAIN_LISTEN"] IN
     sock' = IF listen THEN poll(new, "IN") ELSE new
  /\ UNCHANGED peer

\* IOManager::asyncTaskComplete, handleTCPNameResolution
handleTCPNameResolution ==
  /\ sock.live /\ sock.type = "TCP_RESOLVING"
  /\ sock' = poll([sock EXCEPT !.type = "TCP_CONNECTING", !.timed = TRUE], "OUT")
  /\ UNCHANGED <<peer, client>>

\* ... no such host, or no address to bind to
NameResolutionFails ==
  /\ sock.live /\ sock.type = "TCP_RESOLVING"
  /\ sock' = closeSocketIntern(sock) /\ UNCHANGED peer
  /\ \E told \in {TRUE, ~sock.closing} :
       client' = [client EXCEPT !.failed = TRUE, !.told["Final"] = IF told THEN @ + 1 ELSE @]

\* What becomes of the socket once it is connected
NowConnected(s) == [s EXCEPT !.type = "TCP_PLAIN", !.timed = FALSE]

\* IOManager::handleTCPConnectingOut
handleTCPConnectingOut ==
  /\ sock.live /\ sock.type = "TCP_CONNECTING" /\ sock.watched = "OUT"
  /\ UNCHANGED peer
  /\ LET s == NowConnected(sock) IN
     \/ /\ TellUnlessClosing("Connected")
        /\ sock' = IF s.closing /\ (s.queue = << >> \/ ~s.listen) THEN closeSocketIntern(s)
                   ELSE IF ~s.listen THEN [s EXCEPT !.watched = "NONE"]
                   ELSE IF s.queue = << >> THEN setPoll(s, "IN") ELSE s
     \/ /\ sock' = closeSocketIntern(sock)
        /\ client' = [client EXCEPT !.failed = TRUE, !.told["Final"] = IF sock.closing THEN @ ELSE @ + 1]

\* IOManager::tick: the timer of a socket that is not connected runs out
ConnectTimeout ==
  /\ sock.live /\ sock.timed
  /\ sock' = closeSocketIntern(sock) /\ UNCHANGED peer
  /\ client' = [client EXCEPT !.failed = TRUE, !.told["Final"] = IF sock.closing THEN @ ELSE @ + 1]

-----------------------------------------------------------------------------
\* The user of the socket

\* TCP or TLS is up for the user, as far as it was told
MaySend ==
  IF client.told["SSLSuccess"] > 0 THEN TRUE
  ELSE sock.listen /\ sock.type \notin {"TCP_SSL_NEG", "TCP_SSL_NEG_REDO", "TCP_SSL"}

sendDataUnwatched ==
  /\ sock.live /\ ~client.closed /\ MaySend /\ client.sends < MaxSends
  /\ client' = [client EXCEPT !.sends = @ + 1]
  /\ sock' = [sock EXCEPT !.queue = @ \o <<2 * client.sends + 1, 2 * client.sends + 2>>]
  /\ UNCHANGED peer

\* IOManager::sendData of two pieces
sendData ==
  /\ sock.live /\ ~client.closed /\ MaySend /\ client.sends < MaxSends
  /\ client' = [client EXCEPT !.sends = @ + 1]
  /\ LET s == [sock EXCEPT !.queue = @ \o <<2 * client.sends + 1, 2 * client.sends + 2>>] IN
     sock' = IF s.type \in Plain \cup {"TCP_SSL"} THEN setPoll(s, "OUT") ELSE s
  /\ UNCHANGED peer

\* IOManager::negotiateSSLConnect, negotiateSSLConnectParent and negotiateSSLAccept
negotiateSSL ==
  /\ sock.live /\ sock.type \in Plain /\ sock.queue = << >> /\ client.told["Connected"] > 0 /\ ~client.closed
  /\ LET s == [sock EXCEPT !.type = "TCP_SSL_NEG"] IN
     sock' = IF s.listen THEN setPoll(s, "OUT") ELSE poll(s, "OUT")
  /\ UNCHANGED <<peer, client>>

\* IOManager::closeSocket
closeSocket ==
  /\ sock.live /\ ~client.closed
  /\ client' = [client EXCEPT !.closed = TRUE]
  /\ sock' = IF sock.queue # << >> THEN [sock EXCEPT !.closing = TRUE] ELSE closeSocketIntern(sock)
  /\ UNCHANGED peer

\* IOManager::pause and resume
pause ==
  /\ sock.live /\ ~sock.manual /\ client.pauses < MaxPauses
  /\ sock.type \in Plain \cup {"TCP_SSL"} /\ (sock.listen \/ sock.type = "TCP_SSL")
  /\ client' = [client EXCEPT !.pauses = @ + 1]
  /\ sock' = [sock EXCEPT !.manual = TRUE, !.paused = TRUE, !.watched = "NONE"]
  /\ UNCHANGED peer

Unpaused(s) == addFD([s EXCEPT !.paused = FALSE], s.direction)

resume ==
  /\ sock.live /\ sock.manual
  /\ LET s == [sock EXCEPT !.manual = FALSE] IN sock' = IF s.auto THEN s ELSE Unpaused(s)
  /\ UNCHANGED <<peer, client>>

\* IOManager::workerReady
workerReady ==
  /\ sock.live /\ sock.auto
  /\ LET s == [sock EXCEPT !.auto = FALSE] IN sock' = IF s.manual THEN s ELSE Unpaused(s)
  /\ UNCHANGED <<peer, client>>

-----------------------------------------------------------------------------
\* Data

\* The other end closes
PeerCloses ==
  /\ sock.live /\ sock.type \notin {"TCP_RESOLVING", "TCP_CONNECTING"} /\ ~peer.gone
  /\ peer' = [peer EXCEPT !.gone = TRUE] /\ UNCHANGED <<sock, client>>

\* IOManager::handleTCPPlainIn, handleTCPSSLIn: the workers may be unable to take more
handleIn ==
  /\ sock.live /\ sock.type \in Plain \cup {"TCP_SSL"} /\ sock.watched = "IN" /\ ~peer.gone
  /\ client.pauses < MaxPauses
  /\ client' = [client EXCEPT !.pauses = @ + 1]
  /\ sock' = autoPause(sock) /\ UNCHANGED peer

\* ... the other end has closed
DisconnectedIn ==
  /\ sock.live /\ sock.type \in Plain \cup {"TCP_SSL"} /\ sock.watched = "IN" /\ peer.gone
  /\ Tell("Final")
  /\ sock' = closeSocketIntern(sock) /\ UNCHANGED peer

\* IOManager::handleTCPPlainOut, handleTCPSSLOut: the first n pieces can be written
handleOut(n) ==
  /\ sock.live /\ sock.type \in Plain \cup {"TCP_SSL"} /\ sock.watched = "OUT" /\ ~peer.gone /\ n <= Len(sock.queue)
  /\ peer' = [peer EXCEPT !.got = @ \o SubSeq(sock.queue, 1, n)]
  /\ LET s == [sock EXCEPT !.queue = SubSeq(@, n + 1, Len(@))] IN
     sock' = IF s.queue # << >> THEN s ELSE IF s.closing THEN closeSocketIntern(s) ELSE setPoll(s, "IN")
  /\ UNCHANGED client

\* ... the write fails
WriteFails ==
  /\ sock.live /\ sock.type \in Plain \cup {"TCP_SSL"} /\ sock.watched = "OUT" /\ sock.queue # << >> /\ peer.gone
  /\ TellUnlessClosing("Final")
  /\ sock' = closeSocketIntern(sock) /\ UNCHANGED peer

\* IOManager::handleTCPSSLNegotiationOut with an empty queue: the handshake is begun and
\* goes on when the other end answers, is over at once, or fails
handleTCPSSLNegotiationOut ==
  /\ sock.live /\ sock.type = "TCP_SSL_NEG" /\ sock.watched = "OUT" /\ UNCHANGED peer
  /\ \/ sock' = setPoll([sock EXCEPT !.type = "TCP_SSL_NEG_REDO"], "IN") /\ UNCHANGED client
     \/ /\ ~peer.gone /\ TellUnlessClosing("SSLSuccess")
        /\ LET s == [sock EXCEPT !.type = "TCP_SSL"] IN sock' = IF s.queue # << >> THEN s ELSE setPoll(s, "IN")
     \/ TellUnlessClosing("Final") /\ sock' = closeSocketIntern(sock)

\* IOManager::handleTCPSSLNegotiationIn
handleTCPSSLNegotiationIn ==
  /\ sock.live /\ sock.type = "TCP_SSL_NEG_REDO" /\ sock.watched = "IN" /\ UNCHANGED peer
  /\ \/ /\ ~peer.gone /\ TellUnlessClosing("SSLSuccess")
        /\ LET s == [sock EXCEPT !.type = "TCP_SSL"] IN sock' = IF s.queue = << >> THEN s ELSE setPoll(s, "OUT")
     \/ TellUnlessClosing("Final") /\ sock' = closeSocketIntern(sock)

SockNext ==
  \/ \E listen, numeric \in BOOLEAN : registerTCPClientSocket(listen, numeric)
  \/ \E listen \in BOOLEAN : Accepted(listen)
  \/ handleTCPNameResolution \/ NameResolutionFails \/ handleTCPConnectingOut \/ ConnectTimeout
  \/ sendData \/ negotiateSSL \/ closeSocket \/ pause \/ resume \/ workerReady
  \/ PeerCloses \/ handleIn \/ DisconnectedIn \/ \E n \in 0..(2 * MaxSends) : handleOut(n)
  \/ WriteFails \/ handleTCPSSLNegotiationOut \/ handleTCPSSLNegotiationIn

SockSpec == SockInit /\ [][SockNext]_sockVars

-----------------------------------------------------------------------------
Erased == client.began /\ ~sock.live
Sent == [i \in 1..(2 * client.sends) |-> i]

\* Type invariant of the socket.
SockTypeOK ==
  /\ sock.type \in SocketType /\ sock.watched \in Watch /\ sock.direction \in {"IN", "OUT"}
  /\ sock.queue \in Seq(1..(2 * MaxSends)) /\ peer.got \in Seq(1..(2 * MaxSends))
  /\ \A b \in {sock.live, sock.listen, sock.auto, sock.manual, sock.paused, sock.closing, sock.timed} : b \in BOOLEAN
  /\ sock.paused = (sock.auto \/ sock.manual) \/ ~sock.live

\* Nothing that was sent is lost, doubled or overtaken: what has arrived and what is still
\* queued is what was sent, in its order, through partial writes, the change to TLS and
\* pauses (IOManager::sendData, handleTCPPlainOut, handleTCPSSLOut).
SentInOrder ==
  /\ IsPrefix(peer.got, Sent)
  /\ sock.live => peer.got \o sock.queue = Sent

\* A socket that is not paused is watched for what it waits for, so that no data stays in
\* its queue, no negotiation stays where it is and no end of the connection goes
\* unnoticed: epoll ignores a change of a descriptor that is not watched (Polling).
WatchedForWork ==
  LET Wants == CASE sock.type \in {"TCP_CONNECTING", "TCP_SSL_NEG"} -> {"OUT"}
                 [] sock.type = "TCP_SSL_NEG_REDO" -> {"IN"}
                 [] sock.type = "TCP_SSL" -> IF sock.queue = << >> THEN {"IN"} ELSE {"OUT"}
                 [] sock.type \in Plain -> IF ~sock.listen THEN {"NONE"} ELSE IF sock.queue = << >> THEN {"IN"} ELSE {"OUT"}
                 [] OTHER -> {"NONE"}
  IN sock.live => sock.watched \in IF sock.paused THEN {"NONE"} ELSE Wants

\* The user hears of the end of its socket once, and if it has not closed it the socket
\* never ends in silence (the FDFail and FDDisconnected events that iomanager.h promises).
EndToldOnce ==
  /\ client.told["Final"] <= 1
  /\ sock.live => client.told["Final"] = 0
  /\ Erased /\ ~client.closed => client.told["Final"] = 1

\* A closed socket stays until its send queue is empty, unless the connection or the
\* attempt to connect fails (IOManager::closeSocket).
ClosesWhenSent == Erased /\ client.closed /\ ~peer.gone /\ ~client.failed /\ client.told["Final"] = 0 => peer.got = Sent

\* The timer of the connection attempt runs for no socket that is connected: tick would
\* close it (connecttimemap, IOManager::tick).
TimedWhileConnecting == sock.timed <=> sock.live /\ sock.type \in {"TCP_RESOLVING", "TCP_CONNECTING"}

\* A socket loses no byte, no interest in its events and no end, and is timed
\* for as long as it connects.
SocketInv ==
  /\ SockTypeOK /\ SentInOrder /\ WatchedForWork /\ EndToldOnce
  /\ ClosesWhenSent /\ TimedWhileConnecting
=============================================================================
