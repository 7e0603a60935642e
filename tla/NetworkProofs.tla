---------------------------- MODULE NetworkProofs ----------------------------
(***************************************************************************)
(* Proofs about what the worker hears from: SocketIO, SignalEvents, and    *)
(* the FileLists that listings fill.                                       *)
(*                                                                         *)
(* SocketIO, for any number of sends and pauses: no byte is lost or        *)
(* overtaken, a socket is watched for what it waits for, its end is told   *)
(* once, and closing waits for the queue.                                  *)
(*                                                                         *)
(* SocketInv is not inductive.  SockStrong adds what the code relies on    *)
(* without saying: a paused socket remembers the direction it has to be    *)
(* watched for, the queue is empty while TLS is negotiated and on a socket *)
(* that does not listen, and a socket that lingers has something to send.  *)
(***************************************************************************)
EXTENDS SocketIO, SignalEvents, FileLists, SequenceTheorems, FiniteSetTheorems, TLAPS

Bytes == 1..(2 * MaxSends)
Events == {"Connected", "SSLSuccess", "Final"}
SockRec == [live : BOOLEAN, type : SocketType, listen : BOOLEAN, watched : Watch,
            direction : {"IN", "OUT"}, auto : BOOLEAN, manual : BOOLEAN, paused : BOOLEAN,
            queue : Seq(Bytes), closing : BOOLEAN, timed : BOOLEAN]
PeerRec == [got : Seq(Bytes), gone : BOOLEAN]
ClientRec == [began : BOOLEAN, sends : 0..MaxSends, pauses : Nat, closed : BOOLEAN,
              failed : BOOLEAN, told : [Events -> Nat]]

\* What epoll has to watch for a socket that is not paused.
Wanted ==
  IF sock.type \in {"TCP_CONNECTING", "TCP_SSL_NEG"} THEN "OUT"
  ELSE IF sock.type = "TCP_SSL_NEG_REDO" THEN "IN"
  ELSE IF sock.type = "TCP_SSL" \/ (sock.type \in Plain /\ sock.listen)
       THEN IF sock.queue = << >> THEN "IN" ELSE "OUT"
  ELSE "NONE"

SockTypes == sock \in SockRec /\ peer \in PeerRec /\ client \in ClientRec

\* Before the socket is registered.
Fresh ==
  /\ ~sock.live /\ sock.watched = "NONE" /\ sock.queue = << >>
  /\ ~sock.auto /\ ~sock.manual /\ ~sock.paused /\ ~sock.closing /\ ~sock.timed
  /\ client.sends = 0 /\ ~client.closed /\ \A e \in Events : client.told[e] = 0
  /\ peer.got = << >>

\* While it is registered.
Living ==
  /\ client.began
  /\ (sock.paused <=> sock.auto \/ sock.manual)
  /\ sock.watched = IF sock.paused THEN "NONE" ELSE Wanted
  /\ sock.paused \/ Wanted # "NONE" => sock.direction = Wanted
  /\ (sock.timed <=> sock.type \in {"TCP_RESOLVING", "TCP_CONNECTING"})
  /\ sock.timed => ~sock.paused
  /\ sock.type # "UNUSED"
  /\ (sock.closing <=> client.closed)
  /\ sock.closing => sock.queue # << >>
  /\ sock.type \in {"TCP_SSL_NEG", "TCP_SSL_NEG_REDO"} => sock.queue = << >>
  /\ ~sock.listen /\ sock.type # "TCP_SSL" => sock.queue = << >>
  /\ client.told["SSLSuccess"] > 0 => sock.type = "TCP_SSL"
  /\ client.told["Final"] = 0
  /\ peer.got \o sock.queue = Sent

\* When it has gone.
Gone ==
  /\ ~sock.timed /\ client.told["Final"] <= 1
  /\ ~client.closed => client.told["Final"] = 1
  /\ client.closed /\ ~peer.gone /\ ~client.failed /\ client.told["Final"] = 0 => peer.got = Sent

SockStrong ==
  /\ SockTypes
  /\ ~client.began => Fresh
  /\ sock.live => Living
  /\ Erased => Gone
  /\ IsPrefix(peer.got, Sent)

-----------------------------------------------------------------------------
(***************************************************************************)
(* What the operations on the tables change.                               *)
(***************************************************************************)
\* The fields no call of Polling touches.
SameBut(s, t) ==
  /\ t.live = s.live /\ t.type = s.type /\ t.listen = s.listen /\ t.auto = s.auto
  /\ t.manual = s.manual /\ t.paused = s.paused /\ t.queue = s.queue
  /\ t.closing = s.closing /\ t.timed = s.timed

\* pollRead and pollWrite remember the direction and watch what is not watched.
LEMMA PollFacts ==
  ASSUME NEW s \in SockRec, NEW d \in {"IN", "OUT"}
  PROVE  /\ poll(s, d) \in SockRec /\ SameBut(s, poll(s, d)) /\ poll(s, d).direction = d
         /\ poll(s, d).watched = IF s.paused \/ s.watched # "NONE" THEN s.watched ELSE d
BY DEF poll, addFD, SockRec, SameBut, Watch

\* setPollRead and setPollWrite change what is watched.
LEMMA SetPollFacts ==
  ASSUME NEW s \in SockRec, NEW d \in {"IN", "OUT"}
  PROVE  /\ setPoll(s, d) \in SockRec /\ SameBut(s, setPoll(s, d)) /\ setPoll(s, d).direction = d
         /\ setPoll(s, d).watched = IF s.paused \/ s.watched = "NONE" THEN s.watched ELSE d
BY DEF setPoll, setFD, SockRec, SameBut, Watch

\* closeSocketIntern leaves a socket that is neither there nor timed.
LEMMA CloseFacts ==
  ASSUME NEW s \in SockRec
  PROVE  /\ closeSocketIntern(s) \in SockRec /\ ~closeSocketIntern(s).live
         /\ ~closeSocketIntern(s).timed
<1>1. << >> \in Seq(Bytes)
  BY EmptySeq
<1> QED BY <1>1 DEF closeSocketIntern, SockRec, Watch

\* An event is counted, and nothing else of the client changes.
LEMMA TellFacts ==
  ASSUME SockTypes, NEW e \in Events, Tell(e)
  PROVE  /\ client' \in ClientRec /\ client'.began = client.began /\ client'.sends = client.sends
         /\ client'.closed = client.closed /\ client'.failed = client.failed
         /\ \A f \in Events : client'.told[f] = IF f = e THEN client.told[e] + 1 ELSE client.told[f]
BY DEF SockTypes, Tell, ClientRec

\* An attempt to connect fails.
LEMMA FailFacts ==
  ASSUME SockTypes, NEW n \in Nat,
         client' = [client EXCEPT !.failed = TRUE, !.told["Final"] = n]
  PROVE  /\ client' \in ClientRec /\ client'.began = client.began /\ client'.sends = client.sends
         /\ client'.closed = client.closed /\ client'.failed /\ client'.told["Final"] = n
<1> DEFINE t == [client.told EXCEPT !["Final"] = n]
<1>1. client \in ClientRec /\ client.told \in [Events -> Nat]
  BY DEF SockTypes, ClientRec
<1>2. t \in [Events -> Nat] /\ t["Final"] = n
  BY <1>1 DEF Events
<1>3. client' = [client EXCEPT !.failed = TRUE, !.told = t]
  BY <1>1
<1> HIDE DEF t
<1> QED BY <1>1, <1>2, <1>3 DEF ClientRec

-----------------------------------------------------------------------------
(***************************************************************************)
(* Sequences.                                                              *)
(***************************************************************************)
LEMMA SentSeq ==
  ASSUME SockTypes
  PROVE  Sent \in Seq(Bytes) /\ Len(Sent) = 2 * client.sends
         /\ \A i \in 1..(2 * client.sends) : Sent[i] = i
<1>1. client.sends \in 0..MaxSends /\ MaxSends \in Nat
  BY SocketIOAssumption DEF SockTypes, ClientRec
<1>2. 2 * client.sends \in Nat /\ \A i \in 1..(2 * client.sends) : i \in Bytes
  BY <1>1 DEF Bytes
<1> QED BY <1>1, <1>2 DEF Sent, Bytes

\* Before the first send nothing has been sent.
LEMMA NothingSent ==
  ASSUME client'.sends = 0
  PROVE  Sent' = << >>
<1>1. Sent' = [i \in 1..0 |-> i]
  BY DEF Sent
<1>2. Sent' \in Seq({}) /\ Len(Sent') = 0
  BY <1>1
<1> QED BY <1>2, EmptySeq

\* A sequence is a prefix of what it begins.
LEMMA PrefixOfConcat ==
  ASSUME NEW S, NEW s \in Seq(S), NEW t \in Seq(S)
  PROVE  IsPrefix(s, s \o t)
<1>1. /\ s \o t \in Seq(S) /\ Len(s \o t) = Len(s) + Len(t) /\ Len(s) \in Nat /\ Len(t) \in Nat
      /\ \A i \in 1..(Len(s) + Len(t)) : (s \o t)[i] = IF i <= Len(s) THEN s[i] ELSE t[i - Len(s)]
  BY ConcatProperties, LenProperties
<1>2. \A i \in 1..Len(s) : (s \o t)[i] = s[i] /\ s[i] \in S
  BY <1>1, ElementOfSeq
<1>3. /\ SubSeq(s \o t, 1, Len(s)) \in Seq(S) /\ Len(SubSeq(s \o t, 1, Len(s))) = Len(s)
      /\ \A i \in 1..Len(s) : SubSeq(s \o t, 1, Len(s))[i] = s[i]
  <2>1. \A i \in 1..Len(s) : (s \o t)[i] \in S
    BY <1>2
  <2>2. Len(s) \in Int /\ 1 \in Int
    BY <1>1
  <2>3. /\ SubSeq(s \o t, 1, Len(s)) \in Seq(S)
        /\ Len(SubSeq(s \o t, 1, Len(s))) = IF 1 <= Len(s) THEN Len(s) - 1 + 1 ELSE 0
        /\ \A i \in 1..(Len(s) - 1 + 1) : SubSeq(s \o t, 1, Len(s))[i] = (s \o t)[1 + i - 1]
    BY <2>1, <2>2, SubSeqProperties
  <2> QED BY <1>1, <1>2, <2>3
<1>4. SubSeq(s \o t, 1, Len(s)) = s
  BY <1>3, SeqEqual
<1>5. SubSeq(s, 1, Len(s)) = s
  BY SubSeqFull
<1> QED BY <1>1, <1>4, <1>5 DEF IsPrefix

-----------------------------------------------------------------------------
(***************************************************************************)
(* A step leaves the socket registered, or removes it.                     *)
(***************************************************************************)
LEMMA StaysRegistered ==
  ASSUME SockTypes', sock'.live, Living'
  PROVE  SockStrong'
<1>1. peer'.got \in Seq(Bytes) /\ sock'.queue \in Seq(Bytes)
  BY DEF SockTypes, PeerRec, SockRec
<1>2. IsPrefix(peer'.got, peer'.got \o sock'.queue)
  BY <1>1, PrefixOfConcat
<1>3. IsPrefix(peer.got, Sent)'
  BY <1>2 DEF Living
<1> QED BY <1>3 DEF SockStrong, Living, Erased

\* The socket goes, and nothing has been written.
LEMMA IsRemoved ==
  ASSUME SockStrong, SockTypes', ~sock'.live, Gone', client'.began,
         peer'.got = peer.got, client'.sends = client.sends
  PROVE  SockStrong'
<1>1. Sent' = Sent
  BY DEF Sent
<1> QED BY <1>1 DEF SockStrong, Erased

\* The last pieces are written and the socket goes.
LEMMA SentAndRemoved ==
  ASSUME SockTypes', ~sock'.live, Gone', client'.began, peer'.got = Sent'
  PROVE  SockStrong'
<1>1. peer'.got \in Seq(Bytes) /\ << >> \in Seq(Bytes)
  BY EmptySeq DEF SockTypes, PeerRec
<1>2. IsPrefix(peer'.got, peer'.got \o << >>)
  BY <1>1, PrefixOfConcat
<1>3. peer'.got \o << >> = peer'.got
  BY <1>1, ConcatEmptySeq
<1> QED BY <1>2, <1>3 DEF SockStrong, Erased

\* The socket goes after a failure that its user hears of, unless it has closed it.
LEMMA IsRemovedOnFailure ==
  ASSUME SockStrong, sock.live, sock' = closeSocketIntern(sock), peer' = peer, client' \in ClientRec,
         client'.began = client.began, client'.sends = client.sends, client'.closed = client.closed,
         client'.failed \/ peer.gone \/ client'.told["Final"] = 1,
         client'.told["Final"] \in {0, 1}, ~client.closed => client'.told["Final"] = 1
  PROVE  SockStrong'
<1>1. SockTypes' /\ ~sock'.live /\ ~sock'.timed
  BY CloseFacts DEF SockStrong, SockTypes
<1>2. Gone'
  BY <1>1 DEF Gone
<1> QED BY <1>1, <1>2, IsRemoved DEF SockStrong, Living

-----------------------------------------------------------------------------
(***************************************************************************)
(* Connecting.                                                             *)
(***************************************************************************)
LEMMA Strong_Register ==
  ASSUME SockStrong, NEW listen \in BOOLEAN, NEW numeric \in BOOLEAN, registerTCPClientSocket(listen, numeric)
  PROVE  SockStrong'
<1> DEFINE new == [sock EXCEPT !.live = TRUE, !.listen = listen, !.timed = TRUE]
           conn == [new EXCEPT !.type = "TCP_CONNECTING"]
           reso == [new EXCEPT !.type = "TCP_RESOLVING"]
<1>1. Fresh /\ SockTypes
  BY DEF SockStrong, registerTCPClientSocket
<1>2. conn \in SockRec /\ reso \in SockRec
  BY <1>1 DEF SockTypes, SockRec, SocketType
<1>3. /\ client' \in ClientRec /\ client'.began /\ client'.sends = client.sends
      /\ ~client'.closed /\ \A e \in Events : client'.told[e] = 0
  BY <1>1 DEF SockTypes, ClientRec, registerTCPClientSocket, Fresh
<1>4. sock' = IF numeric THEN poll(conn, "OUT") ELSE reso
  BY DEF registerTCPClientSocket
<1>5. /\ poll(conn, "OUT") \in SockRec /\ SameBut(conn, poll(conn, "OUT")) /\ poll(conn, "OUT").direction = "OUT"
      /\ poll(conn, "OUT").watched = IF conn.paused \/ conn.watched # "NONE" THEN conn.watched ELSE "OUT"
  BY <1>2, PollFacts
<1>6. /\ conn.type = "TCP_CONNECTING" /\ reso.type = "TCP_RESOLVING"
      /\ \A t \in {conn, reso} : /\ t.live /\ t.timed /\ t.watched = "NONE" /\ t.queue = << >>
                              /\ ~t.auto /\ ~t.manual /\ ~t.paused /\ ~t.closing
  BY <1>1 DEF SockTypes, SockRec, Fresh
<1> HIDE DEF new, conn, reso
<1>7. SockTypes'
  BY <1>1, <1>2, <1>3, <1>4, <1>5 DEF SockTypes, registerTCPClientSocket
<1>8. peer'.got \o sock'.queue = Sent'
  <2>1. peer'.got = << >> /\ sock'.queue = << >>
    BY <1>1, <1>4, <1>5, <1>6 DEF Fresh, registerTCPClientSocket, SameBut
  <2>2. client'.sends = 0
    BY <1>1, <1>3 DEF Fresh
  <2>4. Sent' = << >>
    BY <2>2, NothingSent
  <2> QED BY <2>1, <2>4
<1>9. Living' /\ sock'.live
  <2>1. sock'.live /\ sock'.timed /\ sock'.queue = << >> /\ ~sock'.auto /\ ~sock'.manual /\ ~sock'.paused /\ ~sock'.closing
    BY <1>4, <1>5, <1>6 DEF SameBut
  <2>2. /\ numeric => sock'.type = "TCP_CONNECTING" /\ sock'.watched = "OUT" /\ sock'.direction = "OUT"
        /\ ~numeric => sock'.type = "TCP_RESOLVING" /\ sock'.watched = "NONE"
    BY <1>4, <1>5, <1>6 DEF SameBut
  <2> QED BY <1>3, <1>8, <2>1, <2>2 DEF Living, Wanted, Events, Plain
<1> QED BY <1>7, <1>9, StaysRegistered

\* The server socket accepts a connection.
LEMMA Strong_Accepted ==
  ASSUME SockStrong, NEW listen \in BOOLEAN, Accepted(listen)
  PROVE  SockStrong'
<1> DEFINE new == [sock EXCEPT !.live = TRUE, !.listen = listen, !.type = "TCP_PLAIN_LISTEN"]
<1>1. Fresh /\ SockTypes
  BY DEF SockStrong, Accepted
<1>2. new \in SockRec
  BY <1>1 DEF SockTypes, SockRec, SocketType, Plain
<1>3. /\ client' \in ClientRec /\ client'.began /\ client'.sends = client.sends
      /\ ~client'.closed /\ client'.told["SSLSuccess"] = 0 /\ client'.told["Final"] = 0
  BY <1>1 DEF SockTypes, ClientRec, Accepted, Fresh, Events
<1>4. sock' = IF listen THEN poll(new, "IN") ELSE new
  BY DEF Accepted
<1>5. /\ poll(new, "IN") \in SockRec /\ SameBut(new, poll(new, "IN")) /\ poll(new, "IN").direction = "IN"
      /\ poll(new, "IN").watched = IF new.paused \/ new.watched # "NONE" THEN new.watched ELSE "IN"
  BY <1>2, PollFacts
<1>6. /\ new.live /\ new.listen = listen /\ new.type = "TCP_PLAIN_LISTEN" /\ ~new.timed /\ new.watched = "NONE"
      /\ new.queue = << >> /\ ~new.auto /\ ~new.manual /\ ~new.paused /\ ~new.closing
  BY <1>1 DEF SockTypes, SockRec, Fresh
<1> HIDE DEF new
<1>7. SockTypes'
  BY <1>1, <1>2, <1>3, <1>4, <1>5 DEF SockTypes, Accepted
<1>8. peer'.got \o sock'.queue = Sent'
  <2>1. peer'.got = << >> /\ sock'.queue = << >>
    BY <1>1, <1>4, <1>5, <1>6 DEF Fresh, Accepted, SameBut
  <2>2. client'.sends = 0
    BY <1>1, <1>3 DEF Fresh
  <2>4. Sent' = << >>
    BY <2>2, NothingSent
  <2> QED BY <2>1, <2>4
<1>9. Living' /\ sock'.live
  <2>1. /\ sock'.live /\ ~sock'.timed /\ sock'.queue = << >> /\ ~sock'.auto /\ ~sock'.manual /\ ~sock'.paused /\ ~sock'.closing
        /\ sock'.type = "TCP_PLAIN_LISTEN" /\ sock'.listen = listen
        /\ sock'.watched = IF listen THEN "IN" ELSE "NONE"
        /\ listen => sock'.direction = "IN"
    BY <1>4, <1>5, <1>6 DEF SameBut
  <2> QED BY <1>3, <1>8, <2>1 DEF Living, Wanted, Plain
<1> QED BY <1>7, <1>9, StaysRegistered

\* Nothing is sent, and nothing written.
LEMMA NothingMoves ==
  ASSUME SockStrong, sock.live, peer'.got = peer.got, sock'.queue = sock.queue, client'.sends = client.sends
  PROVE  peer'.got \o sock'.queue = Sent'
BY DEF SockStrong, Living, Sent

\* The host has been resolved.
LEMMA Strong_NameResolution ==
  ASSUME SockStrong, handleTCPNameResolution
  PROVE  SockStrong'
<1> DEFINE s == [sock EXCEPT !.type = "TCP_CONNECTING", !.timed = TRUE]
<1>1. Living /\ SockTypes /\ sock.live /\ sock.type = "TCP_RESOLVING"
  BY DEF SockStrong, handleTCPNameResolution
<1>2. s \in SockRec
  BY <1>1 DEF SockTypes, SockRec, SocketType
<1>3. /\ sock' = poll(s, "OUT") /\ UNCHANGED <<peer, client>>
      /\ poll(s, "OUT") \in SockRec /\ SameBut(s, poll(s, "OUT")) /\ poll(s, "OUT").direction = "OUT"
      /\ poll(s, "OUT").watched = IF s.paused \/ s.watched # "NONE" THEN s.watched ELSE "OUT"
  BY <1>2, PollFacts DEF handleTCPNameResolution
<1>4. /\ s.type = "TCP_CONNECTING" /\ s.timed /\ s.live /\ s.listen = sock.listen /\ s.auto = sock.auto
      /\ s.manual = sock.manual /\ s.paused = sock.paused /\ s.queue = sock.queue
      /\ s.closing = sock.closing /\ s.watched = sock.watched
  BY <1>1 DEF SockTypes, SockRec
<1> HIDE DEF s
<1>5. SockTypes'
  BY <1>1, <1>3 DEF SockTypes
<1>6. peer'.got \o sock'.queue = Sent'
  BY <1>1, <1>3, <1>4, NothingMoves DEF SameBut
<1>7. Living' /\ sock'.live
  BY <1>1, <1>3, <1>4, <1>6 DEF Living, Wanted, SameBut, Plain
<1> QED BY <1>5, <1>7, StaysRegistered

\* The host cannot be resolved.
LEMMA Strong_NameResolutionFails ==
  ASSUME SockStrong, NameResolutionFails
  PROVE  SockStrong'
<1>1. Living /\ SockTypes /\ sock.live
  BY DEF SockStrong, NameResolutionFails
<1>2. PICK told \in {TRUE, ~sock.closing} :
        client' = [client EXCEPT !.failed = TRUE, !.told["Final"] = IF told THEN @ + 1 ELSE @]
  BY DEF NameResolutionFails
<1>3. /\ client' \in ClientRec /\ client'.began = client.began /\ client'.sends = client.sends
      /\ client'.closed = client.closed /\ client'.failed
      /\ client'.told["Final"] = IF told THEN 1 ELSE 0
  <2>1. client' = [client EXCEPT !.failed = TRUE, !.told["Final"] = IF told THEN 1 ELSE 0]
    BY <1>1, <1>2 DEF Living
  <2> QED BY <1>1, <2>1, FailFacts
<1> QED BY <1>1, <1>2, <1>3, IsRemovedOnFailure DEF NameResolutionFails, Living

\* The timer of the attempt runs out.
LEMMA Strong_ConnectTimeout ==
  ASSUME SockStrong, ConnectTimeout
  PROVE  SockStrong'
<1>1. Living /\ SockTypes /\ sock.live
  BY DEF SockStrong, ConnectTimeout
<1>2. /\ client' \in ClientRec /\ client'.began = client.began /\ client'.sends = client.sends
      /\ client'.closed = client.closed /\ client'.failed
      /\ client'.told["Final"] = IF sock.closing THEN 0 ELSE 1
  <2>1. client' = [client EXCEPT !.failed = TRUE, !.told["Final"] = IF sock.closing THEN 0 ELSE 1]
    BY <1>1 DEF Living, ConnectTimeout
  <2> QED BY <1>1, <2>1, FailFacts
<1> QED BY <1>1, <1>2, IsRemovedOnFailure DEF ConnectTimeout, Living

\* A socket on which nothing else was sent goes when its queue is empty.
LEMMA ClosedWhenSent ==
  ASSUME SockStrong, sock.live, NEW s \in SockRec, sock' = closeSocketIntern(s), sock.queue = << >>,
         peer' = peer, client' \in ClientRec, client'.began, client'.closed, client'.sends = client.sends,
         client'.told["Final"] = 0
  PROVE  SockStrong'
<1>1. SockTypes' /\ ~sock'.live /\ ~sock'.timed
  BY CloseFacts DEF SockStrong, SockTypes
<1>2. peer.got \in Seq(Bytes) /\ peer.got \o << >> = Sent
  BY DEF SockStrong, SockTypes, PeerRec, Living
<1>3. peer'.got = Sent'
  BY <1>2, ConcatEmptySeq DEF Sent
<1>4. Gone'
  BY <1>1, <1>3 DEF Gone
<1> QED BY <1>1, <1>3, <1>4, SentAndRemoved

\* The connection is made, or refused.
LEMMA Strong_ConnectingOut ==
  ASSUME SockStrong, handleTCPConnectingOut
  PROVE  SockStrong'
<1>1. Living /\ SockTypes /\ sock.live /\ sock.type = "TCP_CONNECTING" /\ peer' = peer
  BY DEF SockStrong, handleTCPConnectingOut
<1> DEFINE s == NowConnected(sock)
<1>2. /\ s \in SockRec /\ s.type = "TCP_PLAIN" /\ ~s.timed /\ s.live /\ s.listen = sock.listen /\ s.auto = sock.auto
      /\ s.manual = sock.manual /\ s.paused = sock.paused /\ s.queue = sock.queue
      /\ s.closing = sock.closing /\ s.watched = sock.watched /\ s.direction = sock.direction
  BY <1>1 DEF SockTypes, SockRec, NowConnected, SocketType, Plain
<1>3. CASE /\ TellUnlessClosing("Connected")
           /\ sock' = IF s.closing /\ (s.queue = << >> \/ ~s.listen) THEN closeSocketIntern(s)
                      ELSE IF ~s.listen THEN [s EXCEPT !.watched = "NONE"]
                      ELSE IF s.queue = << >> THEN setPoll(s, "IN") ELSE s
  <2> HIDE DEF s
  <2>1. /\ client' \in ClientRec /\ client'.began = client.began /\ client'.sends = client.sends
        /\ client'.closed = client.closed /\ client'.told["SSLSuccess"] = client.told["SSLSuccess"]
        /\ client'.told["Final"] = client.told["Final"]
    BY <1>1, <1>3, TellFacts DEF TellUnlessClosing, SockTypes, Events
  <2>2. ~(s.closing /\ (s.queue = << >> \/ ~s.listen))
    BY <1>1, <1>2 DEF Living
  <2>3. /\ setPoll(s, "IN") \in SockRec /\ SameBut(s, setPoll(s, "IN")) /\ setPoll(s, "IN").direction = "IN"
        /\ setPoll(s, "IN").watched = IF s.paused \/ s.watched = "NONE" THEN s.watched ELSE "IN"
    BY <1>2, SetPollFacts
  <2>4. CASE ~s.listen
    <3>1. sock' = [s EXCEPT !.watched = "NONE"]
      BY <1>3, <2>2, <2>4
    <3>2. sock' \in SockRec /\ SameBut(s, sock') /\ sock'.watched = "NONE"
      BY <1>2, <3>1 DEF SockRec, SameBut, Watch
    <3>3. SockTypes'
      BY <1>1, <2>1, <3>2 DEF SockTypes
    <3>4. peer'.got \o sock'.queue = Sent'
      BY <1>1, <1>2, <2>1, <3>2, NothingMoves DEF SameBut
    <3>5. Living' /\ sock'.live
      BY <1>1, <1>2, <2>1, <2>4, <3>2, <3>4 DEF Living, Wanted, SameBut, Plain
    <3> QED BY <3>3, <3>5, StaysRegistered
  <2>5. CASE s.listen
    <3>1. sock' = IF s.queue = << >> THEN setPoll(s, "IN") ELSE s
      BY <1>3, <2>2, <2>5
    <3>2. /\ sock' \in SockRec /\ SameBut(s, sock') /\ (s.queue # << >> => sock' = s)
          /\ (s.queue = << >> => sock'.watched = IF s.paused \/ s.watched = "NONE" THEN s.watched ELSE "IN")
          /\ (s.queue = << >> => sock'.direction = "IN")
      BY <1>2, <2>3, <3>1 DEF SameBut
    <3>3. SockTypes'
      BY <1>1, <2>1, <3>2 DEF SockTypes
    <3>4. peer'.got \o sock'.queue = Sent'
      BY <1>1, <1>2, <2>1, <3>2, NothingMoves DEF SameBut
    <3>5. ~sock.paused /\ sock.watched = "OUT" /\ sock.direction = "OUT"
      BY <1>1 DEF Living, Wanted
    <3>6. sock'.watched = sock'.direction /\ sock'.direction = IF sock'.queue = << >> THEN "IN" ELSE "OUT"
      BY <1>2, <3>2, <3>5 DEF SameBut
    <3>7. Living' /\ sock'.live
      BY <1>1, <1>2, <2>1, <2>5, <3>2, <3>4, <3>5, <3>6 DEF Living, Wanted, SameBut, Plain
    <3> QED BY <3>3, <3>7, StaysRegistered
  <2> QED BY <1>2, <2>4, <2>5 DEF SockRec
<1>4. CASE /\ sock' = closeSocketIntern(sock)
           /\ client' = [client EXCEPT !.failed = TRUE, !.told["Final"] = IF sock.closing THEN @ ELSE @ + 1]
  <2>1. /\ client' \in ClientRec /\ client'.began = client.began /\ client'.sends = client.sends
        /\ client'.closed = client.closed /\ client'.failed
        /\ client'.told["Final"] = IF sock.closing THEN 0 ELSE 1
    <3>1. client' = [client EXCEPT !.failed = TRUE, !.told["Final"] = IF sock.closing THEN 0 ELSE 1]
      BY <1>1, <1>4 DEF Living
    <3> QED BY <1>1, <3>1, FailFacts
  <2> QED BY <1>1, <1>4, <2>1, IsRemovedOnFailure DEF Living
<1> QED BY <1>3, <1>4 DEF handleTCPConnectingOut

-----------------------------------------------------------------------------
(***************************************************************************)
(* The user of the socket.                                                 *)
(***************************************************************************)
\* A call of sendData appends its two pieces to all that was sent.
LEMMA ConcatFacts ==
  ASSUME NEW S, NEW s \in Seq(S), NEW t \in Seq(S)
  PROVE  /\ s \o t \in Seq(S) /\ Len(s) \in Nat /\ Len(t) \in Nat /\ Len(s \o t) = Len(s) + Len(t)
         /\ \A i \in 1..(Len(s) + Len(t)) : (s \o t)[i] = IF i <= Len(s) THEN s[i] ELSE t[i - Len(s)]
BY ConcatProperties, LenProperties

\* Two more numbers.
LEMMA CountOn ==
  ASSUME NEW n \in Nat
  PROVE  [i \in 1..(n + 2) |-> i] = [i \in 1..n |-> i] \o <<n + 1, n + 2>>
<1> DEFINE a == [i \in 1..n |-> i]
           c == [i \in 1..(n + 2) |-> i]
           two == <<n + 1, n + 2>>
<1>1. a \in Seq(Nat) /\ Len(a) = n /\ \A i \in 1..n : a[i] = i
  OBVIOUS
<1>2. c \in Seq(Nat) /\ Len(c) = n + 2 /\ \A i \in 1..(n + 2) : c[i] = i
  OBVIOUS
<1>3. two \in Seq(Nat) /\ Len(two) = 2 /\ two[1] = n + 1 /\ two[2] = n + 2
  OBVIOUS
<1> HIDE DEF a, c, two
<1>4. /\ a \o two \in Seq(Nat) /\ Len(a \o two) = Len(a) + Len(two)
      /\ \A i \in 1..(Len(a) + Len(two)) : (a \o two)[i] = IF i <= Len(a) THEN a[i] ELSE two[i - Len(a)]
  BY <1>1, <1>3, ConcatFacts
<1>5. \A i \in 1..(n + 2) : (a \o two)[i] = c[i]
  <2> SUFFICES ASSUME NEW i \in 1..(n + 2) PROVE (a \o two)[i] = c[i]
    OBVIOUS
  <2>1. (a \o two)[i] = IF i <= n THEN a[i] ELSE two[i - n]
    BY <1>1, <1>3, <1>4
  <2>2. CASE i <= n
    BY <1>1, <1>2, <2>1, <2>2
  <2>3. CASE i = n + 1
    <3>1. i - n = 1 /\ ~(i <= n)
      BY <2>3
    <3> QED BY <1>2, <1>3, <2>1, <2>3, <3>1
  <2>4. CASE i = n + 2
    <3>1. i - n = 2 /\ ~(i <= n)
      BY <2>4
    <3> QED BY <1>2, <1>3, <2>1, <2>4, <3>1
  <2>5. i <= n \/ i = n + 1 \/ i = n + 2
    OBVIOUS
  <2> QED BY <2>2, <2>3, <2>4, <2>5
<1>6. Len(a \o two) = n + 2
  BY <1>1, <1>3, <1>4
<1>7. c = a \o two
  BY <1>2, <1>4, <1>5, <1>6, SeqEqual
<1> QED BY <1>7 DEF a, c, two

\* ... which are the two numbers after those sent before.
LEMMA SentGrows ==
  ASSUME SockTypes, client'.sends = client.sends + 1, client.sends < MaxSends
  PROVE  /\ <<2 * client.sends + 1, 2 * client.sends + 2>> \in Seq(Bytes)
         /\ Sent' = Sent \o <<2 * client.sends + 1, 2 * client.sends + 2>>
<1> DEFINE n == 2 * client.sends
<1>1. client.sends \in Nat /\ MaxSends \in Nat
  BY SocketIOAssumption DEF SockTypes, ClientRec
<1>2. n \in Nat /\ n + 1 \in Bytes /\ n + 2 \in Bytes /\ 2 * (client.sends + 1) = n + 2
  BY <1>1 DEF Bytes
<1>3. Sent' = [i \in 1..(n + 2) |-> i] /\ Sent = [i \in 1..n |-> i]
  BY <1>2 DEF Sent
<1> HIDE DEF n
<1>4. Sent' = Sent \o <<n + 1, n + 2>>
  BY <1>2, <1>3, CountOn
<1>5. <<n + 1, n + 2>> \in Seq(Bytes)
  BY <1>2
<1> QED BY <1>4, <1>5 DEF n

\* Appending to the queue is appending to what arrived and the queue.
LEMMA QueueGrows ==
  ASSUME NEW S, NEW got \in Seq(S), NEW queue \in Seq(S), NEW more \in Seq(S), Len(more) = 2
  PROVE  /\ queue \o more \in Seq(S) /\ queue \o more # << >>
         /\ (got \o queue) \o more = got \o (queue \o more)
<1>1. queue \o more \in Seq(S) /\ Len(queue) \in Nat /\ Len(queue \o more) = Len(queue) + Len(more)
  BY ConcatFacts, Zenon
<1>2. queue \o more # << >>
  BY <1>1, EmptySeq
<1>3. (got \o queue) \o more = got \o (queue \o more)
  BY ConcatAssociative
<1> QED BY <1>1, <1>2, <1>3

\* A call of sendData.
LEMMA Strong_sendData ==
  ASSUME SockStrong, sendData
  PROVE  SockStrong'
<1> DEFINE two == <<2 * client.sends + 1, 2 * client.sends + 2>>
           s == [sock EXCEPT !.queue = @ \o two]
<1>1. /\ Living /\ SockTypes /\ sock.live /\ ~client.closed /\ peer' = peer
      /\ MaySend /\ client.sends < MaxSends
  BY DEF SockStrong, sendData
<1>2. /\ client' \in ClientRec /\ client'.began = client.began /\ client'.sends = client.sends + 1
      /\ client'.closed = client.closed /\ client'.told = client.told
  BY <1>1, SocketIOAssumption DEF SockTypes, ClientRec, sendData
<1>3. two \in Seq(Bytes) /\ Sent' = Sent \o two
  BY <1>1, <1>2, SentGrows
<1>4. sock.queue \in Seq(Bytes) /\ peer.got \in Seq(Bytes)
  BY <1>1 DEF SockTypes, SockRec, PeerRec
<1>5. Len(two) = 2
  OBVIOUS
<1> HIDE DEF two
<1>6. /\ sock.queue \o two \in Seq(Bytes) /\ sock.queue \o two # << >>
      /\ (peer.got \o sock.queue) \o two = peer.got \o (sock.queue \o two)
  <2>1. two \in Seq(Bytes)
    BY <1>3
  <2>2. \A got, queue, more \in Seq(Bytes) : Len(more) = 2 =>
          /\ queue \o more \in Seq(Bytes) /\ queue \o more # << >>
          /\ (got \o queue) \o more = got \o (queue \o more)
    BY QueueGrows
  <2>3. peer.got \in Seq(Bytes) /\ sock.queue \in Seq(Bytes) /\ Len(two) = 2
    BY <1>4, <1>5
  <2> QED BY ZenonT(40), <2>1, <2>2, <2>3
<1>7. /\ s \in SockRec /\ s.queue = sock.queue \o two /\ s.live /\ s.type = sock.type /\ s.listen = sock.listen
      /\ s.auto = sock.auto /\ s.manual = sock.manual /\ s.paused = sock.paused /\ s.closing = sock.closing
      /\ s.timed = sock.timed /\ s.watched = sock.watched /\ s.direction = sock.direction
  BY <1>1, <1>6 DEF SockTypes, SockRec
<1>8. sock' = IF s.type \in Plain \cup {"TCP_SSL"} THEN setPoll(s, "OUT") ELSE s
  BY DEF sendData, two
<1> HIDE DEF s
<1>9. /\ setPoll(s, "OUT") \in SockRec /\ SameBut(s, setPoll(s, "OUT")) /\ setPoll(s, "OUT").direction = "OUT"
      /\ setPoll(s, "OUT").watched = IF s.paused \/ s.watched = "NONE" THEN s.watched ELSE "OUT"
  BY <1>7, SetPollFacts
<1>10. SockTypes'
  BY <1>1, <1>2, <1>7, <1>8, <1>9 DEF SockTypes
<1>11. peer'.got \o sock'.queue = Sent'
  <2>1. sock'.queue = sock.queue \o two
    BY <1>7, <1>8, <1>9 DEF SameBut
  <2> QED BY <1>1, <1>3, <1>6, <2>1 DEF Living
<1>12. \/ sock.type = "TCP_SSL"
       \/ sock.listen /\ sock.type \notin {"TCP_SSL_NEG", "TCP_SSL_NEG_REDO", "TCP_SSL"}
  BY <1>1 DEF MaySend, Living
<1>13. SameBut(s, sock') /\ sock'.queue # << >>
  BY <1>6, <1>7, <1>8, <1>9 DEF SameBut
<1>14. CASE s.type \in Plain \cup {"TCP_SSL"}
  <2>1. /\ sock'.direction = "OUT"
        /\ sock'.watched = IF s.paused \/ s.watched = "NONE" THEN s.watched ELSE "OUT"
    BY <1>8, <1>9, <1>14
  <2>2. ~sock.paused => sock.watched # "NONE"
    BY <1>1, <1>7, <1>12, <1>14 DEF Living, Wanted, Plain
  <2>3. sock.paused => sock.watched = "NONE"
    BY <1>1 DEF Living
  <2>4. Living' /\ sock'.live
    BY <1>1, <1>2, <1>7, <1>11, <1>12, <1>13, <1>14, <2>1, <2>2, <2>3 DEF Living, Wanted, SameBut, Plain
  <2> QED BY <1>10, <2>4, StaysRegistered
<1>15. CASE s.type \notin Plain \cup {"TCP_SSL"}
  <2>1. sock' = s
    BY <1>8, <1>15
  <2>2. Living' /\ sock'.live
    BY <1>1, <1>2, <1>7, <1>11, <1>12, <1>13, <1>15, <2>1 DEF Living, Wanted, SameBut, Plain
  <2> QED BY <1>10, <2>2, StaysRegistered
<1> QED BY <1>14, <1>15

\* A call that begins to negotiate TLS.
LEMMA Strong_negotiateSSL ==
  ASSUME SockStrong, negotiateSSL
  PROVE  SockStrong'
<1> DEFINE s == [sock EXCEPT !.type = "TCP_SSL_NEG"]
<1>1. /\ Living /\ SockTypes /\ sock.live /\ ~client.closed /\ UNCHANGED <<peer, client>>
      /\ sock.type \in Plain /\ sock.queue = << >>
  BY DEF SockStrong, negotiateSSL
<1>2. /\ s \in SockRec /\ s.queue = sock.queue /\ s.live /\ s.type = "TCP_SSL_NEG" /\ s.listen = sock.listen
      /\ s.auto = sock.auto /\ s.manual = sock.manual /\ s.paused = sock.paused /\ s.closing = sock.closing
      /\ s.timed = sock.timed /\ s.watched = sock.watched
  BY <1>1 DEF SockTypes, SockRec, SocketType
<1>3. sock' = IF s.listen THEN setPoll(s, "OUT") ELSE poll(s, "OUT")
  BY DEF negotiateSSL
<1> HIDE DEF s
<1>4. /\ setPoll(s, "OUT") \in SockRec /\ SameBut(s, setPoll(s, "OUT")) /\ setPoll(s, "OUT").direction = "OUT"
      /\ setPoll(s, "OUT").watched = IF s.paused \/ s.watched = "NONE" THEN s.watched ELSE "OUT"
  BY <1>2, SetPollFacts
<1>5. /\ poll(s, "OUT") \in SockRec /\ SameBut(s, poll(s, "OUT")) /\ poll(s, "OUT").direction = "OUT"
      /\ poll(s, "OUT").watched = IF s.paused \/ s.watched # "NONE" THEN s.watched ELSE "OUT"
  BY <1>2, PollFacts
<1>6. sock' \in SockRec /\ SameBut(s, sock') /\ sock'.direction = "OUT"
  BY <1>3, <1>4, <1>5
<1>7. sock'.watched = IF s.paused THEN "NONE" ELSE "OUT"
  <2>1. ~sock.paused => sock.watched = IF sock.listen THEN "IN" ELSE "NONE"
    BY <1>1 DEF Living, Wanted, Plain
  <2>2. sock.paused => sock.watched = "NONE"
    BY <1>1 DEF Living
  <2> QED BY <1>2, <1>3, <1>4, <1>5, <2>1, <2>2
<1>8. SockTypes'
  BY <1>1, <1>6 DEF SockTypes
<1>9. peer'.got \o sock'.queue = Sent'
  BY <1>1, <1>2, <1>6, NothingMoves DEF SameBut
<1>10. Living' /\ sock'.live
  BY <1>1, <1>2, <1>6, <1>7, <1>9 DEF Living, Wanted, SameBut, Plain
<1> QED BY <1>8, <1>10, StaysRegistered

\* A call of closeSocket.
LEMMA Strong_closeSocket ==
  ASSUME SockStrong, closeSocket
  PROVE  SockStrong'
<1>1. Living /\ SockTypes /\ sock.live /\ ~client.closed /\ peer' = peer
  BY DEF SockStrong, closeSocket
<1>2. /\ client' \in ClientRec /\ client'.began = client.began /\ client'.sends = client.sends
      /\ client'.closed /\ client'.told = client.told
  BY <1>1 DEF SockTypes, ClientRec, closeSocket
<1>3. CASE sock.queue # << >>
  <2>1. sock' = [sock EXCEPT !.closing = TRUE]
    BY <1>3 DEF closeSocket
  <2>2. /\ sock' \in SockRec /\ sock'.queue = sock.queue /\ sock'.live /\ sock'.type = sock.type
        /\ sock'.listen = sock.listen /\ sock'.direction = sock.direction
        /\ sock'.auto = sock.auto /\ sock'.manual = sock.manual /\ sock'.paused = sock.paused /\ sock'.closing
        /\ sock'.timed = sock.timed /\ sock'.watched = sock.watched
    BY <1>1, <2>1 DEF SockTypes, SockRec
  <2>3. SockTypes'
    BY <1>1, <1>2, <2>2 DEF SockTypes
  <2>4. peer'.got \o sock'.queue = Sent'
    BY <1>1, <1>2, <2>2, NothingMoves
  <2>5. Living'
    BY <1>1, <1>2, <1>3, <2>2, <2>4 DEF Living, Wanted
  <2> QED BY <2>2, <2>3, <2>5, StaysRegistered
<1>4. CASE sock.queue = << >>
  <2>1. sock' = closeSocketIntern(sock) /\ sock \in SockRec
    BY <1>1, <1>4 DEF closeSocket, SockTypes
  <2> QED BY <1>1, <1>2, <1>4, <2>1, ClosedWhenSent DEF Living
<1> QED BY <1>3, <1>4

\* Pausing, by the user or because the workers cannot take more.
LEMMA Strong_pause ==
  ASSUME SockStrong, pause \/ handleIn
  PROVE  SockStrong'
<1>1. Living /\ SockTypes /\ sock.live /\ peer' = peer /\ sock.type \in Plain \cup {"TCP_SSL"}
  BY DEF SockStrong, pause, handleIn
<1>2. /\ client' \in ClientRec /\ client'.began = client.began /\ client'.sends = client.sends
      /\ client'.closed = client.closed /\ client'.told = client.told
  BY <1>1 DEF SockTypes, ClientRec, pause, handleIn
<1>3. /\ sock' \in SockRec /\ sock'.queue = sock.queue /\ sock'.live /\ sock'.type = sock.type
      /\ sock'.listen = sock.listen /\ sock'.direction = sock.direction
      /\ (sock'.auto \/ sock'.manual) /\ sock'.paused /\ sock'.closing = sock.closing
      /\ sock'.timed = sock.timed /\ sock'.watched = "NONE"
  BY <1>1 DEF SockTypes, SockRec, pause, handleIn, autoPause, Watch
<1>4. SockTypes'
  BY <1>1, <1>2, <1>3 DEF SockTypes
<1>5. peer'.got \o sock'.queue = Sent'
  BY <1>1, <1>2, <1>3, NothingMoves
<1>6. sock.direction = Wanted
  <2>1. sock.paused \/ Wanted # "NONE"
    BY <1>1 DEF pause, handleIn, Living, Wanted, Plain
  <2> QED BY <1>1, <2>1 DEF Living
<1>7. Living'
  BY <1>1, <1>2, <1>3, <1>5, <1>6 DEF Living, Wanted, Plain
<1> QED BY <1>3, <1>4, <1>7, StaysRegistered

\* The end of a pause: the socket is watched again for the direction it remembers.
LEMMA Strong_resume ==
  ASSUME SockStrong, resume \/ workerReady
  PROVE  SockStrong'
<1>1. Living /\ SockTypes /\ sock.live /\ UNCHANGED <<peer, client>>
  BY DEF SockStrong, resume, workerReady
<1>2. sock.paused
  BY <1>1 DEF Living, resume, workerReady
<1>3. sock.direction = Wanted /\ sock.watched = "NONE"
  BY <1>1, <1>2 DEF Living
<1>4. /\ sock' \in SockRec /\ sock'.queue = sock.queue /\ sock'.live /\ sock'.type = sock.type
      /\ sock'.listen = sock.listen /\ sock'.direction = sock.direction
      /\ sock'.closing = sock.closing /\ sock'.timed = sock.timed
      /\ (sock'.paused <=> sock'.auto \/ sock'.manual)
      /\ sock'.watched = IF sock'.paused THEN "NONE" ELSE sock.direction
  <2>1. CASE resume
    BY <1>1, <1>2, <1>3, <2>1 DEF resume, Unpaused, addFD, SockTypes, SockRec, Watch
  <2>2. CASE workerReady
    BY <1>1, <1>2, <1>3, <2>2 DEF workerReady, Unpaused, addFD, SockTypes, SockRec, Watch
  <2> QED BY <2>1, <2>2
<1>5. SockTypes'
  BY <1>1, <1>4 DEF SockTypes
<1>6. peer'.got \o sock'.queue = Sent'
  BY <1>1, <1>4, NothingMoves
<1>7. Wanted' = Wanted
  BY <1>4 DEF Wanted
<1>8. ~sock.timed
  BY <1>1, <1>2 DEF Living
<1>9. Living'
  BY <1>1, <1>3, <1>4, <1>6, <1>7, <1>8 DEF Living
<1> QED BY <1>4, <1>5, <1>9, StaysRegistered

-----------------------------------------------------------------------------
(***************************************************************************)
(* Data and the negotiation of TLS.                                        *)
(***************************************************************************)
LEMMA Strong_PeerCloses ==
  ASSUME SockStrong, PeerCloses
  PROVE  SockStrong'
<1>1. Living /\ SockTypes /\ sock.live /\ UNCHANGED <<sock, client>>
  BY DEF SockStrong, PeerCloses
<1>2. peer' \in PeerRec /\ peer'.got = peer.got
  BY <1>1 DEF SockTypes, PeerRec, PeerCloses
<1>3. SockTypes'
  BY <1>1, <1>2 DEF SockTypes
<1>4. Living'
  BY <1>1, <1>2 DEF Living, Wanted, Sent
<1> QED BY <1>1, <1>3, <1>4, StaysRegistered

\* The user of a socket hears of its end.
LEMMA ToldTheEnd ==
  ASSUME SockStrong, sock.live, IF sock.closing THEN UNCHANGED client ELSE Tell("Final"),
         sock' = closeSocketIntern(sock), peer' = peer, sock.closing => peer.gone
  PROVE  SockStrong'
<1>1. Living /\ SockTypes
  BY DEF SockStrong
<1>2. /\ client' \in ClientRec /\ client'.began = client.began /\ client'.sends = client.sends
      /\ client'.closed = client.closed /\ client'.told["Final"] = IF sock.closing THEN 0 ELSE 1
  <2>1. CASE sock.closing
    BY <1>1, <2>1 DEF Living, SockTypes
  <2>2. CASE ~sock.closing
    <3>1. "Final" \in Events /\ Tell("Final")
      BY <2>2 DEF Events
    <3>2. client.told["Final"] = 0
      BY <1>1 DEF Living
    <3>3. /\ client' \in ClientRec /\ client'.began = client.began /\ client'.sends = client.sends
          /\ client'.closed = client.closed /\ client'.told["Final"] = client.told["Final"] + 1
      BY <1>1, <3>1, TellFacts
    <3> QED BY <2>2, <3>2, <3>3
  <2> QED BY <2>1, <2>2
<1> QED BY <1>1, <1>2, IsRemovedOnFailure DEF Living

\* The end of the connection is read.
LEMMA Strong_DisconnectedIn ==
  ASSUME SockStrong, DisconnectedIn
  PROVE  SockStrong'
<1>1. Living /\ SockTypes /\ sock.live /\ sock.watched = "IN" /\ sock.type \in Plain \cup {"TCP_SSL"}
  BY DEF SockStrong, DisconnectedIn
<1>2. ~sock.closing
  BY <1>1 DEF Living, Wanted, Plain
<1> QED BY <1>1, <1>2, ToldTheEnd DEF DisconnectedIn

\* A write fails.
LEMMA Strong_WriteFails ==
  ASSUME SockStrong, WriteFails
  PROVE  SockStrong'
BY ToldTheEnd DEF WriteFails, TellUnlessClosing

\* A write takes the front of the queue.
FirstIn(q, n) == SubSeq(q, 1, n)
Rest(q, n) == SubSeq(q, n + 1, Len(q))

\* Moving the front of the queue to the other end keeps their concatenation.
LEMMA QueueShrinks ==
  ASSUME NEW S, NEW got \in Seq(S), NEW queue \in Seq(S), NEW n \in 0..Len(queue)
  PROVE  /\ Rest(queue, n) \in Seq(S) /\ got \o FirstIn(queue, n) \in Seq(S)
         /\ (got \o FirstIn(queue, n)) \o Rest(queue, n) = got \o queue
<1> DEFINE front == SubSeq(queue, 1, n)
           rest == SubSeq(queue, n + 1, Len(queue))
<1>1. Len(queue) \in Nat /\ n \in Nat /\ n <= Len(queue) /\ \A i \in 1..Len(queue) : queue[i] \in S
  BY LenProperties, ElementOfSeq
<1>2. front \in Seq(S) /\ rest \in Seq(S) /\ Len(front) = n /\ Len(rest) = Len(queue) - n
  BY <1>1
<1>3. \A i \in 1..n : front[i] = queue[i]
  BY <1>1
<1>4. \A i \in 1..(Len(queue) - n) : rest[i] = queue[n + i]
  BY <1>1
<1> HIDE DEF front, rest
<1>5. /\ front \o rest \in Seq(S) /\ Len(front \o rest) = Len(front) + Len(rest)
      /\ \A i \in 1..(Len(front) + Len(rest)) : (front \o rest)[i] = IF i <= Len(front) THEN front[i] ELSE rest[i - Len(front)]
  BY <1>2, ConcatFacts
<1>6. Len(front \o rest) = Len(queue)
  BY <1>1, <1>2, <1>5
<1>7. \A i \in 1..Len(queue) : (front \o rest)[i] = queue[i]
  <2> SUFFICES ASSUME NEW i \in 1..Len(queue) PROVE (front \o rest)[i] = queue[i]
    OBVIOUS
  <2>1. (front \o rest)[i] = IF i <= n THEN front[i] ELSE rest[i - n]
    BY <1>1, <1>2, <1>5
  <2>2. CASE i <= n
    BY <1>1, <1>3, <2>1, <2>2
  <2>3. CASE ~(i <= n)
    <3>1. i - n \in 1..(Len(queue) - n) /\ n + (i - n) = i
      BY <1>1, <2>3
    <3> QED BY <1>4, <2>1, <2>3, <3>1
  <2> QED BY <2>2, <2>3
<1>8. front \o rest = queue
  BY <1>5, <1>6, <1>7, SeqEqual
<1>9. (got \o front) \o rest = got \o (front \o rest)
  BY SMTT(40), <1>2, ConcatAssociative
<1>10. got \o front \in Seq(S)
  BY <1>2, ConcatFacts
<1>11. front = FirstIn(queue, n) /\ rest = Rest(queue, n)
  BY DEF front, rest, FirstIn, Rest
<1> QED BY <1>2, <1>8, <1>9, <1>10, <1>11

\* A write of some pieces.
LEMMA Strong_handleOut ==
  ASSUME SockStrong, NEW n \in 0..(2 * MaxSends), handleOut(n)
  PROVE  SockStrong'
<1> DEFINE front == FirstIn(sock.queue, n)
           rest == Rest(sock.queue, n)
           s == [sock EXCEPT !.queue = rest]
<1>1. /\ Living /\ SockTypes /\ sock.live /\ sock.type \in Plain \cup {"TCP_SSL"} /\ sock.watched = "OUT"
      /\ client' = client /\ n <= Len(sock.queue)
  BY DEF SockStrong, handleOut
<1>2. sock.queue \in Seq(Bytes) /\ peer.got \in Seq(Bytes)
  BY <1>1 DEF SockTypes, SockRec, PeerRec
<1>3. n \in 0..Len(sock.queue)
  BY <1>1, <1>2, LenProperties
<1>4. rest \in Seq(Bytes) /\ peer.got \o front \in Seq(Bytes) /\ (peer.got \o front) \o rest = peer.got \o sock.queue
  BY ZenonT(40), <1>2, <1>3, QueueShrinks
<1>5. peer' = [peer EXCEPT !.got = peer.got \o front]
  BY DEF handleOut, FirstIn
<1>6. sock' = IF rest # << >> THEN s ELSE IF sock.closing THEN closeSocketIntern(s) ELSE setPoll(s, "IN")
  BY <1>1 DEF handleOut, SockTypes, SockRec, Rest
<1> HIDE DEF front, rest
<1>7. /\ s \in SockRec /\ s.queue = rest /\ s.live /\ s.type = sock.type /\ s.listen = sock.listen
      /\ s.auto = sock.auto /\ s.manual = sock.manual /\ s.paused = sock.paused /\ s.closing = sock.closing
      /\ s.timed = sock.timed /\ s.watched = sock.watched /\ s.direction = sock.direction
  BY <1>1, <1>4 DEF SockTypes, SockRec
<1>8. peer' \in PeerRec /\ peer'.got = peer.got \o front
  BY <1>1, <1>4, <1>5 DEF SockTypes, PeerRec
<1>9. peer'.got \o rest = Sent'
  <2>1. Sent' = Sent /\ peer.got \o sock.queue = Sent
    BY <1>1 DEF Living, Sent
  <2> QED BY <1>4, <1>8, <2>1
<1> HIDE DEF s
<1>10. ~sock.paused /\ sock.direction = "OUT"
  BY <1>1 DEF Living
<1>11. CASE rest # << >>
  <2>1. sock' = s
    BY <1>6, <1>11
  <2>2. SockTypes'
    BY <1>1, <1>7, <1>8, <2>1 DEF SockTypes
  <2>3. Living'
    BY <1>1, <1>7, <1>9, <1>10, <1>11, <2>1 DEF Living, Wanted, Plain
  <2> QED BY <1>7, <2>1, <2>2, <2>3, StaysRegistered
<1>12. CASE rest = << >> /\ sock.closing
  <2>1. sock' = closeSocketIntern(s)
    BY <1>6, <1>12
  <2>2. SockTypes' /\ ~sock'.live /\ ~sock'.timed
    BY <1>1, <1>7, <1>8, <2>1, CloseFacts DEF SockTypes
  <2>3. peer'.got = Sent'
    <3>1. peer'.got \in Seq(Bytes)
      BY <1>8 DEF PeerRec
    <3>2. peer'.got \o << >> = peer'.got
      BY <3>1, ConcatEmptySeq
    <3> QED BY <1>9, <1>12, <3>2
  <2>4. Gone' /\ client'.began
    BY <1>1, <1>12, <2>2, <2>3 DEF Gone, Living
  <2> QED BY <2>2, <2>3, <2>4, SentAndRemoved
<1>13. CASE rest = << >> /\ ~sock.closing
  <2>1. sock' = setPoll(s, "IN")
    BY <1>6, <1>13
  <2>2. /\ sock' \in SockRec /\ SameBut(s, sock') /\ sock'.direction = "IN"
        /\ sock'.watched = IF s.paused \/ s.watched = "NONE" THEN s.watched ELSE "IN"
    BY <1>7, <2>1, SetPollFacts
  <2>3. SockTypes'
    BY <1>1, <1>8, <2>2 DEF SockTypes
  <2>4. peer'.got \o sock'.queue = Sent'
    BY <1>7, <1>9, <2>2 DEF SameBut
  <2>5. Living' /\ sock'.live
    BY <1>1, <1>7, <1>10, <1>13, <2>2, <2>4 DEF Living, Wanted, Plain, SameBut
  <2> QED BY <2>3, <2>5, StaysRegistered
<1> QED BY <1>11, <1>12, <1>13

\* TLS is up.
LEMMA Negotiated ==
  ASSUME SockStrong, sock.live, sock.type \in {"TCP_SSL_NEG", "TCP_SSL_NEG_REDO"}, peer' = peer,
         TellUnlessClosing("SSLSuccess"),
         sock' \in {setPoll([sock EXCEPT !.type = "TCP_SSL"], "IN"), [sock EXCEPT !.type = "TCP_SSL"]},
         sock' = [sock EXCEPT !.type = "TCP_SSL"] => sock.type = "TCP_SSL_NEG_REDO"
  PROVE  SockStrong'
<1> DEFINE s == [sock EXCEPT !.type = "TCP_SSL"]
<1>1. Living /\ SockTypes
  BY DEF SockStrong
<1>2. sock.queue = << >> /\ ~sock.closing
  BY <1>1 DEF Living
<1>3. /\ client' \in ClientRec /\ client'.began = client.began /\ client'.sends = client.sends
      /\ client'.closed = client.closed /\ client'.told["Final"] = client.told["Final"]
  <2>1. "SSLSuccess" \in Events /\ "Final" \in Events /\ Tell("SSLSuccess")
    BY <1>2 DEF TellUnlessClosing, Events
  <2> QED BY <1>1, <2>1, TellFacts
<1>4. /\ s \in SockRec /\ s.queue = sock.queue /\ s.live /\ s.type = "TCP_SSL" /\ s.listen = sock.listen
      /\ s.auto = sock.auto /\ s.manual = sock.manual /\ s.paused = sock.paused /\ s.closing = sock.closing
      /\ s.timed = sock.timed /\ s.watched = sock.watched /\ s.direction = sock.direction
  BY <1>1 DEF SockTypes, SockRec, SocketType
<1>5. /\ setPoll(s, "IN") \in SockRec /\ SameBut(s, setPoll(s, "IN")) /\ setPoll(s, "IN").direction = "IN"
      /\ setPoll(s, "IN").watched = IF s.paused \/ s.watched = "NONE" THEN s.watched ELSE "IN"
  BY <1>4, SetPollFacts
<1>6. /\ sock' \in SockRec /\ SameBut(s, sock')
      /\ sock' = s \/ (sock'.direction = "IN" /\ sock'.watched = IF s.paused \/ s.watched = "NONE" THEN s.watched ELSE "IN")
      /\ sock' = s => sock.type = "TCP_SSL_NEG_REDO"
  BY <1>4, <1>5 DEF SameBut
<1> HIDE DEF s
<1>7. sock'.direction = "IN" /\ sock'.watched = IF sock.paused THEN "NONE" ELSE "IN"
  <2>1. /\ sock.type = "TCP_SSL_NEG_REDO" => sock.direction = "IN"
        /\ sock.watched = IF sock.paused THEN "NONE" ELSE Wanted
        /\ Wanted \in {"IN", "OUT"}
        /\ sock.type = "TCP_SSL_NEG_REDO" => Wanted = "IN"
    BY <1>1 DEF Living, Wanted
  <2> QED BY <1>4, <1>6, <2>1
<1>8. SockTypes'
  BY <1>1, <1>3, <1>6 DEF SockTypes
<1>9. peer'.got \o sock'.queue = Sent'
  BY <1>1, <1>3, <1>4, <1>6, NothingMoves DEF SameBut
<1>10. Living' /\ sock'.live
  BY <1>1, <1>2, <1>3, <1>4, <1>6, <1>7, <1>9 DEF Living, Wanted, SameBut, Plain
<1> QED BY <1>8, <1>10, StaysRegistered

\* The handshake begins.
LEMMA Strong_NegotiationOut ==
  ASSUME SockStrong, handleTCPSSLNegotiationOut
  PROVE  SockStrong'
<1>1. Living /\ SockTypes /\ sock.live /\ sock.type = "TCP_SSL_NEG" /\ sock.watched = "OUT" /\ peer' = peer
  BY DEF SockStrong, handleTCPSSLNegotiationOut
<1>2. sock.queue = << >> /\ ~sock.closing /\ ~sock.paused
  BY <1>1 DEF Living
<1>3. CASE sock' = setPoll([sock EXCEPT !.type = "TCP_SSL_NEG_REDO"], "IN") /\ UNCHANGED client
  <2> DEFINE s == [sock EXCEPT !.type = "TCP_SSL_NEG_REDO"]
  <2>1. /\ s \in SockRec /\ s.queue = sock.queue /\ s.live /\ s.type = "TCP_SSL_NEG_REDO" /\ s.listen = sock.listen
        /\ s.auto = sock.auto /\ s.manual = sock.manual /\ s.paused = sock.paused /\ s.closing = sock.closing
        /\ s.timed = sock.timed /\ s.watched = sock.watched
    BY <1>1 DEF SockTypes, SockRec, SocketType
  <2>2. /\ sock' \in SockRec /\ SameBut(s, sock') /\ sock'.direction = "IN"
        /\ sock'.watched = IF s.paused \/ s.watched = "NONE" THEN s.watched ELSE "IN"
    BY <1>3, <2>1, SetPollFacts
  <2> HIDE DEF s
  <2>3. SockTypes'
    BY <1>1, <1>3, <2>2 DEF SockTypes
  <2>4. peer'.got \o sock'.queue = Sent'
    BY <1>1, <1>3, <2>1, <2>2, NothingMoves DEF SameBut
  <2>5. Living' /\ sock'.live
    BY <1>1, <1>2, <1>3, <2>1, <2>2, <2>4 DEF Living, Wanted, SameBut, Plain
  <2> QED BY <2>3, <2>5, StaysRegistered
<1>4. CASE /\ TellUnlessClosing("SSLSuccess")
           /\ LET s == [sock EXCEPT !.type = "TCP_SSL"] IN sock' = IF s.queue # << >> THEN s ELSE setPoll(s, "IN")
  <2>1. [sock EXCEPT !.type = "TCP_SSL"].queue = << >> /\ [sock EXCEPT !.type = "TCP_SSL"].watched = "OUT"
        /\ [sock EXCEPT !.type = "TCP_SSL"].paused = sock.paused /\ [sock EXCEPT !.type = "TCP_SSL"] \in SockRec
    BY <1>1, <1>2 DEF SockTypes, SockRec, SocketType
  <2>2. sock' = setPoll([sock EXCEPT !.type = "TCP_SSL"], "IN")
    BY <1>4, <2>1
  <2>3. sock'.watched = "IN"
    BY <1>2, <2>1, <2>2, SetPollFacts
  <2>4. sock' # [sock EXCEPT !.type = "TCP_SSL"]
    BY <2>1, <2>3
  <2> QED BY <1>1, <1>4, <2>2, <2>4, Negotiated
<1>5. CASE TellUnlessClosing("Final") /\ sock' = closeSocketIntern(sock)
  BY <1>1, <1>2, <1>5, ToldTheEnd DEF TellUnlessClosing
<1> QED BY <1>3, <1>4, <1>5 DEF handleTCPSSLNegotiationOut

\* The handshake goes on.
LEMMA Strong_NegotiationIn ==
  ASSUME SockStrong, handleTCPSSLNegotiationIn
  PROVE  SockStrong'
<1>1. Living /\ SockTypes /\ sock.live /\ sock.type = "TCP_SSL_NEG_REDO" /\ sock.watched = "IN" /\ peer' = peer
  BY DEF SockStrong, handleTCPSSLNegotiationIn
<1>2. sock.queue = << >> /\ ~sock.closing
  BY <1>1 DEF Living
<1>3. CASE /\ TellUnlessClosing("SSLSuccess")
           /\ LET s == [sock EXCEPT !.type = "TCP_SSL"] IN sock' = IF s.queue = << >> THEN s ELSE setPoll(s, "OUT")
  <2>1. [sock EXCEPT !.type = "TCP_SSL"].queue = << >>
    BY <1>1, <1>2 DEF SockTypes, SockRec
  <2>2. sock' = [sock EXCEPT !.type = "TCP_SSL"]
    BY <1>3, <2>1
  <2> QED BY <1>1, <1>3, <2>2, Negotiated
<1>4. CASE TellUnlessClosing("Final") /\ sock' = closeSocketIntern(sock)
  BY <1>1, <1>2, <1>4, ToldTheEnd DEF TellUnlessClosing
<1> QED BY <1>3, <1>4 DEF handleTCPSSLNegotiationIn

-----------------------------------------------------------------------------
(***************************************************************************)
(* The theorems.                                                           *)
(***************************************************************************)
LEMMA StrongInit == SockInit => SockStrong
<1> SUFFICES ASSUME SockInit PROVE SockStrong
  OBVIOUS
<1>1. << >> \in Seq(Bytes) /\ 0 \in 0..MaxSends
  BY EmptySeq, SocketIOAssumption
<1>2. sock \in SockRec
  BY <1>1 DEF SockInit, SockRec, SocketType, Watch, Plain
<1>3. peer \in PeerRec
  BY <1>1 DEF SockInit, PeerRec
<1>4. client \in ClientRec
  BY <1>1 DEF SockInit, ClientRec, Events
<1>5. Fresh /\ ~client.began /\ ~sock.live
  BY DEF SockInit, Fresh, Events
<1>6. Sent = << >>
  <2>1. Sent = [i \in 1..0 |-> i]
    BY DEF SockInit, Sent
  <2>2. Sent \in Seq({}) /\ Len(Sent) = 0
    BY <2>1
  <2> QED BY <2>2, EmptySeq
<1>7. IsPrefix(peer.got, Sent)
  <2>1. IsPrefix(<< >>, << >> \o << >>) /\ << >> \o << >> = << >>
    BY <1>1, PrefixOfConcat, ConcatEmptySeq
  <2> QED BY <1>6, <2>1 DEF SockInit
<1> QED BY <1>2, <1>3, <1>4, <1>5, <1>7 DEF SockStrong, SockTypes, Erased

\* Every step.
LEMMA StrongStep == SockStrong /\ [SockNext]_sockVars => SockStrong'
<1> SUFFICES ASSUME SockStrong, [SockNext]_sockVars PROVE SockStrong'
  OBVIOUS
<1>1. ASSUME NEW listen \in BOOLEAN, NEW numeric \in BOOLEAN, registerTCPClientSocket(listen, numeric) PROVE SockStrong'
  BY <1>1, Strong_Register
<1>2. ASSUME NEW listen \in BOOLEAN, Accepted(listen) PROVE SockStrong'
  BY <1>2, Strong_Accepted
<1>3. CASE handleTCPNameResolution
  BY <1>3, Strong_NameResolution
<1>4. CASE NameResolutionFails
  BY <1>4, Strong_NameResolutionFails
<1>5. CASE handleTCPConnectingOut
  BY <1>5, Strong_ConnectingOut
<1>6. CASE ConnectTimeout
  BY <1>6, Strong_ConnectTimeout
<1>7. CASE sendData
  BY <1>7, Strong_sendData
<1>8. CASE negotiateSSL
  BY <1>8, Strong_negotiateSSL
<1>9. CASE closeSocket
  BY <1>9, Strong_closeSocket
<1>10. CASE pause \/ handleIn
  BY <1>10, Strong_pause
<1>11. CASE resume \/ workerReady
  BY <1>11, Strong_resume
<1>12. CASE PeerCloses
  BY <1>12, Strong_PeerCloses
<1>13. CASE DisconnectedIn
  BY <1>13, Strong_DisconnectedIn
<1>14. ASSUME NEW n \in 0..(2 * MaxSends), handleOut(n) PROVE SockStrong'
  BY <1>14, Strong_handleOut
<1>15. CASE WriteFails
  BY <1>15, Strong_WriteFails
<1>16. CASE handleTCPSSLNegotiationOut
  BY <1>16, Strong_NegotiationOut
<1>17. CASE handleTCPSSLNegotiationIn
  BY <1>17, Strong_NegotiationIn
<1>18. CASE UNCHANGED sockVars
  BY <1>18 DEF sockVars, SockStrong, SockTypes, Fresh, Living, Wanted, Gone, Erased, Sent
<1> QED BY <1>1, <1>2, <1>3, <1>4, <1>5, <1>6, <1>7, <1>8, <1>9, <1>10, <1>11, <1>12, <1>13, <1>14,
        <1>15, <1>16, <1>17, <1>18 DEF SockNext

\* Every socket, whatever is sent over it and however it ends, keeps SockStrong
\* (IOManager's handlers, the calls of its users and the tick).
THEOREM SockInvariant == SockSpec => []SockStrong
BY StrongInit, StrongStep, PTL DEF SockSpec

\* SockStrong says at least as much as SocketInv.
LEMMA StrongGivesInv == SockStrong => SocketInv
<1> SUFFICES ASSUME SockStrong PROVE SocketInv
  OBVIOUS
<1>1. SockTypes /\ (~client.began => Fresh) /\ (sock.live => Living) /\ (Erased => Gone)
  BY DEF SockStrong
<1>2. SockTypeOK
  <2>1. sock \in SockRec /\ peer \in PeerRec
    BY <1>1 DEF SockTypes
  <2>2. sock.paused = (sock.auto \/ sock.manual) \/ ~sock.live
    BY <1>1, <2>1 DEF Living, SockRec
  <2> QED BY <2>1, <2>2 DEF SockTypeOK, SockRec, PeerRec, Bytes
<1>3. SentInOrder
  BY <1>1 DEF SockStrong, SentInOrder, Living
<1>4. WatchedForWork
  <2>1. sock.type \in SocketType
    BY <1>1 DEF SockTypes, SockRec
  <2> QED BY <1>1, <2>1 DEF WatchedForWork, Living, Wanted, SocketType, Plain
<1>5. EndToldOnce
  BY <1>1 DEF EndToldOnce, Living, Gone, Fresh, Erased, Events, SockTypes, SockRec, ClientRec
<1>6. ClosesWhenSent
  BY <1>1 DEF ClosesWhenSent, Gone
<1>7. TimedWhileConnecting
  BY <1>1 DEF TimedWhileConnecting, Living, Gone, Fresh, Erased, SockTypes, SockRec
<1> QED BY <1>2, <1>3, <1>4, <1>5, <1>6, <1>7 DEF SocketInv

\* No byte sent over a socket is lost, doubled or overtaken, a socket that is not
\* paused is watched for what it waits for, its user hears of its end once, closing
\* waits for the queue and only an attempt to connect is timed, for any number of
\* sends and pauses (iomanager.cpp).
THEOREM SocketCorrect == SockSpec => []SocketInv
BY SockInvariant, StrongGivesInv, PTL

(***************************************************************************)
(* SignalEvents.                                                           *)
(***************************************************************************)
\* The slots that are set.
Used == {i \in Slots : slots[i] # None}

SignalInv == SignalTypeOK /\ HasEventExact /\ NoSignalLost

\* There are finitely many slots.
LEMMA UsedFinite == IsFiniteSet(Used)
<1>1. IsFiniteSet(Slots)
  BY SlotAssumption, FS_Interval DEF Slots
<1>2. Used \in SUBSET Slots
  BY DEF Used
<1> QED BY <1>1, <1>2, FS_Subset

\* HasEventExact, with the set named.
LEMMA ExactDef == (HasEventExact <=> hasevent = Cardinality(Used))
                  /\ (HasEventExact' <=> hasevent' = Cardinality(Used'))
BY DEF HasEventExact, Used

\* The invariant holds at the start.
LEMMA SignalInit == Init => SignalInv
<1> SUFFICES ASSUME Init PROVE SignalInv
  OBVIOUS
<1>1. Used = {}
  BY DEF Init, Used
<1>2. HasEventExact
  BY <1>1, FS_EmptySet, ExactDef DEF Init
<1>3. SignalTypeOK /\ NoSignalLost
  BY DEF Init, SignalTypeOK, NoSignalLost
<1> QED BY <1>2, <1>3 DEF SignalInv

\* A signal is raised.
LEMMA SetKeeps ==
  ASSUME SignalInv, ~asserted, NEW s \in Signals, set(s)
  PROVE  SignalInv'
<1>0. slots \in [Slots -> Signals \cup {None}] /\ hasevent \in Nat /\ owed \subseteq Signals
  BY DEF SignalInv, SignalTypeOK
<1>1. owed' = owed \cup {s}
  BY DEF set
<1>2. ASSUME NEW i \in Slots, slots[i] = None, slots' = [slots EXCEPT ![i] = s],
             hasevent' = hasevent + 1, UNCHANGED asserted
      PROVE  SignalInv'
  <2>1. slots'[i] = s /\ \A j \in Slots \ {i} : slots'[j] = slots[j]
    BY <1>0, <1>2
  <2>2. Used' = Used \cup {i} /\ i \notin Used
    BY <1>2, <2>1, NoneAssumption DEF Used
  <2>3. HasEventExact'
    BY <1>2, <2>2, UsedFinite, FS_AddElement, ExactDef DEF SignalInv
  <2>4. NoSignalLost'
    <3> SUFFICES ASSUME NEW x \in owed \cup {s} PROVE \E j \in Slots : slots'[j] = x
      BY <1>1 DEF NoSignalLost
    <3>1. CASE x = s
      BY <2>1, <3>1
    <3>2. CASE x # s
      <4>1. PICK j \in Slots : slots[j] = x
        BY <3>2 DEF SignalInv, NoSignalLost
      <4>2. j # i
        BY <1>0, <1>2, <3>2, <4>1, NoneAssumption
      <4> QED BY <2>1, <4>1, <4>2
    <3> QED BY <3>1, <3>2
  <2>5. SignalTypeOK'
    BY <1>0, <1>1, <1>2 DEF SignalInv, SignalTypeOK
  <2> QED BY <2>3, <2>4, <2>5 DEF SignalInv
<1>3. CASE (\E i \in Slots : slots[i] = s) /\ UNCHANGED <<slots, hasevent, asserted>>
  <2>1. Used' = Used
    BY <1>3 DEF Used
  <2>2. HasEventExact'
    BY <1>3, <2>1, ExactDef DEF SignalInv
  <2>3. NoSignalLost' /\ SignalTypeOK'
    BY <1>1, <1>3 DEF SignalInv, NoSignalLost, SignalTypeOK
  <2> QED BY <2>2, <2>3 DEF SignalInv
<1>4. CASE asserted' = TRUE /\ UNCHANGED <<slots, hasevent>>
  <2>1. Used' = Used
    BY <1>4 DEF Used
  <2>2. HasEventExact'
    BY <1>4, <2>1, ExactDef DEF SignalInv
  <2>3. NoSignalLost' /\ SignalTypeOK'
    BY <1>1, <1>4 DEF SignalInv, NoSignalLost, SignalTypeOK
  <2> QED BY <2>2, <2>3 DEF SignalInv
<1> QED BY <1>2, <1>3, <1>4 DEF set

\* A signal is delivered.  It may still wait in another slot, which then holds
\* nothing that is owed.
LEMMA ClearKeeps ==
  ASSUME SignalInv, getClearFirst
  PROVE  SignalInv'
<1>0. slots \in [Slots -> Signals \cup {None}] /\ hasevent \in Nat /\ owed \subseteq Signals
  BY DEF SignalInv, SignalTypeOK
<1>1. PICK i \in Slots : /\ slots[i] # None /\ slots' = [slots EXCEPT ![i] = None]
                         /\ hasevent' = hasevent - 1 /\ owed' = owed \ {slots[i]}
  BY DEF getClearFirst
<1>2. hasevent > 0 /\ asserted' = asserted
  BY DEF getClearFirst
<1>3. slots'[i] = None /\ \A j \in Slots \ {i} : slots'[j] = slots[j]
  BY <1>0, <1>1
<1>4. Used' = Used \ {i} /\ i \in Used
  BY <1>1, <1>3 DEF Used
<1>5. HasEventExact'
  BY <1>1, <1>4, UsedFinite, FS_RemoveElement, ExactDef DEF SignalInv
<1>6. NoSignalLost'
  <2> SUFFICES ASSUME ~asserted, NEW x \in owed \ {slots[i]}
               PROVE  \E j \in Slots : slots'[j] = x
    BY <1>1, <1>2 DEF NoSignalLost
  <2>1. PICK j \in Slots : slots[j] = x
    BY DEF SignalInv, NoSignalLost
  <2>2. j # i
    BY <2>1
  <2> QED BY <1>3, <2>1, <2>2
<1>7. SignalTypeOK'
  BY <1>0, <1>1, <1>2 DEF SignalInv, SignalTypeOK
<1> QED BY <1>5, <1>6, <1>7 DEF SignalInv

\* Nothing changes.
LEMMA SignalStutter == SignalInv /\ UNCHANGED vars => SignalInv'
BY DEF vars, SignalInv, SignalTypeOK, HasEventExact, NoSignalLost

\* The invariant is inductive.
LEMMA SignalInvariant == Spec => []SignalInv
<1>1. SignalInv /\ [Next]_vars => SignalInv'
  BY SetKeeps, ClearKeeps, SignalStutter DEF Next, Crashed
<1> QED BY <1>1, SignalInit, PTL DEF Spec

\* hasEvent tells the worker the truth about the slots, for any number of slots.
THEOREM HasEventCorrect == Spec => []HasEventExact
BY SignalInvariant, PTL DEF SignalInv

\* No signal is lost as long as a slot is found: coalesced signals leave one in
\* a slot until after the last of them.
THEOREM SignalsKept == Spec => []NoSignalLost
BY SignalInvariant, PTL DEF SignalInv

\* Both for any number of signals and slots: the counter the worker looks at is
\* exact and what was raised is still to be delivered.
THEOREM SignalsCorrect == Spec => []SignalsAccounted
BY HasEventCorrect, SignalsKept, PTL DEF SignalsAccounted

(***************************************************************************)
(* FileLists, for any finite set of names and any sizes: the counters      *)
(* agree with the files, the index leads to files of the list, a listing   *)
(* leaves nothing behind that it did not name, and every change is marked  *)
(* for the scoreboard.                                                     *)
(*                                                                         *)
(* SweptClean speaks of the end of a listing only.  What makes it          *)
(* inductive is Scanning: while lines are read the names seen are the      *)
(* files touched, and their number is the count of lines, so that a list   *)
(* with no more files than lines holds nothing but the lines.              *)
(***************************************************************************)
Book == [owned : Nat, uploaded : Nat, uploading : Nat,
         update : UpdateStates, board : UpdateStates,
         changed : SUBSET Name,
         failures : 0..(MAX_LIST_FAILURES_BEFORE_STATE_FAILED - 1),
         state : FileListStates]
Scan == [phase : {"idle", "lines", "sweep"}, count : Nat,
         seen : SUBSET Name, erase : SUBSET Name]
Simil == [checked : BOOLEAN, first : Name \cup {NoSimilar}]

FilesOK == Known \subseteq Name /\ files \in [Known -> FileRec]
IndexOK == index \in [DOMAIN index -> Name] /\ DOMAIN index \subseteq Name /\ IndexSound

\* All but the listing.
ListCore ==
  FilesOK /\ book \in Book /\ IndexOK /\ simil \in Simil /\ CountersExact

\* What a listing has seen and what it is going to erase.
Scanning ==
  /\ scan \in Scan
  /\ scan.phase = "idle" =>
       scan.count = 0 /\ scan.seen = {} /\ \A n \in Known : ~files[n].touched
  /\ scan.phase = "lines" =>
       /\ scan.seen = {n \in Known : files[n].touched}
       /\ scan.count = Cardinality(scan.seen)
  /\ scan.phase = "sweep" => Known \subseteq scan.seen \cup Uploading \cup scan.erase
  /\ scan.phase = "sweep" => scan.erase \subseteq Known

ListStrong == ListCore /\ Scanning

-----------------------------------------------------------------------------
(***************************************************************************)
(* Counting the files that have a property when one file changes.          *)
(***************************************************************************)
\* A set that gains or loses one member.
LEMMA CardDelta ==
  ASSUME NEW S, IsFiniteSet(S), NEW n, NEW P \in BOOLEAN, NEW T,
         T = (S \ {n}) \cup (IF P THEN {n} ELSE {})
  PROVE  /\ Cardinality(S) \in Nat /\ Cardinality(T) \in Nat
         /\ Cardinality(T) = Cardinality(S) + One(P) - One(n \in S)
<1>1. /\ IsFiniteSet(S \ {n})
      /\ Cardinality(S) \in Nat
      /\ Cardinality(S \ {n}) \in Nat
      /\ Cardinality(S \ {n}) = IF n \in S THEN Cardinality(S) - 1 ELSE Cardinality(S)
  BY FS_RemoveElement, FS_CardinalityType
<1>2. CASE P
  <2>1. T = (S \ {n}) \cup {n} /\ n \notin S \ {n}
    BY <1>2
  <2>2. Cardinality(T) = Cardinality(S \ {n}) + 1
    BY <1>1, <2>1, FS_AddElement
  <2> QED BY <1>1, <1>2, <2>2 DEF One
<1>3. CASE ~P
  <2>1. T = S \ {n}
    BY <1>3
  <2> QED BY <1>1, <1>3, <2>1 DEF One
<1> QED BY <1>2, <1>3

\* The list is finite, for its names are.
LEMMA KnownFinite ==
  ASSUME FilesOK
  PROVE  /\ IsFiniteSet(Known) /\ IsFiniteSet(Uploaded) /\ IsFiniteSet(Owned)
         /\ IsFiniteSet(Uploading)
<1>1. IsFiniteSet(Known)
  BY NameAssumption, FS_Subset DEF FilesOK
<1> QED BY <1>1, FS_Subset DEF Uploaded, Owned, Uploading

\* The three counts when a file is added or replaced.
LEMMA WithFileCounts ==
  ASSUME FilesOK, NEW n \in Name, NEW f \in FileRec, files' = WithFile(n, f)
  PROVE  /\ FilesOK' /\ Known' = Known \cup {n}
         /\ Cardinality(Uploaded)' = Cardinality(Uploaded) + One(Counts(f)) - One(n \in Uploaded)
         /\ Cardinality(Owned)' = Cardinality(Owned) + One(f.mine) - One(n \in Owned)
         /\ Cardinality(Uploading)' = Cardinality(Uploading) + One(f.uploading) - One(n \in Uploading)
         /\ Cardinality(Uploaded)' \in Nat /\ Cardinality(Owned)' \in Nat
         /\ Cardinality(Uploading)' \in Nat
<1>1. Known' = Known \cup {n} /\ \A m \in Known' : files'[m] = IF m = n THEN f ELSE files[m]
  BY DEF Known, WithFile
<1>2. FilesOK'
  BY <1>1 DEF FilesOK, Known, WithFile
<1>3. /\ Uploaded' = (Uploaded \ {n}) \cup (IF Counts(f) THEN {n} ELSE {})
      /\ Owned' = (Owned \ {n}) \cup (IF f.mine THEN {n} ELSE {})
      /\ Uploading' = (Uploading \ {n}) \cup (IF f.uploading THEN {n} ELSE {})
  BY <1>1 DEF Uploaded, Owned, Uploading, Counts
<1>4. Counts(f) \in BOOLEAN /\ f.mine \in BOOLEAN /\ f.uploading \in BOOLEAN
  BY DEF Counts, FileRec
<1> HIDE DEF Uploaded, Owned, Uploading, Counts
<1>5. /\ Cardinality(Uploaded') = Cardinality(Uploaded) + One(Counts(f)) - One(n \in Uploaded)
      /\ Cardinality(Uploaded') \in Nat
  BY <1>3, <1>4, KnownFinite, CardDelta
<1>6. /\ Cardinality(Owned') = Cardinality(Owned) + One(f.mine) - One(n \in Owned)
      /\ Cardinality(Owned') \in Nat
  BY <1>3, <1>4, KnownFinite, CardDelta
<1>7. /\ Cardinality(Uploading') = Cardinality(Uploading) + One(f.uploading) - One(n \in Uploading)
      /\ Cardinality(Uploading') \in Nat
  BY <1>3, <1>4, KnownFinite, CardDelta
<1> QED BY <1>1, <1>2, <1>5, <1>6, <1>7

\* The three counts when a file is removed.
LEMMA DropCounts ==
  ASSUME FilesOK, NEW n \in Known, files' = Drop(n)
  PROVE  /\ FilesOK' /\ Known' = Known \ {n}
         /\ Cardinality(Uploaded)' = Cardinality(Uploaded) - One(n \in Uploaded)
         /\ Cardinality(Owned)' = Cardinality(Owned) - One(n \in Owned)
         /\ Cardinality(Uploading)' = Cardinality(Uploading) - One(n \in Uploading)
         /\ Cardinality(Uploaded)' \in Nat /\ Cardinality(Owned)' \in Nat
         /\ Cardinality(Uploading)' \in Nat
<1>1. Known' = Known \ {n} /\ \A m \in Known' : files'[m] = files[m]
  BY DEF Known, Drop
<1>2. FilesOK'
  BY <1>1 DEF FilesOK, Known, Drop
<1>3. /\ Uploaded' = (Uploaded \ {n}) \cup (IF FALSE THEN {n} ELSE {})
      /\ Owned' = (Owned \ {n}) \cup (IF FALSE THEN {n} ELSE {})
      /\ Uploading' = (Uploading \ {n}) \cup (IF FALSE THEN {n} ELSE {})
  BY <1>1 DEF Uploaded, Owned, Uploading
<1>4. /\ Cardinality(Uploaded') = Cardinality(Uploaded) + One(FALSE) - One(n \in Uploaded)
      /\ Cardinality(Uploaded') \in Nat /\ Cardinality(Uploaded) \in Nat
  BY <1>3, KnownFinite, CardDelta
<1>5. /\ Cardinality(Owned') = Cardinality(Owned) + One(FALSE) - One(n \in Owned)
      /\ Cardinality(Owned') \in Nat /\ Cardinality(Owned) \in Nat
  BY <1>3, KnownFinite, CardDelta
<1>6. /\ Cardinality(Uploading') = Cardinality(Uploading) + One(FALSE) - One(n \in Uploading)
      /\ Cardinality(Uploading') \in Nat /\ Cardinality(Uploading) \in Nat
  BY <1>3, KnownFinite, CardDelta
<1> QED BY <1>1, <1>2, <1>4, <1>5, <1>6 DEF One

-----------------------------------------------------------------------------
(***************************************************************************)
(* The marks.                                                              *)
(***************************************************************************)
LEMMA BumpKeeps ==
  ASSUME NEW b \in Book, NEW u \in UpdateStates
  PROVE  /\ bumpUpdateState(b, u) \in Book
         /\ bumpUpdateState(b, u).owned = b.owned
         /\ bumpUpdateState(b, u).uploaded = b.uploaded
         /\ bumpUpdateState(b, u).uploading = b.uploading
         /\ bumpUpdateState(b, u).changed = b.changed
         /\ bumpUpdateState(b, u).board = IntMax(b.board, u)
BY DEF bumpUpdateState, Book, UpdateStates, IntMax

\* setChanged touches only the counter of changes.
LEMMA ChangedKeeps ==
  ASSUME NEW b \in Book
  PROVE  /\ setChanged(b) \in Book
         /\ setChanged(b).owned = b.owned
         /\ setChanged(b).uploaded = b.uploaded
         /\ setChanged(b).uploading = b.uploading
         /\ setChanged(b).changed = b.changed
         /\ setChanged(b).board = CHANGED
<1>1. bumpUpdateState(b, CHANGED) \in Book /\ IntMax(b.board, CHANGED) = CHANGED
  BY BumpKeeps DEF CHANGED, UpdateStates, Book, IntMax
<1>2. 0 \in 0..(MAX_LIST_FAILURES_BEFORE_STATE_FAILED - 1)
  BY FailuresAssumption
<1> QED
  BY <1>1, <1>2, BumpKeeps DEF setChanged, Book, CHANGED, UpdateStates

-----------------------------------------------------------------------------
(***************************************************************************)
(* The operations on files.                                                *)
(***************************************************************************)
LEMMA AddKeeps ==
  ASSUME ListCore, NEW n \in Name, n \notin Known, NEW f \in FileRec, AddFile(n, f)
  PROVE  /\ ListCore' /\ Known' = Known \cup {n}
         /\ book'.board = CHANGED /\ book'.changed = book.changed \cup {n}
<1> DEFINE b == [book EXCEPT
                   !.uploaded = @ + One(Counts(f)), !.owned = @ + One(f.mine),
                   !.uploading = @ + One(f.uploading), !.changed = @ \cup {n}]
<1>1. n \notin Uploaded /\ n \notin Owned /\ n \notin Uploading
  BY DEF Uploaded, Owned, Uploading
<1>2. One(Counts(f)) \in Nat /\ One(f.mine) \in Nat /\ One(f.uploading) \in Nat /\ One(FALSE) = 0
  BY DEF One
<1>3. /\ b \in Book /\ b.uploaded = book.uploaded + One(Counts(f))
      /\ b.owned = book.owned + One(f.mine) /\ b.uploading = book.uploading + One(f.uploading)
      /\ b.changed = book.changed \cup {n}
  <2>1. book \in Book
    BY DEF ListCore
  <2>2. /\ book.uploaded + One(Counts(f)) \in Nat /\ book.owned + One(f.mine) \in Nat
        /\ book.uploading + One(f.uploading) \in Nat /\ book.changed \cup {n} \in SUBSET Name
    BY <1>2, <2>1 DEF Book
  <2> QED BY <2>1, <2>2 DEF Book
<1>4. book' = setChanged(b)
  BY DEF AddFile
<1> HIDE DEF b
<1>5. /\ FilesOK' /\ Known' = Known \cup {n}
      /\ Cardinality(Uploaded)' = Cardinality(Uploaded) + One(Counts(f)) - One(n \in Uploaded)
      /\ Cardinality(Owned)' = Cardinality(Owned) + One(f.mine) - One(n \in Owned)
      /\ Cardinality(Uploading)' = Cardinality(Uploading) + One(f.uploading) - One(n \in Uploading)
  BY WithFileCounts DEF AddFile, ListCore
<1>6. book' \in Book /\ book'.board = CHANGED /\ book'.changed = book.changed \cup {n}
  BY <1>3, <1>4, ChangedKeeps
<1>7. CountersExact'
  <2>1. /\ book'.uploaded = book.uploaded + One(Counts(f))
        /\ book'.owned = book.owned + One(f.mine)
        /\ book'.uploading = book.uploading + One(f.uploading)
    BY <1>3, <1>4, ChangedKeeps
  <2>2. book.uploaded \in Nat /\ book.owned \in Nat /\ book.uploading \in Nat
    BY DEF ListCore, Book
  <2>3. One(n \in Uploaded) = 0 /\ One(n \in Owned) = 0 /\ One(n \in Uploading) = 0
    BY <1>1 DEF One
  <2> QED BY <1>2, <1>5, <2>1, <2>2, <2>3 DEF ListCore, CountersExact
<1>8. IndexOK'
  <2>1. LowerOf[n] \in Name
    BY LowerAssumption
  <2>2. index' = PutIndex(n)
    BY DEF AddFile
  <2>3. DOMAIN index' = DOMAIN index \cup {LowerOf[n]}
    BY <2>2 DEF PutIndex
  <2>4. \A k \in DOMAIN index' : index'[k] = IF k = LowerOf[n] THEN n ELSE index[k]
    BY <2>2, <2>3 DEF PutIndex
  <2>5. index' \in [DOMAIN index' -> Name]
    BY <2>1, <2>2, <2>3, <2>4 DEF PutIndex, ListCore, IndexOK
  <2> QED BY <1>5, <2>1, <2>3, <2>4, <2>5 DEF ListCore, IndexOK, IndexSound
<1>9. simil' \in Simil
  BY DEF AddFile, SimilarAfterAdd, ListCore, Simil
<1> QED BY <1>5, <1>6, <1>7, <1>8, <1>9 DEF ListCore

\* FileList::removeFile keeps the list consistent.
LEMMA RemoveKeeps ==
  ASSUME ListCore, NEW n \in Known, RemoveEntry(n)
  PROVE  /\ ListCore' /\ Known' = Known \ {n}
         /\ \A m \in Known' : files'[m] = files[m]
         /\ book'.board = CHANGED /\ book'.changed = book.changed \cup {n}
<1> DEFINE f == files[n]
           b == [book EXCEPT
                   !.owned = @ - One(f.mine), !.uploaded = @ - One(Counts(f)),
                   !.uploading = @ - One(f.uploading), !.changed = @ \cup {n}]
<1>0. n \in Name
  BY DEF ListCore, FilesOK
<1>1. /\ (n \in Uploaded) = Counts(f) /\ (n \in Owned) = f.mine
      /\ (n \in Uploading) = f.uploading
  BY DEF Uploaded, Owned, Uploading, Counts, ListCore, FilesOK, FileRec
<1>2. One(Counts(f)) \in Nat /\ One(f.mine) \in Nat /\ One(f.uploading) \in Nat
  BY DEF One
<1>3. /\ FilesOK' /\ Known' = Known \ {n}
      /\ Cardinality(Uploaded)' = Cardinality(Uploaded) - One(Counts(f))
      /\ Cardinality(Owned)' = Cardinality(Owned) - One(f.mine)
      /\ Cardinality(Uploading)' = Cardinality(Uploading) - One(f.uploading)
      /\ Cardinality(Uploaded)' \in Nat /\ Cardinality(Owned)' \in Nat
      /\ Cardinality(Uploading)' \in Nat
  BY <1>1, DropCounts DEF RemoveEntry, ListCore
<1>4. \A m \in Known' : files'[m] = files[m]
  BY <1>3 DEF RemoveEntry, Drop
<1>5. /\ b \in Book /\ b.uploaded = Cardinality(Uploaded)'
      /\ b.owned = Cardinality(Owned)' /\ b.uploading = Cardinality(Uploading)'
      /\ b.changed = book.changed \cup {n}
  BY <1>0, <1>2, <1>3 DEF ListCore, Book, CountersExact
<1>6. book' = setChanged(b)
  BY DEF RemoveEntry
<1> HIDE DEF b
<1>7. book' \in Book /\ book'.board = CHANGED /\ book'.changed = book.changed \cup {n}
  BY <1>5, <1>6, ChangedKeeps
<1>8. CountersExact'
  BY <1>5, <1>6, ChangedKeeps DEF CountersExact
<1>9. IndexOK'
  <2>1. index' = DropIndex(n)
    BY DEF RemoveEntry
  <2>2. DOMAIN index' = DOMAIN index \ {LowerOf[n]} /\ \A k \in DOMAIN index' : index'[k] = index[k]
    BY <2>1 DEF DropIndex
  <2>3. index' \in [DOMAIN index' -> Name]
    BY <2>1, <2>2 DEF DropIndex, ListCore, IndexOK
  <2> QED BY <1>3, <2>2, <2>3 DEF ListCore, IndexOK, IndexSound
<1>10. simil' \in Simil
  <2>1. simil' \in SimilarAfterRemove(n) /\ simil \in Simil
    BY DEF RemoveEntry, ListCore
  <2>2. \A m \in Similar : m \in Name
    BY NameAssumption
  <2>3. simil' = simil \/ \E m \in Similar : simil' = [checked |-> TRUE, first |-> m]
    BY <2>1 DEF SimilarAfterRemove
  <2>4. \A m \in Name : [checked |-> TRUE, first |-> m] \in Simil
    BY DEF Simil
  <2> QED BY <2>1, <2>2, <2>3, <2>4
<1> QED BY <1>3, <1>4, <1>7, <1>8, <1>9, <1>10 DEF ListCore

\* A file of the list is replaced: the counts, and what does not change.
LEMMA ReplaceCounts ==
  ASSUME ListCore, NEW n \in Known, NEW f \in FileRec, files' = WithFile(n, f)
  PROVE  /\ FilesOK' /\ Known' = Known
         /\ \A m \in Known : files'[m] = IF m = n THEN f ELSE files[m]
         /\ Cardinality(Uploaded)' = book.uploaded + One(Counts(f)) - One(Counts(files[n]))
         /\ Cardinality(Owned)' = book.owned + One(f.mine) - One(files[n].mine)
         /\ Cardinality(Uploading)' = book.uploading + One(f.uploading) - One(files[n].uploading)
         /\ Cardinality(Uploaded)' \in Nat /\ Cardinality(Owned)' \in Nat
         /\ Cardinality(Uploading)' \in Nat
<1>1. n \in Name /\ Known \cup {n} = Known
  BY DEF ListCore, FilesOK
<1>2. /\ (n \in Uploaded) = Counts(files[n]) /\ (n \in Owned) = files[n].mine
      /\ (n \in Uploading) = files[n].uploading
  BY DEF Uploaded, Owned, Uploading, Counts, ListCore, FilesOK, FileRec
<1>3. \A m \in Known : files'[m] = IF m = n THEN f ELSE files[m]
  BY DEF WithFile
<1> QED BY <1>1, <1>2, <1>3, WithFileCounts DEF ListCore, CountersExact

\* The index and firstsimilar are as before, and so are the files' names.
LEMMA SameNames ==
  ASSUME ListCore, UNCHANGED <<index, simil>>, Known' = Known
  PROVE  IndexOK' /\ simil' \in Simil
BY DEF ListCore, IndexOK, IndexSound

\* FileList::updateFile keeps the list consistent, whatever entry arrives.
LEMMA UpdateKeeps ==
  ASSUME ListCore, NEW n \in Known, NEW e \in Entry, UpdateKnown(n, e)
  PROVE  /\ ListCore' /\ Known' = Known
         /\ \A m \in Known : files'[m] =
              IF m = n THEN [files[n] EXCEPT !.size = e.size, !.mine = e.mine, !.touched = TRUE]
              ELSE files[m]
         /\ book.changed \subseteq book'.changed
         /\ e.size # files[n].size => n \in book'.changed /\ book'.board = CHANGED
<1> DEFINE old == files[n]
           new == [old EXCEPT !.size = e.size, !.mine = e.mine, !.touched = TRUE]
           resized == e.size # old.size
           reowned == e.mine # old.mine
           b == [book EXCEPT
                   !.uploaded = @ + One(Counts(new)) - One(Counts(old)),
                   !.owned = @ + One(new.mine) - One(old.mine),
                   !.changed = IF resized \/ reowned THEN @ \cup {n} ELSE @]
<1>0. n \in Name /\ old \in FileRec /\ book \in Book
  BY DEF ListCore, FilesOK
<1>1. new \in FileRec /\ new.uploading = old.uploading
  BY <1>0 DEF FileRec, Entry
<1>2. /\ files' = WithFile(n, new)
      /\ book' = IF resized THEN setChanged(b)
                 ELSE IF reowned THEN bumpUpdateState(b, META_CHANGED) ELSE b
      /\ UNCHANGED <<index, simil>>
  BY DEF UpdateKnown
<1> HIDE DEF new
<1>3. /\ FilesOK' /\ Known' = Known
      /\ \A m \in Known : files'[m] = IF m = n THEN new ELSE files[m]
      /\ Cardinality(Uploaded)' = book.uploaded + One(Counts(new)) - One(Counts(old))
      /\ Cardinality(Owned)' = book.owned + One(new.mine) - One(old.mine)
      /\ Cardinality(Uploading)' = book.uploading + One(new.uploading) - One(old.uploading)
      /\ Cardinality(Uploaded)' \in Nat /\ Cardinality(Owned)' \in Nat
      /\ Cardinality(Uploading)' \in Nat
  BY <1>1, <1>2, ReplaceCounts
<1>4. Cardinality(Uploading)' = book.uploading
  BY <1>0, <1>1, <1>3 DEF One, Book
<1>5. /\ b \in Book /\ b.uploaded = Cardinality(Uploaded)'
      /\ b.owned = Cardinality(Owned)' /\ b.uploading = Cardinality(Uploading)'
      /\ b.changed = IF resized \/ reowned THEN book.changed \cup {n} ELSE book.changed
  <2>1. (IF resized \/ reowned THEN book.changed \cup {n} ELSE book.changed) \in SUBSET Name
    BY <1>0 DEF Book
  <2> QED BY <1>0, <1>3, <1>4, <2>1 DEF Book
<1> HIDE DEF b
<1>6. /\ book' \in Book /\ book'.uploaded = b.uploaded /\ book'.owned = b.owned
      /\ book'.uploading = b.uploading /\ book'.changed = b.changed
      /\ resized => book'.board = CHANGED
  BY <1>2, <1>5, ChangedKeeps, BumpKeeps DEF META_CHANGED, UpdateStates
<1>7. CountersExact'
  BY <1>5, <1>6 DEF CountersExact
<1>8. IndexOK' /\ simil' \in Simil
  BY <1>2, <1>3, SameNames
<1>9. /\ book.changed \subseteq book'.changed
      /\ resized => n \in book'.changed
  BY <1>5, <1>6
<1> QED BY <1>3, <1>6, <1>7, <1>8, <1>9 DEF ListCore, new

\* One line of a listing keeps the list consistent.
LEMMA LineKeeps ==
  ASSUME ListCore, NEW n \in Name, NEW e \in Entry, updateFileInternal(n, e)
  PROVE  /\ ListCore' /\ Known' = Known \cup {n}
         /\ \A m \in Known \ {n} : files'[m] = files[m]
         /\ files'[n].touched
         /\ book.changed \subseteq book'.changed
         /\ (n \notin Known \/ e.size # files[n].size) =>
              n \in book'.changed /\ book'.board = CHANGED
         /\ files'[n].size = e.size
<1>1. CASE n \in Known
  <2>1. UpdateKnown(n, e)
    BY <1>1 DEF updateFileInternal
  <2>2. files'[n] = [files[n] EXCEPT !.size = e.size, !.mine = e.mine, !.touched = TRUE]
    BY <1>1, <2>1, UpdateKeeps
  <2>3. files[n] \in FileRec
    BY <1>1 DEF ListCore, FilesOK
  <2>4. files'[n].touched /\ files'[n].size = e.size
    BY <2>2, <2>3 DEF FileRec
  <2> QED BY <1>1, <2>1, <2>4, UpdateKeeps
<1>2. CASE n \notin Known
  <2> DEFINE f == [size |-> e.size, mine |-> e.mine, dir |-> e.dir,
                   uploading |-> FALSE, touched |-> TRUE]
  <2>1. f \in FileRec /\ f.touched /\ f.size = e.size
    BY DEF FileRec, Entry
  <2>2. AddFile(n, f)
    BY <1>2 DEF updateFileInternal
  <2> HIDE DEF f
  <2>3. /\ ListCore' /\ Known' = Known \cup {n}
        /\ book'.board = CHANGED /\ book'.changed = book.changed \cup {n}
    BY <1>2, <2>1, <2>2, AddKeeps
  <2>4. \A m \in Known \cup {n} : files'[m] = IF m = n THEN f ELSE files[m]
    BY <2>2 DEF AddFile, WithFile
  <2> QED BY <1>2, <2>1, <2>3, <2>4
<1> QED BY <1>1, <1>2

-----------------------------------------------------------------------------
(***************************************************************************)
(* The actions, each with what ChangeMarked says of it.                    *)
(***************************************************************************)
Marked ==
  \A n \in Name :
    /\ Visible(n)' # Visible(n) => n \in book'.changed /\ book'.board = CHANGED
    /\ n \in book.changed /\ n \notin book'.changed => UNCHANGED files

\* The action removeFile.
LEMMA RemoveFileOK ==
  ASSUME ListStrong, NEW n \in Name, removeFile(n)
  PROVE  ListStrong' /\ Marked
<1>1. /\ n \in Known /\ RemoveEntry(n) /\ scan' = scan /\ scan.phase = "idle" /\ ListCore
  BY DEF removeFile, ListStrong, Idle
<1>2. /\ ListCore' /\ Known' = Known \ {n}
      /\ \A m \in Known' : files'[m] = files[m]
      /\ book'.board = CHANGED /\ book'.changed = book.changed \cup {n}
  BY <1>1, RemoveKeeps
<1>3. Scanning'
  BY <1>1, <1>2 DEF ListStrong, Scanning
<1>4. Marked
  BY <1>1, <1>2 DEF Marked, Visible
<1> QED BY <1>2, <1>3, <1>4 DEF ListStrong

\* The action touchFile.
LEMMA TouchFileOK ==
  ASSUME ListStrong, NEW n \in Name, NEW mine \in BOOLEAN, NEW upload \in BOOLEAN,
         touchFile(n, mine, upload)
  PROVE  ListStrong' /\ Marked
<1>0. ListCore /\ scan' = scan /\ scan.phase = "idle" /\ book \in Book
  BY DEF touchFile, ListStrong, Idle, ListCore
<1>1. CASE n \in Known
  <2> DEFINE new == [files[n] EXCEPT !.uploading = @ \/ upload]
             fresh == upload /\ ~files[n].uploading
  <2>1. files[n] \in FileRec
    BY <1>0, <1>1 DEF ListCore, FilesOK
  <2>2. /\ new \in FileRec /\ new.size = files[n].size /\ new.mine = files[n].mine
        /\ new.dir = files[n].dir /\ new.touched = files[n].touched
        /\ new.uploading = (files[n].uploading \/ upload)
    BY <2>1 DEF FileRec
  <2>3. /\ files' = WithFile(n, new) /\ book' = [book EXCEPT !.uploading = @ + One(fresh)]
        /\ UNCHANGED <<index, simil>>
    BY <1>1 DEF touchFile
  <2>4. One(fresh) = One(new.uploading) - One(files[n].uploading) /\ One(fresh) \in Nat
    BY <2>1, <2>2 DEF One, FileRec
  <2> HIDE DEF new, fresh
  <2>5. /\ FilesOK' /\ Known' = Known
        /\ \A m \in Known : files'[m] = IF m = n THEN new ELSE files[m]
        /\ Cardinality(Uploaded)' = book.uploaded + One(Counts(new)) - One(Counts(files[n]))
        /\ Cardinality(Owned)' = book.owned + One(new.mine) - One(files[n].mine)
        /\ Cardinality(Uploading)' = book.uploading + One(new.uploading) - One(files[n].uploading)
    BY <1>0, <1>1, <2>2, <2>3, ReplaceCounts
  <2>6. /\ book' \in Book /\ book'.uploaded = book.uploaded /\ book'.owned = book.owned
        /\ book'.uploading = book.uploading + One(fresh) /\ book'.changed = book.changed
    BY <1>0, <2>3, <2>4 DEF Book
  <2>7. Cardinality(Uploaded)' = book.uploaded /\ Cardinality(Owned)' = book.owned
    BY <1>0, <2>2, <2>5 DEF Counts, One, Book
  <2>8. Cardinality(Uploading)' = book.uploading + One(fresh)
    BY <1>0, <2>4, <2>5 DEF One, Book
  <2>9. IndexOK' /\ simil' \in Simil
    BY <1>0, <2>3, <2>5, SameNames
  <2>10. ListCore'
    BY <2>5, <2>6, <2>7, <2>8, <2>9 DEF ListCore, CountersExact
  <2>11. Scanning'
    BY <1>0, <2>2, <2>5 DEF ListStrong, Scanning
  <2>12. Marked
    BY <1>0, <2>2, <2>5, <2>6 DEF Marked, Visible
  <2> QED BY <2>10, <2>11, <2>12 DEF ListStrong
<1>2. CASE n \notin Known
  <2> DEFINE f == [size |-> 0, mine |-> mine, dir |-> FALSE, uploading |-> upload, touched |-> FALSE]
  <2>1. f \in FileRec /\ ~f.touched
    BY SizeAssumption DEF FileRec
  <2>2. AddFile(n, f)
    BY <1>2 DEF touchFile
  <2> HIDE DEF f
  <2>3. /\ ListCore' /\ Known' = Known \cup {n}
        /\ book'.board = CHANGED /\ book'.changed = book.changed \cup {n}
    BY <1>0, <1>2, <2>1, <2>2, AddKeeps
  <2>4. \A m \in Known \cup {n} : files'[m] = IF m = n THEN f ELSE files[m]
    BY <2>2 DEF AddFile, WithFile
  <2>5. Scanning'
    BY <1>0, <2>1, <2>3, <2>4 DEF ListStrong, Scanning
  <2>6. Marked
    BY <2>3, <2>4 DEF Marked, Visible
  <2> QED BY <2>3, <2>5, <2>6 DEF ListStrong
<1> QED BY <1>1, <1>2

\* The action updateFile of a flag.
LEMMA UpdateFlagOK ==
  ASSUME ListStrong, NEW n \in Name, NEW size \in Size, setFileUpdateFlag(n, size)
  PROVE  ListStrong' /\ Marked
<1> DEFINE old == files[n].size
           new == [files[n] EXCEPT !.size = size]
           b == [book EXCEPT !.uploaded = @ + One(old = 0), !.changed = @ \cup {n}]
<1>0. /\ ListCore /\ scan' = scan /\ scan.phase = "idle" /\ book \in Book
      /\ n \in Known /\ ~files[n].dir /\ size >= old
      /\ files' = WithFile(n, new) /\ book' = (IF size # old THEN setChanged(b) ELSE book)
      /\ UNCHANGED <<index, simil>>
  BY DEF setFileUpdateFlag, ListStrong, Idle, ListCore
<1>1. files[n] \in FileRec /\ old \in Nat /\ size \in Nat
  BY <1>0, SizeAssumption DEF ListCore, FilesOK, FileRec
<1>2. /\ new \in FileRec /\ new.size = size /\ new.mine = files[n].mine
      /\ new.dir = files[n].dir /\ new.touched = files[n].touched
      /\ new.uploading = files[n].uploading
  BY <1>1 DEF FileRec
<1>3. One(old = 0) \in Nat
  BY DEF One
<1>4. b \in Book /\ b.uploaded = book.uploaded + One(old = 0) /\ b.owned = book.owned
      /\ b.uploading = book.uploading /\ b.changed = book.changed \cup {n}
  <2>1. book.uploaded + One(old = 0) \in Nat /\ book.changed \cup {n} \in SUBSET Name
    BY <1>0, <1>3 DEF Book
  <2> QED BY <1>0, <2>1 DEF Book
<1> HIDE DEF new, b
<1>5. /\ FilesOK' /\ Known' = Known
      /\ \A m \in Known : files'[m] = IF m = n THEN new ELSE files[m]
      /\ Cardinality(Uploaded)' = book.uploaded + One(Counts(new)) - One(Counts(files[n]))
      /\ Cardinality(Owned)' = book.owned + One(new.mine) - One(files[n].mine)
      /\ Cardinality(Uploading)' = book.uploading + One(new.uploading) - One(files[n].uploading)
  BY <1>0, <1>2, ReplaceCounts
<1>6. Cardinality(Owned)' = book.owned /\ Cardinality(Uploading)' = book.uploading
  BY <1>0, <1>2, <1>5 DEF One, Book
<1>7. /\ size # old => One(Counts(new)) - One(Counts(files[n])) = One(old = 0)
      /\ size = old => One(Counts(new)) - One(Counts(files[n])) = 0
  BY <1>0, <1>1, <1>2 DEF One, Counts
<1>8. Cardinality(Uploaded)' = book.uploaded + (IF size # old THEN One(old = 0) ELSE 0)
  <2>1. One(Counts(new)) \in Int /\ One(Counts(files[n])) \in Int /\ book.uploaded \in Int
    BY <1>0 DEF One, Book
  <2> QED BY <1>3, <1>5, <1>7, <2>1
<1>9. /\ book' \in Book /\ CountersExact'
      /\ size # old => n \in book'.changed /\ book'.board = CHANGED
      /\ book.changed \subseteq book'.changed
  <2>1. CASE size # old
    BY <1>0, <1>4, <1>6, <1>8, <2>1, ChangedKeeps DEF CountersExact
  <2>2. CASE size = old
    BY <1>0, <1>6, <1>8, <2>2 DEF CountersExact, Book
  <2> QED BY <2>1, <2>2
<1>10. IndexOK' /\ simil' \in Simil
  BY <1>0, <1>5, SameNames
<1>11. Scanning'
  BY <1>0, <1>2, <1>5 DEF ListStrong, Scanning
<1>12. Marked
  BY <1>0, <1>2, <1>5, <1>9 DEF Marked, Visible
<1> QED BY <1>5, <1>9, <1>10, <1>11, <1>12 DEF ListStrong, ListCore

\* The action finishUpload.
LEMMA FinishUploadOK ==
  ASSUME ListStrong, NEW n \in Name, finishUpload(n)
  PROVE  ListStrong' /\ Marked
<1> DEFINE new == [files[n] EXCEPT !.uploading = FALSE]
           b == [book EXCEPT !.uploading = @ - 1]
<1>0. /\ ListCore /\ scan' = scan /\ scan.phase = "idle" /\ book \in Book
      /\ n \in Known /\ files[n].uploading
      /\ files' = WithFile(n, new) /\ book' = setChanged(b) /\ UNCHANGED <<index, simil>>
  BY DEF finishUpload, ListStrong, Idle, ListCore, Uploading
<1>1. files[n] \in FileRec
  BY <1>0 DEF ListCore, FilesOK
<1>2. /\ new \in FileRec /\ new.size = files[n].size /\ new.mine = files[n].mine
      /\ new.dir = files[n].dir /\ new.touched = files[n].touched /\ ~new.uploading
  BY <1>1 DEF FileRec
<1> HIDE DEF new
<1>5. /\ FilesOK' /\ Known' = Known
      /\ \A m \in Known : files'[m] = IF m = n THEN new ELSE files[m]
      /\ Cardinality(Uploaded)' = book.uploaded + One(Counts(new)) - One(Counts(files[n]))
      /\ Cardinality(Owned)' = book.owned + One(new.mine) - One(files[n].mine)
      /\ Cardinality(Uploading)' = book.uploading + One(new.uploading) - One(files[n].uploading)
      /\ Cardinality(Uploading)' \in Nat
  BY <1>0, <1>2, ReplaceCounts
<1>6. /\ Cardinality(Owned)' = book.owned /\ Cardinality(Uploaded)' = book.uploaded
      /\ Cardinality(Uploading)' = book.uploading - 1
  BY <1>0, <1>2, <1>5 DEF One, Book, Counts
<1>7. /\ b \in Book /\ b.uploaded = book.uploaded /\ b.owned = book.owned
      /\ b.uploading = Cardinality(Uploading)' /\ b.changed = book.changed
  BY <1>0, <1>5, <1>6 DEF Book
<1> HIDE DEF b
<1>9. book' \in Book /\ CountersExact' /\ book'.changed = book.changed
  BY <1>0, <1>6, <1>7, ChangedKeeps DEF CountersExact
<1>10. IndexOK' /\ simil' \in Simil
  BY <1>0, <1>5, SameNames
<1>11. Scanning'
  BY <1>0, <1>2, <1>5 DEF ListStrong, Scanning
<1>12. Marked
  BY <1>0, <1>2, <1>5, <1>9 DEF Marked, Visible
<1> QED BY <1>5, <1>9, <1>10, <1>11, <1>12 DEF ListStrong, ListCore

\* The action that begins a listing.
LEMMA BeginListingOK ==
  ASSUME ListStrong, BeginListing
  PROVE  ListStrong' /\ Marked
<1>1. /\ UNCHANGED <<files, book, index, simil>> /\ scan.phase = "idle"
      /\ scan' = [scan EXCEPT !.phase = "lines"]
  BY DEF BeginListing, Idle
<1>2. ListCore' /\ Known' = Known
  BY <1>1 DEF ListStrong, ListCore, FilesOK, IndexOK, IndexSound, CountersExact,
              Known, Uploaded, Owned, Uploading
<1>3. /\ scan' \in Scan /\ scan'.phase = "lines" /\ scan'.count = 0 /\ scan'.seen = {}
  BY <1>1 DEF ListStrong, Scanning, Scan
<1>4. {n \in Known : files[n].touched} = {} /\ Cardinality({}) = 0
  BY <1>1, FS_EmptySet DEF ListStrong, Scanning
<1>5. Scanning'
  BY <1>1, <1>2, <1>3, <1>4 DEF Scanning
<1>6. Marked
  BY <1>1 DEF Marked, Visible, Known
<1> QED BY <1>2, <1>5, <1>6 DEF ListStrong

\* The action for a line of a listing.
LEMMA ListingLineOK ==
  ASSUME ListStrong, NEW n \in Name, NEW e \in Entry, ListingLine(n, e)
  PROVE  ListStrong' /\ Marked
<1>1. /\ scan.phase = "lines" /\ n \notin scan.seen /\ updateFileInternal(n, e) /\ ListCore
      /\ scan' = [scan EXCEPT !.count = @ + 1, !.seen = @ \cup {n}] /\ scan \in Scan
  BY DEF ListingLine, ListStrong, Scanning
<1>2. /\ ListCore' /\ Known' = Known \cup {n}
      /\ \A m \in Known \ {n} : files'[m] = files[m]
      /\ files'[n].touched
      /\ book.changed \subseteq book'.changed
      /\ (n \notin Known \/ e.size # files[n].size) => n \in book'.changed /\ book'.board = CHANGED
      /\ files'[n].size = e.size
  BY <1>1, LineKeeps
<1>3. /\ scan' \in Scan /\ scan'.phase = "lines" /\ scan'.count = scan.count + 1
      /\ scan'.seen = scan.seen \cup {n}
  <2>1. scan.seen \cup {n} \in SUBSET Name /\ scan.count + 1 \in Nat
    BY <1>1 DEF Scan
  <2> QED BY <1>1, <2>1 DEF Scan
<1>4. /\ scan.seen = {m \in Known : files[m].touched} /\ scan.count = Cardinality(scan.seen)
      /\ IsFiniteSet(scan.seen)
  <2>1. scan.seen = {m \in Known : files[m].touched} /\ scan.count = Cardinality(scan.seen)
    BY <1>1 DEF ListStrong, Scanning
  <2>2. IsFiniteSet(Known) /\ scan.seen \subseteq Known
    BY <1>1, <2>1, KnownFinite DEF ListCore
  <2> QED BY <2>1, <2>2, FS_Subset
<1>5. scan'.count = Cardinality(scan'.seen)
  BY <1>1, <1>3, <1>4, FS_AddElement
<1>6. scan'.seen = {m \in Known' : files'[m].touched}
  BY <1>2, <1>3, <1>4
<1>7. Scanning'
  BY <1>3, <1>5, <1>6 DEF Scanning
<1>8. Marked
  BY <1>2 DEF Marked, Visible
<1> QED BY <1>2, <1>7, <1>8 DEF ListStrong

\* As many lines as files: every file was on a line.
LEMMA EndLinesOK ==
  ASSUME ListStrong, EndLines
  PROVE  ListStrong' /\ Marked
<1>1. /\ UNCHANGED <<files, book, index, simil>> /\ scan.phase = "lines" /\ ListCore
      /\ scan' = [scan EXCEPT !.phase = "sweep",
                    !.erase = IF Cardinality(Known) > scan.count THEN Sweepable ELSE {}]
      /\ scan \in Scan
      /\ scan.seen = {n \in Known : files[n].touched} /\ scan.count = Cardinality(scan.seen)
  BY DEF EndLines, ListStrong, Scanning
<1>2. ListCore' /\ Known' = Known /\ Uploading' = Uploading
  BY <1>1 DEF ListCore, FilesOK, IndexOK, IndexSound, CountersExact,
              Known, Uploaded, Owned, Uploading
<1>3. Sweepable \in SUBSET Name /\ Sweepable \subseteq Known
  BY <1>1 DEF Sweepable, ListCore, FilesOK
<1>4. /\ scan' \in Scan /\ scan'.phase = "sweep" /\ scan'.seen = scan.seen
      /\ scan'.erase = IF Cardinality(Known) > scan.count THEN Sweepable ELSE {}
  BY <1>1, <1>3 DEF Scan
<1>5. Known \subseteq scan'.seen \cup Uploading \cup scan'.erase
  <2>1. CASE Cardinality(Known) > scan.count
    BY <1>1, <1>4, <2>1 DEF Sweepable, Uploading
  <2>2. CASE ~(Cardinality(Known) > scan.count)
    <3>1. IsFiniteSet(Known) /\ scan.seen \subseteq Known
      BY <1>1, KnownFinite DEF ListCore
    <3>2. /\ Cardinality(scan.seen) <= Cardinality(Known)
          /\ Cardinality(Known) \in Nat /\ Cardinality(scan.seen) \in Nat
      BY <3>1, FS_Subset, FS_CardinalityType
    <3>3. Cardinality(scan.seen) = Cardinality(Known)
      BY <1>1, <2>2, <3>2
    <3>4. scan.seen = Known
      BY <3>1, <3>3, FS_Subset
    <3> QED BY <1>4, <3>4
  <2> QED BY <2>1, <2>2
<1>6. Scanning'
  BY <1>2, <1>3, <1>4, <1>5 DEF Scanning
<1>7. Marked
  BY <1>1 DEF Marked, Visible, Known
<1> QED BY <1>2, <1>6, <1>7 DEF ListStrong

\* cleanSweep removes what the listing did not touch.
LEMMA CleanSweepOK ==
  ASSUME ListStrong, NEW n \in Name, cleanSweep(n)
  PROVE  ListStrong' /\ Marked
<1>1. /\ scan.phase = "sweep" /\ n \in scan.erase /\ RemoveEntry(n) /\ scan \in Scan /\ ListCore
      /\ scan' = [scan EXCEPT !.erase = @ \ {n}] /\ scan.erase \subseteq Known
      /\ Known \subseteq scan.seen \cup Uploading \cup scan.erase
  BY DEF cleanSweep, ListStrong, Scanning
<1>2. /\ ListCore' /\ Known' = Known \ {n}
      /\ \A m \in Known' : files'[m] = files[m]
      /\ book'.board = CHANGED /\ book'.changed = book.changed \cup {n}
  BY <1>1, RemoveKeeps
<1>3. /\ scan' \in Scan /\ scan'.phase = "sweep" /\ scan'.seen = scan.seen
      /\ scan'.erase = scan.erase \ {n}
  BY <1>1 DEF Scan
<1>4. Uploading' = Uploading \ {n}
  BY <1>2 DEF Uploading
<1>5. Scanning'
  BY <1>1, <1>2, <1>3, <1>4 DEF Scanning
<1>6. Marked
  BY <1>2 DEF Marked, Visible
<1> QED BY <1>2, <1>5, <1>6 DEF ListStrong

\* The action that ends a listing.
LEMMA EndListingOK ==
  ASSUME ListStrong, EndListing
  PROVE  ListStrong' /\ Marked
<1>1. /\ scan.phase = "sweep" /\ scan.erase = {} /\ scan \in Scan /\ ListCore /\ book \in Book
      /\ scan' = [scan EXCEPT !.phase = "idle", !.count = 0, !.seen = {}]
      /\ book' = [bumpUpdateState(book, REFRESHED) EXCEPT !.state = "LISTED"]
      /\ files' = [n \in Known |-> [files[n] EXCEPT !.touched = FALSE]]
      /\ UNCHANGED <<index, simil>>
  BY DEF EndListing, ListStrong, Scanning, ListCore
<1>2. Known' = Known /\ \A n \in Known : files'[n] = [files[n] EXCEPT !.touched = FALSE]
  BY <1>1 DEF Known
<1>3. \A n \in Known : files[n] \in FileRec
  BY <1>1 DEF ListCore, FilesOK
<1>4. \A n \in Known :
        /\ files'[n] \in FileRec /\ files'[n].size = files[n].size /\ files'[n].mine = files[n].mine
        /\ files'[n].dir = files[n].dir /\ files'[n].uploading = files[n].uploading
        /\ ~files'[n].touched
  BY <1>2, <1>3 DEF FileRec
<1>5. FilesOK'
  <2>1. files' \in [Known -> FileRec]
    BY <1>1, <1>2, <1>4
  <2> QED BY <1>1, <1>2, <2>1 DEF FilesOK, ListCore
<1>6. Uploaded' = Uploaded /\ Owned' = Owned /\ Uploading' = Uploading
  BY <1>2, <1>4 DEF Uploaded, Owned, Uploading
<1>7. /\ book' \in Book /\ book'.owned = book.owned /\ book'.uploaded = book.uploaded
      /\ book'.uploading = book.uploading /\ book'.changed = book.changed
  <2>1. REFRESHED \in UpdateStates
    BY DEF REFRESHED, UpdateStates
  <2> DEFINE b == bumpUpdateState(book, REFRESHED)
  <2>2. /\ b \in Book /\ b.owned = book.owned /\ b.uploaded = book.uploaded
        /\ b.uploading = book.uploading /\ b.changed = book.changed
    BY <1>1, <2>1, BumpKeeps
  <2>3. book' = [b EXCEPT !.state = "LISTED"]
    BY <1>1
  <2> HIDE DEF b
  <2> QED BY <2>2, <2>3 DEF Book, FileListStates
<1>8. CountersExact'
  BY <1>1, <1>6, <1>7 DEF CountersExact, ListCore
<1>9. IndexOK' /\ simil' \in Simil
  BY <1>1, <1>2, SameNames
<1>10. scan' \in Scan /\ scan'.phase = "idle" /\ scan'.count = 0 /\ scan'.seen = {}
  BY <1>1 DEF Scan
<1>11. Scanning'
  BY <1>2, <1>4, <1>10 DEF Scanning
<1>12. Marked
  BY <1>2, <1>4, <1>7 DEF Marked, Visible
<1> QED BY <1>5, <1>7, <1>8, <1>9, <1>11, <1>12 DEF ListStrong, ListCore

\* The counters and the set of marks are not touched by what a CWD or an MKD
\* tells.
LEMMA PathStateKeeps ==
  ASSUME NEW b \in Book, NEW x \in {"yes", "no", "fail"}
  PROVE  /\ PathState(b, x) \in Book /\ PathState(b, x).owned = b.owned
         /\ PathState(b, x).uploaded = b.uploaded /\ PathState(b, x).uploading = b.uploading
         /\ PathState(b, x).changed = b.changed
<1> DEFINE Same(c) == /\ c \in Book /\ c.owned = b.owned /\ c.uploaded = b.uploaded
                      /\ c.uploading = b.uploading /\ c.changed = b.changed
<1>1. \A st \in FileListStates : Same([b EXCEPT !.state = st])
  BY DEF Book
<1>2. \A st \in FileListStates : Same([setChanged(b) EXCEPT !.state = st])
  <2> DEFINE c == setChanged(b)
  <2>1. Same(c)
    BY ChangedKeeps
  <2> HIDE DEF c
  <2>2. \A st \in FileListStates : Same([c EXCEPT !.state = st])
    BY <2>1 DEF Book
  <2> QED BY <2>2 DEF c
<1>3. Same(addListFailure(b))
  <2>1. CASE b.failures + 1 >= MAX_LIST_FAILURES_BEFORE_STATE_FAILED
    BY <1>2, <2>1 DEF addListFailure, FileListStates
  <2>2. CASE ~(b.failures + 1 >= MAX_LIST_FAILURES_BEFORE_STATE_FAILED)
    <3>1. b.failures + 1 \in 0..(MAX_LIST_FAILURES_BEFORE_STATE_FAILED - 1)
      BY <2>2, FailuresAssumption DEF Book
    <3> QED BY <2>2, <3>1 DEF addListFailure, Book
  <2> QED BY <2>1, <2>2
<1>4. Same(b)
  OBVIOUS
<1> HIDE DEF Same
<1>5. Same(PathState(b, x))
  <2>1. CASE b.state = "UNKNOWN"
    BY <1>1, <2>1 DEF PathState, FileListStates
  <2>2. CASE b.state \in {"NONEXISTENT", "PRE_FAIL", "FAILED"} /\ x = "yes"
    BY <1>1, <2>2 DEF PathState, FileListStates
  <2>3. CASE b.state = "NONEXISTENT" /\ x = "fail"
    BY <1>1, <2>3 DEF PathState, FileListStates
  <2>4. CASE b.state = "PRE_FAIL" /\ x = "no"
    BY <1>2, <2>4 DEF PathState, FileListStates
  <2>5. CASE b.state \in {"LISTED", "EXISTS"} /\ x = "no"
    BY <1>3, <2>5 DEF PathState
  <2>6. CASE ~(\/ b.state = "UNKNOWN"
               \/ b.state \in {"NONEXISTENT", "PRE_FAIL", "FAILED"} /\ x = "yes"
               \/ b.state = "NONEXISTENT" /\ x = "fail"
               \/ b.state = "PRE_FAIL" /\ x = "no"
               \/ b.state \in {"LISTED", "EXISTS"} /\ x = "no")
    BY <1>4, <2>6 DEF PathState
  <2> QED BY <2>1, <2>2, <2>3, <2>4, <2>5, <2>6
<1> QED BY <1>5 DEF Same

\* A step that changes the marks only.
LEMMA BookOnly ==
  ASSUME ListStrong, UNCHANGED <<files, index, simil, scan>>, book' \in Book,
         book'.owned = book.owned, book'.uploaded = book.uploaded,
         book'.uploading = book.uploading
  PROVE  ListStrong' /\ Marked
<1>1. ListCore'
  BY DEF ListStrong, ListCore, FilesOK, IndexOK, IndexSound, CountersExact,
         Known, Uploaded, Owned, Uploading
<1>2. Scanning'
  BY DEF ListStrong, Scanning, Known, Uploading
<1>3. Marked
  BY DEF Marked, Visible, Known
<1> QED BY <1>1, <1>2, <1>3 DEF ListStrong

\* The action setPathExists.
LEMMA SetPathExistsOK ==
  ASSUME ListStrong, NEW x \in {"yes", "no", "fail"}, setPathExists(x)
  PROVE  ListStrong' /\ Marked
<1> DEFINE b == PathState(book, x)
           u == IF x = "yes" THEN NONE ELSE REFRESHED
<1>1. book \in Book /\ u \in UpdateStates
  BY DEF ListStrong, ListCore, NONE, REFRESHED, UpdateStates
<1>2. /\ b \in Book /\ b.owned = book.owned /\ b.uploaded = book.uploaded
      /\ b.uploading = book.uploading
  BY <1>1, PathStateKeeps
<1>3. book' = bumpUpdateState(b, u) /\ UNCHANGED <<files, index, simil, scan>>
  BY DEF setPathExists
<1> HIDE DEF b, u
<1>4. /\ book' \in Book /\ book'.owned = book.owned /\ book'.uploaded = book.uploaded
      /\ book'.uploading = book.uploading
  BY <1>1, <1>2, <1>3, BumpKeeps
<1> QED BY <1>3, <1>4, BookOnly

\* The actions that reset the marks.
LEMMA ResetsOK ==
  ASSUME ListStrong, resetScoreBoardUpdates \/ resetUpdateState
  PROVE  ListStrong' /\ Marked
<1>1. book \in Book /\ UNCHANGED <<files, index, simil, scan>>
  BY DEF ListStrong, ListCore, resetScoreBoardUpdates, resetUpdateState
<1>2. CASE resetScoreBoardUpdates
  <2>1. book' = [book EXCEPT !.board = NONE, !.changed = {}]
    BY <1>2 DEF resetScoreBoardUpdates
  <2>2. NONE \in UpdateStates /\ {} \in SUBSET Name
    BY DEF NONE, UpdateStates
  <2>3. /\ book' \in Book /\ book'.owned = book.owned /\ book'.uploaded = book.uploaded
        /\ book'.uploading = book.uploading
    BY <1>1, <2>1, <2>2 DEF Book
  <2> QED BY <1>1, <2>3, BookOnly
<1>3. CASE resetUpdateState
  BY <1>1, <1>3, BookOnly DEF resetUpdateState, Book, NONE, UpdateStates
<1> QED BY <1>2, <1>3

\* The action checkSimilar.
LEMMA CheckSimilarOK ==
  ASSUME ListStrong, checkSimilar
  PROVE  ListStrong' /\ Marked
<1>1. UNCHANGED <<files, book, index, scan>> /\ simil \in Simil
  BY DEF checkSimilar, ListStrong, ListCore
<1>2. simil' \in Simil
  <2>1. \/ simil' = [simil EXCEPT !.checked = TRUE]
        \/ \E n \in Known : simil' = [checked |-> TRUE, first |-> n]
    BY DEF checkSimilar
  <2>2. \A n \in Known : [checked |-> TRUE, first |-> n] \in Simil
    BY DEF Simil, ListStrong, ListCore, FilesOK
  <2>3. [simil EXCEPT !.checked = TRUE] \in Simil
    BY <1>1 DEF Simil
  <2> QED BY <2>1, <2>2, <2>3
<1>3. ListCore'
  BY <1>1, <1>2 DEF ListStrong, ListCore, FilesOK, IndexOK, IndexSound, CountersExact,
                    Known, Uploaded, Owned, Uploading
<1>4. Scanning'
  BY <1>1 DEF ListStrong, Scanning, Known, Uploading
<1>5. Marked
  BY <1>1 DEF Marked, Visible, Known
<1> QED BY <1>3, <1>4, <1>5 DEF ListStrong

-----------------------------------------------------------------------------
(***************************************************************************)
(* The inductive invariant and what follows from it.                       *)
(***************************************************************************)
LEMMA ListStrongInit == FileListInit => ListStrong
<1> SUFFICES ASSUME FileListInit PROVE ListStrong
  OBVIOUS
<1>1. Known = {} /\ Uploaded = {} /\ Owned = {} /\ Uploading = {} /\ Cardinality({}) = 0
  BY FS_EmptySet DEF FileListInit, Known, Uploaded, Owned, Uploading
<1>2. FilesOK
  BY <1>1 DEF FilesOK, FileListInit
<1>3. book \in Book
  BY FailuresAssumption DEF FileListInit, Book, NONE, UpdateStates, FileListStates
<1>4. CountersExact
  BY <1>1 DEF CountersExact, FileListInit
<1>5. IndexOK
  BY DEF IndexOK, IndexSound, FileListInit
<1>6. simil \in Simil
  BY DEF Simil, FileListInit
<1>7. Scanning
  BY <1>1 DEF Scanning, Scan, FileListInit
<1> QED BY <1>2, <1>3, <1>4, <1>5, <1>6, <1>7 DEF ListStrong, ListCore

\* Every action.
LEMMA ListStrongNext ==
  ASSUME ListStrong, FileListNext
  PROVE  ListStrong' /\ Marked
BY RemoveFileOK, TouchFileOK, UpdateFlagOK, FinishUploadOK, BeginListingOK, ListingLineOK,
   EndLinesOK, CleanSweepOK, EndListingOK, SetPathExistsOK, ResetsOK, CheckSimilarOK
   DEF FileListNext

\* A step that changes nothing.
LEMMA ListStrongStutter ==
  ASSUME ListStrong, UNCHANGED flvars
  PROVE  ListStrong'
BY DEF flvars, ListStrong, ListCore, FilesOK, IndexOK, IndexSound, CountersExact, Scanning,
       Known, Uploaded, Owned, Uploading

\* The inductive invariant holds in every reachable state.
THEOREM ListInvariant == FileListSpec => []ListStrong
<1>1. ListStrong /\ [FileListNext]_flvars => ListStrong'
  BY ListStrongNext, ListStrongStutter
<1> QED BY <1>1, ListStrongInit, PTL DEF FileListSpec

\* For any names and sizes, the counters of a file list are those of its files,
\* the case-insensitive index leads to files of the list, and once a listing is
\* swept nothing is left that it did not name and nobody uploads.
THEOREM FileListCorrect == FileListSpec => []FileListInv
<1>1. ListStrong => FileListInv
  <2> SUFFICES ASSUME ListStrong PROVE FileListInv
    OBVIOUS
  <2>1. ListTypeOK
    BY DEF ListStrong, ListCore, FilesOK, IndexOK, Scanning, Book, Simil, Scan, ListTypeOK
  <2>2. CountersExact /\ IndexSound
    BY DEF ListStrong, ListCore, IndexOK
  <2>3. SweptClean
    BY DEF ListStrong, Scanning, SweptClean
  <2> QED BY <2>1, <2>2, <2>3 DEF FileListInv
<1> QED BY <1>1, ListInvariant, PTL

\* No step changes the size or the presence of a file without marking it for
\* the scoreboard, and none but resetScoreBoardUpdates takes marks back.
THEOREM ChangesMarked == FileListSpec => ChangeMarked
<1>1. ListStrong /\ [FileListNext]_flvars => [Marked]_flvars
  BY ListStrongNext
<1>2. [Marked]_flvars =>
        [\A n \in Name :
           /\ Visible(n)' # Visible(n) => n \in book'.changed /\ book'.board = CHANGED
           /\ n \in book.changed /\ n \notin book'.changed => UNCHANGED files]_flvars
  BY DEF Marked
<1> QED BY <1>1, <1>2, ListInvariant, PTL DEF FileListSpec, ChangeMarked
=============================================================================
