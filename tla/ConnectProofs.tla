--------------------------- MODULE ConnectProofs ---------------------------
(***************************************************************************)
(* Proofs about Connect, for any sites, any number of connectors and any   *)
(* bound on the events that wait: however attempts, sockets and late       *)
(* events race, the connection, its connectors and its delayed command     *)
(* agree.                                                                  *)
(*                                                                         *)
(* ConnectInv is not inductive.  ConnectStrong speaks of a state s and a   *)
(* set E of events on their way to it: while an event is handled it has    *)
(* left the queue, and its handlers, which call one another, pass through  *)
(* states that no step ends in.  Each helper and handler has a lemma on    *)
(* what it does to the sockets and connectors (...Good), one on locks,     *)
(* logins and delayed commands (...Ctl), and one that it leaves the queue  *)
(* alone (Kept...); each action one that puts these together (...Strong).  *)
(***************************************************************************)
EXTENDS Connect, TLAPS

ConnRec == [state : ConnStates, processing : BOOLEAN, sock : Ids \cup {NoSock}, all : BOOLEAN,
            typei : BOOLEAN, xdupe : BOOLEAN, list : SUBSET Nat, poke : Nat]
NetRec == [sock : [Ids -> SocketState], owner : [Ids -> {"connector", "conn"}], last : Nat,
           ctr : [Ids -> Connector], queue : Seq(Event), deaf : BOOLEAN, stale : BOOLEAN]
CstRec == [loggedin : BOOLEAN, quitting : BOOLEAN, locked : BOOLEAN, command : Delayed,
           persisting : BOOLEAN, early : BOOLEAN]
Snap == [conn : ConnRec, net : NetRec, cst : CstRec]

\* The states of a connection whose socket is its own.
Active == ConnStates \ {"DISCONNECTED", "CONNECTING"}

\* What sockets, connectors and events E on their way are to each other.
NetBase(n, E) ==
  /\ n.last <= MaxConnectors
  /\ \A k \in Ids : k > n.last => n.sock[k] = "none" /\ n.owner[k] = "connector" /\ ~n.ctr[k].engaged
  /\ \A k \in Ids : k <= n.last =>
       /\ n.sock[k] # "none" /\ n.ctr[k].stage # "none"
       /\ n.ctr[k].engaged \/ n.ctr[k].stage = "direct"
       /\ site.proxy = "none" => n.ctr[k].stage = "direct"
  /\ \A k \in Ids : n.owner[k] = "conn" => ~n.ctr[k].engaged /\ n.sock[k] # "connecting"
  /\ E \subseteq Event
  /\ \A e \in E :
       /\ e.sock <= n.last /\ n.sock[e.sock] # "connecting"
       /\ e.to = "conn" => n.owner[e.sock] = "conn" /\ e.kind # "connected"
       /\ e.kind \in {"disconnected", "fail"} => n.sock[e.sock] = "closed"

\* The news that the connection's socket is closed.
News(c, e) == e.to = "conn" /\ e.sock = c.sock /\ e.kind = "disconnected"

\* What connector k waits for.
Ending(n, k, E) ==
  \/ n.sock[k] = "connecting"
  \/ n.sock[k] \in {"up", "negotiating"} /\
       (n.ctr[k].connected \/ \E e \in E : e.sock = k /\ e.kind = "connected")
  \/ \E e \in E : e.sock = k /\ e.kind \in {"fail", "disconnected"}

\* The connectors L of an attempt under way.
Attempt(n, L, E) ==
  /\ \A k \in Ids : n.ctr[k].engaged <=> k \in L
  /\ \A k \in Ids : n.sock[k] \in Open => n.ctr[k].engaged
  /\ site.proxy = "none" => \A k \in L : Ending(n, k, E)

\* A connection that is not connecting.
Settled(c, n, E) ==
  /\ c.poke = 0
  /\ \A k \in Ids : ~n.ctr[k].engaged
  /\ \A k \in Ids : n.sock[k] \in Open => c.sock = k /\ c.state \in Active
  /\ c.state \in Active =>
       /\ c.sock \in Ids /\ n.owner[c.sock] = "conn"
       /\ ~n.deaf => n.sock[c.sock] \in {"up", "negotiating"} \/ \E e \in E : News(c, e)

\* What the connection knows of them, unless a late event has misled it.
Sane(c, n, E) ==
  IF c.state = "CONNECTING"
  THEN c.poke = 1 /\ c.sock = NoSock /\ c.list # {} /\ Attempt(n, c.list, E)
  ELSE Settled(c, n, E)

Base(s, E) == s \in Snap /\ s.conn.list \subseteq 1..s.net.last /\ NetBase(s.net, E)
Good(s, E) == Base(s, E) /\ (~s.net.stale => Sane(s.conn, s.net, E))

\* A command waits only where the connection is free, or was set on a busy one;
\* a lock, a login and the commands that need one belong to states of their own.
Waits(t) == t.command # "none" /\ ~t.early
Held(c, t) ==
  /\ Waits(t) => ~t.locked /\ ~c.processing
  /\ t.command = "reconnect" => ~t.early /\ ~t.loggedin
  /\ t.command \in {"quit", "antiantiidle"} => t.loggedin /\ ~t.persisting
Ready(c) == c.state # "DISCONNECTED" /\ ~c.processing
Controlled(c, t) ==
  /\ Held(c, t)
  /\ c.state \notin {"DISCONNECTED", "IDLE"} => c.processing
  /\ t.locked => c.state \in {"IDLE", "COMMAND"}
  /\ t.loggedin => c.state \in {"IDLE", "COMMAND", "QUIT"}

\* The same while a reply is being handled, before FDData settles the state.
Handling(c, t) ==
  /\ Held(c, t)
  /\ t.locked => c.state \in {"IDLE", "COMMAND"} \/ Ready(c)
  /\ t.loggedin => c.state \in {"IDLE", "COMMAND", "QUIT"} \/ Ready(c)

OnTheirWay == {net.queue[i] : i \in DOMAIN net.queue}
ConnectStrong == site \in Sites /\ Good(Now, OnTheirWay) /\ Controlled(conn, cst)

-----------------------------------------------------------------------------
\* What the helpers do to the fields.

\* Steps that leave the network and the connection's part in it alone.
Moves(s, t) ==
  /\ t \in Snap /\ t.net = s.net /\ t.conn.sock = s.conn.sock /\ t.conn.list = s.conn.list
  /\ t.conn.poke = s.conn.poke
  /\ t.conn.state = s.conn.state \/ (s.conn.state \in Active /\ t.conn.state \in Active)

LEMMA MovesTrans == ASSUME NEW r, NEW s, NEW t, Moves(r, s), Moves(s, t) PROVE Moves(r, t)
BY DEF Moves

LEMMA MovesGood == ASSUME NEW s, NEW t, NEW E, Good(s, E), Moves(s, t) PROVE Good(t, E)
<1>1. Base(t, E)
  BY DEF Good, Base, Moves
<1>2. ASSUME ~t.net.stale PROVE Sane(t.conn, t.net, E)
  <2>1. Sane(s.conn, s.net, E) /\ t.net = s.net
    BY <1>2 DEF Good, Moves
  <2>2. CASE s.conn.state = "CONNECTING"
    BY <2>1, <2>2 DEF Sane, Moves, Active
  <2>3. CASE s.conn.state # "CONNECTING"
    <3>1. Settled(s.conn, s.net, E) /\ t.conn.state # "CONNECTING"
      BY <2>1, <2>3 DEF Sane, Moves, Active
    <3>2. Settled(t.conn, t.net, E)
      BY <3>1 DEF Settled, Moves, News
    <3> QED BY <3>1, <3>2 DEF Sane
  <2> QED BY <2>2, <2>3
<1> QED BY <1>1, <1>2 DEF Good

LEMMA SendShape ==
  ASSUME NEW s \in Snap, NEW state \in ConnStates
  PROVE  LET t == Send(s, state)
         IN  /\ t \in Snap /\ t.net = s.net /\ t.cst = s.cst
             /\ t.conn.state = state /\ t.conn.processing = TRUE
             /\ t.conn.sock = s.conn.sock /\ t.conn.list = s.conn.list /\ t.conn.poke = s.conn.poke
BY DEF Snap, ConnRec, Send

LEMMA ClearCommandShape ==
  ASSUME NEW s \in Snap
  PROVE  LET t == ClearCommand(s)
         IN  /\ t \in Snap /\ t.net = s.net /\ t.conn = s.conn
             /\ t.cst.command = "none" /\ t.cst.locked = s.cst.locked
             /\ t.cst.loggedin = s.cst.loggedin
BY DEF Snap, CstRec, ClearCommand, Delayed

LEMMA DelayedShape ==
  ASSUME NEW s \in Snap, NEW command \in Delayed, NEW persisting \in BOOLEAN
  PROVE  LET t == delayedCommand(s, command, persisting)
         IN  /\ t \in Snap /\ t.net = s.net /\ t.conn = s.conn
             /\ t.cst.command = command /\ t.cst.locked = s.cst.locked
             /\ t.cst.loggedin = s.cst.loggedin /\ t.cst.persisting = persisting
             /\ t.cst.early = (s.cst.locked \/ s.conn.processing)
<1>1. ASSUME NEW e \in BOOLEAN
      PROVE  LET t == [s EXCEPT !.cst.command = command, !.cst.persisting = persisting, !.cst.early = e]
             IN  /\ t \in Snap /\ t.net = s.net /\ t.conn = s.conn
                 /\ t.cst.command = command /\ t.cst.locked = s.cst.locked
                 /\ t.cst.loggedin = s.cst.loggedin /\ t.cst.persisting = persisting
                 /\ t.cst.early = e
  BY DEF Snap, CstRec
<1>2. (s.cst.locked \/ s.conn.processing) \in BOOLEAN
  OBVIOUS
<1> QED BY <1>1, <1>2 DEF delayedCommand

LEMMA CleanupShape ==
  ASSUME NEW s \in Snap
  PROVE  LET t == cleanupConnection(s)
         IN  /\ t \in Snap /\ t.net = s.net /\ t.conn = s.conn
             /\ t.cst.command = s.cst.command /\ t.cst.locked = FALSE
             /\ t.cst.loggedin = s.cst.loggedin /\ t.cst.early = s.cst.early
             /\ t.cst.persisting = s.cst.persisting
BY DEF Snap, CstRec, cleanupConnection

LEMMA SetDisconnectedShape ==
  ASSUME NEW s \in Snap
  PROVE  LET t == setDisconnected(s)
         IN  /\ t \in Snap /\ t.net = s.net /\ t.conn = s.conn
             /\ t.cst.locked = s.cst.locked /\ t.cst.loggedin = FALSE
             /\ \/ t.cst.command = "none"
                \/ /\ s.cst.persisting /\ t.cst.command = s.cst.command
                   /\ t.cst.persisting = s.cst.persisting /\ t.cst.early = s.cst.early
<1> DEFINE u == [s EXCEPT !.cst.loggedin = FALSE, !.cst.quitting = FALSE]
<1>1. /\ u \in Snap /\ u.net = s.net /\ u.conn = s.conn
      /\ u.cst.locked = s.cst.locked /\ u.cst.loggedin = FALSE
      /\ u.cst.command = s.cst.command /\ u.cst.persisting = s.cst.persisting /\ u.cst.early = s.cst.early
  BY DEF Snap, CstRec
<1>2. setDisconnected(s) = IF s.cst.persisting THEN u ELSE ClearCommand(u)
  BY DEF setDisconnected
<1> HIDE DEF u
<1> QED BY <1>1, <1>2, ClearCommandShape

-----------------------------------------------------------------------------
\* Sockets and connectors

\* The fields of the network that closing and connecting leave alone.
SameRest(s, t) ==
  /\ t.net.owner = s.net.owner /\ t.net.deaf = s.net.deaf
  /\ t.net.stale = s.net.stale /\ t.net.queue = s.net.queue

CloseKinds == {"closed", "closing"}

LEMMA RetiredShape ==
  ASSUME NEW c \in Connector
  PROVE  /\ Retired(c) \in Connector /\ Retired(c).engaged = FALSE /\ Retired(c).stage = "direct"
         /\ Retired(c).connected = FALSE
<1>1. 0 \in 0..WelcomeTicks
  BY ConnectAssumption
<1>2. Retired(c) \in Connector
  BY <1>1 DEF Connector, Retired
<1>3. Retired(c).engaged = FALSE
  BY DEF Connector, Retired
<1>4. Retired(c).stage = "direct"
  BY DEF Connector, Retired
<1>5. Retired(c).connected = FALSE
  BY DEF Connector, Retired
<1> QED BY <1>2, <1>3, <1>4, <1>5

LEMMA SockUpdate ==
  ASSUME NEW s \in Snap, NEW k \in Ids, NEW v \in SocketState
  PROVE  LET t == [s EXCEPT !.net.sock[k] = v]
         IN  /\ t \in Snap /\ t.conn = s.conn /\ t.cst = s.cst /\ SameRest(s, t)
             /\ t.net.ctr = s.net.ctr /\ t.net.last = s.net.last
             /\ \A j \in Ids : t.net.sock[j] = IF j = k THEN v ELSE s.net.sock[j]
<1> DEFINE t == [s EXCEPT !.net.sock[k] = v]
<1>1. /\ t \in Snap /\ t.conn = s.conn /\ t.cst = s.cst /\ SameRest(s, t)
      /\ t.net.ctr = s.net.ctr /\ t.net.last = s.net.last
  BY DEF Snap, NetRec, SameRest
<1>2. \A j \in Ids : t.net.sock[j] = IF j = k THEN v ELSE s.net.sock[j]
  BY DEF Snap, NetRec
<1> QED BY <1>1, <1>2

\* A connection and its network with some fields replaced.
With(s, L, l, S, C) ==
  [s EXCEPT !.net.last = l, !.conn.list = L, !.net.sock = S, !.net.ctr = C]

LEMMA WithShape ==
  ASSUME NEW s \in Snap, NEW L \in SUBSET Nat, NEW l \in Nat,
         NEW S \in [Ids -> SocketState], NEW C \in [Ids -> Connector]
  PROVE  LET t == With(s, L, l, S, C)
         IN  /\ t \in Snap /\ t.cst = s.cst /\ SameRest(s, t)
             /\ t.conn.list = L /\ t.conn.poke = s.conn.poke /\ t.conn.state = s.conn.state
             /\ t.conn.sock = s.conn.sock /\ t.conn.processing = s.conn.processing
             /\ t.net.last = l /\ t.net.sock = S /\ t.net.ctr = C
<1> SUFFICES ASSUME NEW t, t = [s EXCEPT !.net.last = l, !.conn.list = L, !.net.sock = S, !.net.ctr = C]
             PROVE  /\ t \in Snap /\ t.cst = s.cst /\ SameRest(s, t)
                    /\ t.conn.list = L /\ t.conn.poke = s.conn.poke /\ t.conn.state = s.conn.state
                    /\ t.conn.sock = s.conn.sock /\ t.conn.processing = s.conn.processing
                    /\ t.net.last = l /\ t.net.sock = S /\ t.net.ctr = C
         BY DEF With
<1>1. t \in Snap /\ t.cst = s.cst
  BY DEF Snap, NetRec, ConnRec
<1>2. t.net.last = l /\ t.net.sock = S /\ t.net.ctr = C /\ SameRest(s, t)
  BY DEF Snap, NetRec, SameRest
<1>3. /\ t.conn.list = L /\ t.conn.poke = s.conn.poke /\ t.conn.state = s.conn.state
      /\ t.conn.sock = s.conn.sock /\ t.conn.processing = s.conn.processing
  BY DEF Snap, ConnRec
<1> QED BY <1>1, <1>2, <1>3

NetWith(s, S, C) == [s EXCEPT !.net.sock = S, !.net.ctr = C]

LEMMA NetWithShape ==
  ASSUME NEW s \in Snap, NEW S \in [Ids -> SocketState], NEW C \in [Ids -> Connector]
  PROVE  LET t == NetWith(s, S, C)
         IN  /\ t \in Snap /\ t.conn = s.conn /\ t.cst = s.cst /\ SameRest(s, t)
             /\ t.net.last = s.net.last /\ t.net.sock = S /\ t.net.ctr = C
<1> SUFFICES ASSUME NEW t, t = [s EXCEPT !.net.sock = S, !.net.ctr = C]
             PROVE  /\ t \in Snap /\ t.conn = s.conn /\ t.cst = s.cst /\ SameRest(s, t)
                    /\ t.net.last = s.net.last /\ t.net.sock = S /\ t.net.ctr = C
  BY DEF NetWith
<1>1. t \in Snap /\ t.conn = s.conn /\ t.cst = s.cst
  BY DEF Snap, NetRec
<1>2. t.net.last = s.net.last /\ t.net.sock = S /\ t.net.ctr = C /\ SameRest(s, t)
  BY DEF Snap, NetRec, SameRest
<1> QED BY <1>1, <1>2

LEMMA CloseShape ==
  ASSUME NEW s \in Snap, NEW k \in Ids \cup {NoSock}, NEW how \in CloseKinds
  PROVE  LET t == CloseSocket(s, k, how)
         IN  /\ t \in Snap /\ t.conn = s.conn /\ t.cst = s.cst /\ SameRest(s, t)
             /\ t.net.ctr = s.net.ctr /\ t.net.last = s.net.last
             /\ \A j \in Ids : IF j = k /\ s.net.sock[k] \in Open
                               THEN t.net.sock[j] \in CloseKinds
                               ELSE t.net.sock[j] = s.net.sock[j]
<1>1. CASE k # NoSock /\ s.net.sock[k] \in Open
  <2> DEFINE v == IF s.net.sock[k] = "up" THEN how ELSE "closed"
  <2>1. v \in CloseKinds /\ v \in SocketState
    BY DEF CloseKinds, SocketState
  <2>2. CloseSocket(s, k, how) = [s EXCEPT !.net.sock[k] = v]
    BY <1>1 DEF CloseSocket
  <2> HIDE DEF v
  <2>3. k \in Ids
    BY <1>1
  <2> QED BY <1>1, <2>1, <2>2, <2>3, SockUpdate
<1>2. CASE ~(k # NoSock /\ s.net.sock[k] \in Open)
  <2>1. CloseSocket(s, k, how) = s
    BY <1>2 DEF CloseSocket
  <2>2. 0 \notin Ids
    BY DEF Ids
  <2> QED BY <1>2, <2>1, <2>2 DEF SameRest, NoSock
<1> QED BY <1>1, <1>2

LEMMA DisengageShape ==
  ASSUME NEW s \in Snap, NEW K
  PROVE  LET t == disengage(s, K)
         IN  /\ t \in Snap /\ t.conn = s.conn /\ t.cst = s.cst /\ SameRest(s, t)
             /\ t.net.last = s.net.last
             /\ \A j \in Ids :
                  IF j \in K /\ s.net.ctr[j].engaged
                  THEN /\ t.net.ctr[j] = Retired(s.net.ctr[j])
                       /\ t.net.sock[j] = IF s.net.sock[j] \in Open THEN "closed" ELSE s.net.sock[j]
                  ELSE t.net.ctr[j] = s.net.ctr[j] /\ t.net.sock[j] = s.net.sock[j]
<1> DEFINE D == {k \in K : s.net.ctr[k].engaged}
           S == [k \in Ids |-> IF k \in D /\ s.net.sock[k] \in Open THEN "closed" ELSE s.net.sock[k]]
           C == [k \in Ids |-> IF k \in D THEN Retired(s.net.ctr[k]) ELSE s.net.ctr[k]]
<1>1. S \in [Ids -> SocketState]
  BY DEF Snap, NetRec, SocketState
<1>2. C \in [Ids -> Connector]
  BY RetiredShape DEF Snap, NetRec
<1>3. disengage(s, K) = NetWith(s, S, C)
  BY DEF disengage, NetWith
<1>4. \A j \in Ids :
                  IF j \in K /\ s.net.ctr[j].engaged
                  THEN /\ C[j] = Retired(s.net.ctr[j])
                       /\ S[j] = IF s.net.sock[j] \in Open THEN "closed" ELSE s.net.sock[j]
                  ELSE C[j] = s.net.ctr[j] /\ S[j] = s.net.sock[j]
  OBVIOUS
<1> HIDE DEF S, C
<1>5. LET t == disengage(s, K)
      IN  /\ t \in Snap /\ t.conn = s.conn /\ t.cst = s.cst /\ SameRest(s, t)
          /\ t.net.last = s.net.last /\ t.net.sock = S /\ t.net.ctr = C
  BY <1>1, <1>2, <1>3, NetWithShape
<1> QED BY <1>4, <1>5

LEMMA ClearShape ==
  ASSUME NEW s \in Snap
  PROVE  LET t == clearConnectors(s)
             u == disengage(s, s.conn.list)
         IN  /\ t \in Snap /\ t.net = u.net /\ t.cst = s.cst
             /\ t.conn.list = {} /\ t.conn.poke = s.conn.poke /\ t.conn.state = s.conn.state
             /\ t.conn.sock = s.conn.sock /\ t.conn.processing = s.conn.processing
<1> DEFINE u == disengage(s, s.conn.list)
<1>1. u \in Snap /\ u.conn = s.conn /\ u.cst = s.cst
  BY DisengageShape
<1>2. clearConnectors(s) = [u EXCEPT !.conn.list = {}]
  BY DEF clearConnectors
<1> HIDE DEF u
<1>3. LET t == clearConnectors(s)
         IN  /\ t \in Snap /\ t.net = u.net /\ t.cst = s.cst
             /\ t.conn.list = {} /\ t.conn.poke = s.conn.poke /\ t.conn.state = s.conn.state
             /\ t.conn.sock = s.conn.sock /\ t.conn.processing = s.conn.processing
  BY <1>1, <1>2 DEF Snap, ConnRec
<1> QED BY <1>3 DEF u

\* From s to t, the connectors in new have been made and the others left alone.
MadeIn(s, t, new) ==
  \A j \in Ids :
    IF j \in new
    THEN /\ t.net.ctr[j].engaged /\ t.net.sock[j] = "connecting"
         /\ t.net.ctr[j].stage = IF site.proxy = "none" THEN "direct" ELSE "INIT"
    ELSE t.net.ctr[j] = s.net.ctr[j] /\ t.net.sock[j] = s.net.sock[j]

NewOnes(s, n) == (s.net.last + 1)..(s.net.last + n)

LEMMA NewShape ==
  ASSUME NEW s \in Snap, NEW n \in Nat, NEW primary \in BOOLEAN
  PROVE  LET t == NewConnectors(s, n, primary)
         IN  /\ t \in Snap /\ t.cst = s.cst /\ SameRest(s, t)
             /\ t.net.last = s.net.last + n
             /\ t.conn.list = s.conn.list \cup NewOnes(s, n)
             /\ t.conn.poke = s.conn.poke /\ t.conn.state = s.conn.state
             /\ t.conn.sock = s.conn.sock /\ t.conn.processing = s.conn.processing
             /\ MadeIn(s, t, NewOnes(s, n))
<1> DEFINE new == NewOnes(s, n)
           c == [engaged |-> TRUE, connected |-> FALSE, primary |-> primary, waited |-> 0,
                 stage |-> IF site.proxy = "none" THEN "direct" ELSE "INIT"]
           S == [k \in Ids |-> IF k \in new THEN "connecting" ELSE s.net.sock[k]]
           C == [k \in Ids |-> IF k \in new THEN c ELSE s.net.ctr[k]]
<1>1. S \in [Ids -> SocketState]
  BY DEF Snap, NetRec, SocketState
<1>2. c \in Connector /\ c.engaged = TRUE /\ c.stage = IF site.proxy = "none" THEN "direct" ELSE "INIT"
  BY ConnectAssumption DEF Connector
<1>3. new \subseteq Nat
  BY DEF NewOnes, Snap, NetRec
<1>4. NewConnectors(s, n, primary) = With(s, s.conn.list \cup new, s.net.last + n, S, C)
  BY DEF NewConnectors, NewOnes, With
<1> HIDE DEF c, new
<1>5. C \in [Ids -> Connector]
  BY <1>2 DEF Snap, NetRec
<1>6. \A j \in Ids :
         IF j \in new THEN C[j] = c /\ S[j] = "connecting"
                      ELSE C[j] = s.net.ctr[j] /\ S[j] = s.net.sock[j]
  OBVIOUS
<1> HIDE DEF S, C
<1>7. LET t == NewConnectors(s, n, primary)
         IN  /\ t \in Snap /\ t.cst = s.cst /\ SameRest(s, t)
             /\ t.net.last = s.net.last + n
             /\ t.conn.list = s.conn.list \cup new
             /\ t.conn.poke = s.conn.poke /\ t.conn.state = s.conn.state
             /\ t.conn.sock = s.conn.sock /\ t.conn.processing = s.conn.processing
             /\ t.net.sock = S /\ t.net.ctr = C
  <2>1. s.net.last + n \in Nat
    BY DEF Snap, NetRec
  <2>2. (s.conn.list \cup new) \in SUBSET Nat
    BY <1>3 DEF Snap, ConnRec
  <2> QED BY <2>1, <2>2, <1>1, <1>4, <1>5, WithShape
<1>8. MadeIn(s, NewConnectors(s, n, primary), new)
  BY <1>2, <1>6, <1>7 DEF MadeIn
<1> QED BY <1>7, <1>8 DEF new

LEMMA PokeShape ==
  ASSUME NEW s \in Snap
  PROVE  /\ LET t == startPoke(s)
            IN  /\ t \in Snap /\ t.net = s.net /\ t.cst = s.cst /\ t.conn.poke = s.conn.poke + 1
                /\ t.conn.list = s.conn.list /\ t.conn.state = s.conn.state
                /\ t.conn.sock = s.conn.sock /\ t.conn.processing = s.conn.processing
                /\ t.conn.all = s.conn.all
         /\ LET t == stopPoke(s)
            IN  /\ t \in Snap /\ t.net = s.net /\ t.cst = s.cst
                /\ t.conn.poke = IF s.conn.poke = 0 THEN 0 ELSE s.conn.poke - 1
                /\ t.conn.list = s.conn.list /\ t.conn.state = s.conn.state
                /\ t.conn.sock = s.conn.sock /\ t.conn.processing = s.conn.processing
                /\ t.conn.all = s.conn.all
<1>1. startPoke(s) = [s EXCEPT !.conn.poke = s.conn.poke + 1]
  BY DEF startPoke
<1>2. stopPoke(s) = IF s.conn.poke = 0 THEN s ELSE [s EXCEPT !.conn.poke = s.conn.poke - 1]
  BY DEF stopPoke
<1> QED BY <1>1, <1>2 DEF Snap, ConnRec

-----------------------------------------------------------------------------
\* Closing, logging in and going away

LEMMA DisengageBase == ASSUME NEW s, NEW K, NEW E, Base(s, E) PROVE Base(disengage(s, K), E)
<1> DEFINE t == disengage(s, K)
<1>1. s \in Snap /\ s.conn.list \subseteq 1..s.net.last /\ NetBase(s.net, E)
  BY DEF Base
<1>2. /\ t \in Snap /\ t.conn = s.conn /\ SameRest(s, t) /\ t.net.last = s.net.last
      /\ \A j \in Ids : t.net.ctr[j] = Retired(s.net.ctr[j]) \/ t.net.ctr[j] = s.net.ctr[j]
      /\ \A j \in Ids : t.net.sock[j] = s.net.sock[j] \/ (s.net.sock[j] \in Open /\ t.net.sock[j] = "closed")
  BY <1>1, DisengageShape
<1>3. \A j \in Ids : s.net.ctr[j] \in Connector
  BY <1>1 DEF Snap, NetRec
<1> HIDE DEF t
<1>4. \A j \in Ids : t.net.ctr[j] = s.net.ctr[j] \/ (~t.net.ctr[j].engaged /\ t.net.ctr[j].stage = "direct")
  <2>1. \A j \in Ids : ~Retired(s.net.ctr[j]).engaged /\ Retired(s.net.ctr[j]).stage = "direct"
    BY <1>3, RetiredShape
  <2> QED BY <1>2, <2>1
<1>5. NetBase(t.net, E)
  <2>1. \A e \in E : e.sock \in Ids
    BY <1>1 DEF NetBase, Event
  <2>2. \A j \in Ids : s.net.sock[j] # "connecting" => t.net.sock[j] # "connecting"
    BY <1>2
  <2>3. \A j \in Ids : s.net.sock[j] = "closed" => t.net.sock[j] = "closed"
    BY <1>2
  <2>4. \A j \in Ids : s.net.sock[j] = "none" <=> t.net.sock[j] = "none"
    BY <1>2 DEF Open
  <2> QED BY <1>1, <1>2, <1>4, <2>1, <2>2, <2>3, <2>4 DEF NetBase, SameRest
<1> QED BY <1>1, <1>2, <1>5 DEF Base, t

LEMMA CloseBase ==
  ASSUME NEW s, NEW k \in Ids \cup {NoSock}, NEW how \in CloseKinds, NEW E, Base(s, E)
  PROVE  Base(CloseSocket(s, k, how), E)
<1> DEFINE t == CloseSocket(s, k, how)
<1>1. s \in Snap /\ s.conn.list \subseteq 1..s.net.last /\ NetBase(s.net, E)
  BY DEF Base
<1>2. /\ t \in Snap /\ t.conn = s.conn /\ SameRest(s, t) /\ t.net.last = s.net.last
      /\ t.net.ctr = s.net.ctr
      /\ \A j \in Ids : t.net.sock[j] = s.net.sock[j]
                          \/ (s.net.sock[j] \in Open /\ t.net.sock[j] \in CloseKinds)
  <2>1. /\ t \in Snap /\ t.conn = s.conn /\ SameRest(s, t) /\ t.net.last = s.net.last
        /\ t.net.ctr = s.net.ctr
        /\ \A j \in Ids : IF j = k /\ s.net.sock[k] \in Open
                           THEN t.net.sock[j] \in CloseKinds
                           ELSE t.net.sock[j] = s.net.sock[j]
    BY <1>1, CloseShape
  <2> HIDE DEF t
  <2> QED BY <2>1
<1> HIDE DEF t
<1>5. NetBase(t.net, E)
  <2>1. \A e \in E : e.sock \in Ids
    BY <1>1 DEF NetBase, Event
  <2>2. \A j \in Ids : s.net.sock[j] # "connecting" => t.net.sock[j] # "connecting"
    BY <1>2 DEF CloseKinds
  <2>3. \A j \in Ids : s.net.sock[j] = "closed" => t.net.sock[j] = "closed"
    BY <1>2 DEF Open
  <2>4. \A j \in Ids : s.net.sock[j] = "none" <=> t.net.sock[j] = "none"
    BY <1>2 DEF Open, CloseKinds
  <2> QED BY <1>1, <1>2, <2>1, <2>2, <2>3, <2>4 DEF NetBase, SameRest
<1> QED BY <1>1, <1>2, <1>5 DEF Base, t

\* Nothing is open or engaged after the connection's connectors are cleared.
LEMMA ClearGood ==
  ASSUME NEW s, NEW E, Base(s, E)
  PROVE  LET t == clearConnectors(s)
         IN  /\ Base(t, E) /\ SameRest(s, t) /\ t.net.last = s.net.last
             /\ \A j \in Ids : t.net.ctr[j].engaged => s.net.ctr[j].engaged /\ j \notin s.conn.list
             /\ \A j \in Ids : t.net.sock[j] \in Open => t.net.sock[j] = s.net.sock[j]
             /\ \A j \in Ids : j \in s.conn.list /\ s.net.ctr[j].engaged => t.net.sock[j] \notin Open
             /\ \A j \in Ids : ~(j \in s.conn.list /\ s.net.ctr[j].engaged) => t.net.sock[j] = s.net.sock[j]
<1> DEFINE t == clearConnectors(s)
           u == disengage(s, s.conn.list)
<1>1. s \in Snap /\ \A j \in Ids : s.net.ctr[j] \in Connector
  BY DEF Base, Snap, NetRec
<1>2. t \in Snap /\ t.net = u.net /\ t.conn.list = {}
  BY <1>1, ClearShape
<1>3. Base(u, E)
  BY DisengageBase
<1>4. Base(t, E)
  BY <1>2, <1>3 DEF Base
<1>5. /\ SameRest(s, u) /\ u.net.last = s.net.last
      /\ \A j \in Ids :
                  IF j \in s.conn.list /\ s.net.ctr[j].engaged
                  THEN /\ u.net.ctr[j] = Retired(s.net.ctr[j])
                       /\ u.net.sock[j] = IF s.net.sock[j] \in Open THEN "closed" ELSE s.net.sock[j]
                  ELSE u.net.ctr[j] = s.net.ctr[j] /\ u.net.sock[j] = s.net.sock[j]
  BY <1>1, DisengageShape
<1>6. \A j \in Ids : ~Retired(s.net.ctr[j]).engaged
  BY <1>1, RetiredShape
<1> HIDE DEF t, u
<1>7. /\ \A j \in Ids : u.net.ctr[j].engaged => s.net.ctr[j].engaged /\ j \notin s.conn.list
      /\ \A j \in Ids : u.net.sock[j] \in Open => u.net.sock[j] = s.net.sock[j]
      /\ \A j \in Ids : j \in s.conn.list /\ s.net.ctr[j].engaged => u.net.sock[j] \notin Open
      /\ \A j \in Ids : ~(j \in s.conn.list /\ s.net.ctr[j].engaged) => u.net.sock[j] = s.net.sock[j]
  BY <1>5, <1>6 DEF Open
<1> QED BY <1>2, <1>4, <1>5, <1>7 DEF SameRest, t

LEMMA StateShape ==
  ASSUME NEW s \in Snap, NEW state \in ConnStates, NEW processing \in BOOLEAN
  PROVE  LET t == [s EXCEPT !.conn.state = state, !.conn.processing = processing]
         IN  /\ t \in Snap /\ t.net = s.net /\ t.cst = s.cst
             /\ t.conn.state = state /\ t.conn.processing = processing
             /\ t.conn.sock = s.conn.sock /\ t.conn.list = s.conn.list /\ t.conn.poke = s.conn.poke
BY DEF Snap, ConnRec

LEMMA DisconnectGood ==
  ASSUME NEW s, NEW E, NEW how \in CloseKinds, Good(s, E)
  PROVE  LET t == disconnect(s, how)
         IN  /\ Good(t, E) /\ t.cst = s.cst /\ t.conn.state = "DISCONNECTED"
             /\ t.net.last = s.net.last
             /\ s.conn.state = "DISCONNECTED" => t = s
             /\ s.conn.state # "DISCONNECTED" => t.conn.processing = FALSE
<1>1. CASE s.conn.state = "DISCONNECTED"
  BY <1>1 DEF disconnect
<1>2. CASE s.conn.state # "DISCONNECTED"
  <2> DEFINE a == IF s.conn.state = "CONNECTING" THEN stopPoke(s) ELSE s
             b == [a EXCEPT !.conn.state = "DISCONNECTED", !.conn.processing = FALSE]
             d == CloseSocket(b, s.conn.sock, how)
             t == clearConnectors(d)
  <2>1. s \in Snap /\ s.conn.sock \in Ids \cup {NoSock} /\ s.conn.poke \in Nat
        /\ s.conn.list \subseteq 1..s.net.last /\ NetBase(s.net, E)
    BY DEF Good, Base, Snap, ConnRec
  <2>2. /\ a \in Snap /\ a.net = s.net /\ a.cst = s.cst /\ a.conn.list = s.conn.list
        /\ a.conn.sock = s.conn.sock
        /\ ~s.net.stale => a.conn.poke = 0
    BY <2>1, PokeShape DEF Good, Sane, Settled
  <2> HIDE DEF a
  <2>3. /\ b \in Snap /\ b.net = s.net /\ b.cst = s.cst /\ b.conn.list = s.conn.list
        /\ b.conn.sock = s.conn.sock /\ b.conn.poke = a.conn.poke
        /\ b.conn.state = "DISCONNECTED" /\ b.conn.processing = FALSE
    <3>1. "DISCONNECTED" \in ConnStates /\ FALSE \in BOOLEAN
      BY DEF ConnStates
    <3>2. b \in Snap /\ b.net = a.net /\ b.cst = a.cst /\ b.conn.list = a.conn.list
          /\ b.conn.sock = a.conn.sock /\ b.conn.poke = a.conn.poke
          /\ b.conn.state = "DISCONNECTED" /\ b.conn.processing = FALSE
      BY <2>2, <3>1, StateShape
    <3> QED BY <2>2, <3>2
  <2>4. Base(b, E)
    BY <2>1, <2>3 DEF Base
  <2> HIDE DEF b
  <2>5. Base(d, E)
    BY <2>1, <2>4, CloseBase
  <2>6. /\ d \in Snap /\ d.conn = b.conn /\ d.cst = b.cst /\ SameRest(b, d)
        /\ d.net.ctr = b.net.ctr /\ d.net.last = b.net.last
        /\ \A j \in Ids : IF j = s.conn.sock /\ b.net.sock[s.conn.sock] \in Open
                          THEN d.net.sock[j] \in CloseKinds
                          ELSE d.net.sock[j] = b.net.sock[j]
    BY <2>1, <2>3, CloseShape
  <2> HIDE DEF d
  <2>7. t \in Snap /\ t.cst = d.cst /\ t.conn.poke = d.conn.poke /\ t.conn.state = d.conn.state
        /\ t.conn.processing = d.conn.processing
    BY <2>6, ClearShape
  <2>8. /\ Base(t, E) /\ SameRest(d, t) /\ t.net.last = d.net.last
        /\ \A j \in Ids : t.net.ctr[j].engaged => d.net.ctr[j].engaged /\ j \notin d.conn.list
        /\ \A j \in Ids : t.net.sock[j] \in Open => t.net.sock[j] = d.net.sock[j]
        /\ \A j \in Ids : j \in d.conn.list /\ d.net.ctr[j].engaged => t.net.sock[j] \notin Open
    BY <2>5, ClearGood
  <2> HIDE DEF t
  <2>9. ASSUME ~t.net.stale PROVE Sane(t.conn, t.net, E)
    <3>1. ~s.net.stale /\ Sane(s.conn, s.net, E)
      BY <2>9, <2>3, <2>6, <2>8 DEF Good, SameRest
    <3>2. \A j \in Ids : s.net.ctr[j].engaged => j \in s.conn.list
      BY <3>1 DEF Sane, Settled, Attempt
    <3>3. \A j \in Ids : ~t.net.ctr[j].engaged
      BY <3>2, <2>3, <2>6, <2>8
    <3>4. \A j \in Ids : s.net.sock[j] \in Open => s.net.ctr[j].engaged \/ j = s.conn.sock
      BY <3>1 DEF Sane, Settled, Attempt
    <3>5. \A j \in Ids : t.net.sock[j] \notin Open
      <4> SUFFICES ASSUME NEW j \in Ids, t.net.sock[j] \in Open PROVE FALSE
        OBVIOUS
      <4>1. t.net.sock[j] = d.net.sock[j]
        BY <2>8
      <4>2. d.net.sock[j] = s.net.sock[j] /\ ~(j = s.conn.sock /\ s.net.sock[j] \in Open)
        BY <4>1, <2>3, <2>6 DEF CloseKinds, Open
      <4>3. s.net.ctr[j].engaged /\ j \in s.conn.list
        BY <4>1, <4>2, <3>2, <3>4
      <4> QED BY <4>3, <2>3, <2>6, <2>8
    <3>6. t.conn.poke = 0 /\ t.conn.state = "DISCONNECTED"
      BY <3>1, <2>2, <2>3, <2>6, <2>7
    <3> QED BY <3>3, <3>5, <3>6 DEF Sane, Settled, Active
  <2>10. t = disconnect(s, how)
    BY <1>2 DEF disconnect, t, d, b, a
  <2> QED BY <1>2, <2>3, <2>6, <2>7, <2>8, <2>9, <2>10 DEF Good
<1> QED BY <1>1, <1>2

\* New connectors join an attempt.
LEMMA NewGood ==
  ASSUME NEW s, NEW E, Base(s, E), NEW n \in Nat, NEW primary \in BOOLEAN,
         NewConnectors(s, n, primary).net.last <= MaxConnectors
  PROVE  LET t == NewConnectors(s, n, primary)
         IN  /\ Base(t, E) /\ t.net.last >= s.net.last
             /\ n > 0 => t.conn.list # {}
             /\ t.conn.list \cap (1..s.net.last) = s.conn.list
             /\ Attempt(s.net, s.conn.list, E) => Attempt(t.net, t.conn.list, E)
<1> DEFINE t == NewConnectors(s, n, primary)
           new == NewOnes(s, n)
<1>1. /\ s \in Snap /\ s.net.last \in Nat /\ s.conn.list \subseteq 1..s.net.last /\ NetBase(s.net, E)
      /\ MaxConnectors \in Nat
  BY ConnectAssumption DEF Base, Snap, NetRec
<1>2. /\ t \in Snap /\ SameRest(s, t) /\ t.net.last = s.net.last + n
      /\ t.conn.list = s.conn.list \cup new
      /\ MadeIn(s, t, new)
  BY <1>1, NewShape
<1> SUFFICES /\ Base(t, E) /\ t.net.last >= s.net.last
             /\ n > 0 => t.conn.list # {}
             /\ t.conn.list \cap (1..s.net.last) = s.conn.list
             /\ Attempt(s.net, s.conn.list, E) => Attempt(t.net, t.conn.list, E)
  OBVIOUS
<1>3. t.net.last <= MaxConnectors
  OBVIOUS
<1> HIDE DEF t
<1>4. /\ new \subseteq Ids
      /\ \A j \in Ids : j \in new <=> j > s.net.last /\ j <= t.net.last
      /\ s.conn.list \subseteq Ids
      /\ t.conn.list \subseteq 1..t.net.last
      /\ t.net.last >= s.net.last
      /\ n > 0 => t.conn.list # {}
      /\ t.conn.list \cap (1..s.net.last) = s.conn.list
  <2>1. /\ new \subseteq Ids
        /\ \A j \in Ids : j \in new <=> j > s.net.last /\ j <= t.net.last
        /\ t.net.last >= s.net.last
    BY <1>1, <1>2, <1>3 DEF NewOnes, Ids
  <2>2. s.conn.list \subseteq Ids
    BY <1>1, <1>2, <1>3 DEF Ids
  <2>3. t.conn.list \subseteq 1..t.net.last
    BY <1>1, <1>2 DEF NewOnes
  <2>4. n > 0 => s.net.last + 1 \in new
    BY <1>1 DEF NewOnes
  <2>5. t.conn.list \cap (1..s.net.last) = s.conn.list
    BY <1>1, <1>2 DEF NewOnes
  <2> QED BY <2>1, <2>2, <2>3, <2>4, <2>5, <1>2
<1>5. NetBase(t.net, E)
  <2> DEFINE m == t.net
  <2>1. \A e \in E : e.sock \in Ids /\ e.sock \notin new
    BY <1>1, <1>4 DEF NetBase, Event, Ids
  <2>2. \A k \in Ids : k > m.last => m.sock[k] = "none" /\ m.owner[k] = "connector" /\ ~m.ctr[k].engaged
    BY <1>1, <1>2, <1>4 DEF NetBase, SameRest, Ids, MadeIn
  <2>3. \A k \in Ids : k <= m.last =>
           /\ m.sock[k] # "none" /\ m.ctr[k].stage # "none"
           /\ m.ctr[k].engaged \/ m.ctr[k].stage = "direct"
           /\ site.proxy = "none" => m.ctr[k].stage = "direct"
    BY <1>1, <1>2, <1>4 DEF NetBase, Ids, MadeIn
  <2>4. \A k \in Ids : m.owner[k] = "conn" => ~m.ctr[k].engaged /\ m.sock[k] # "connecting"
    <3> SUFFICES ASSUME NEW k \in Ids, m.owner[k] = "conn" PROVE ~m.ctr[k].engaged /\ m.sock[k] # "connecting"
      OBVIOUS
    <3>1. s.net.owner[k] = "conn"
      BY <1>2 DEF SameRest
    <3>2. k \notin new
      BY <3>1, <1>1, <1>4 DEF NetBase
    <3> QED BY <3>1, <3>2, <1>1, <1>2 DEF NetBase, MadeIn
  <2>5. \A e \in E :
           /\ e.sock <= m.last /\ m.sock[e.sock] # "connecting"
           /\ e.to = "conn" => m.owner[e.sock] = "conn" /\ e.kind # "connected"
           /\ e.kind \in {"disconnected", "fail"} => m.sock[e.sock] = "closed"
    <3> SUFFICES ASSUME NEW e \in E
                 PROVE  /\ e.sock <= m.last /\ m.sock[e.sock] # "connecting"
                        /\ e.to = "conn" => m.owner[e.sock] = "conn" /\ e.kind # "connected"
                        /\ e.kind \in {"disconnected", "fail"} => m.sock[e.sock] = "closed"
      OBVIOUS
    <3>1. m.sock[e.sock] = s.net.sock[e.sock] /\ m.owner[e.sock] = s.net.owner[e.sock]
      BY <2>1, <1>2 DEF SameRest, MadeIn
    <3>2. e.sock <= m.last
      BY <2>1, <1>1, <1>2, <1>4 DEF NetBase, Ids
    <3> QED BY <3>1, <3>2, <1>1 DEF NetBase
  <2> QED BY <2>2, <2>3, <2>4, <2>5, <1>1, <1>3 DEF NetBase
<1>6. ASSUME Attempt(s.net, s.conn.list, E) PROVE Attempt(t.net, t.conn.list, E)
  <2>1. \A k \in Ids : t.net.ctr[k].engaged <=> k \in t.conn.list
    BY <1>2, <1>4, <1>6 DEF Attempt, MadeIn
  <2>2. \A k \in Ids : t.net.sock[k] \in Open => t.net.ctr[k].engaged
    BY <1>2, <1>6 DEF Attempt, MadeIn
  <2>3. ASSUME site.proxy = "none", NEW k \in t.conn.list PROVE Ending(t.net, k, E)
    <3>1. CASE k \in new
      BY <3>1, <1>2, <1>4 DEF Ending, MadeIn
    <3>2. CASE k \notin new
      <4>1. k \in s.conn.list /\ k \in Ids
        BY <3>2, <1>2, <1>4
      <4>2. Ending(s.net, k, E)
        BY <4>1, <1>6, <2>3 DEF Attempt
      <4> QED BY <3>2, <4>1, <4>2, <1>2 DEF Ending, MadeIn
    <3> QED BY <3>1, <3>2
  <2> QED BY <2>1, <2>2, <2>3 DEF Attempt
<1> QED BY <1>1, <1>2, <1>4, <1>5, <1>6 DEF Base

LEMMA LoginSnap ==
  ASSUME NEW s \in Snap, s.conn.state = "DISCONNECTED"
  PROVE  LET t == login(s)
         IN  t \in Snap /\ t.cst = s.cst /\ t.conn.state = "CONNECTING" /\ t.conn.processing = TRUE
<1> DEFINE c == clearConnectors(s)
           a == [c EXCEPT !.conn.state = "CONNECTING", !.conn.processing = TRUE,
                   !.conn.all = FALSE, !.conn.sock = NoSock, !.conn.typei = FALSE, !.conn.xdupe = FALSE]
           b == NewConnectors(a, 1, TRUE)
           t == startPoke(b)
<1>1. c \in Snap /\ c.cst = s.cst
  BY ClearShape
<1>2. login(s) = t
  BY DEF login
<1> HIDE DEF c
<1>3. a \in Snap /\ a.cst = c.cst /\ a.conn.state = "CONNECTING" /\ a.conn.processing = TRUE
  <2>1. a \in Snap /\ a.cst = c.cst
    BY <1>1 DEF Snap, ConnRec, ConnStates
  <2>2. a.conn.state = "CONNECTING" /\ a.conn.processing = TRUE
    BY <1>1 DEF Snap, ConnRec
  <2> QED BY <2>1, <2>2
<1> HIDE DEF a
<1>4. b \in Snap /\ b.cst = a.cst /\ b.conn.state = a.conn.state /\ b.conn.processing = a.conn.processing
  BY <1>3, NewShape
<1> HIDE DEF b
<1>5. t \in Snap /\ t.cst = b.cst /\ t.conn.state = b.conn.state /\ t.conn.processing = b.conn.processing
  BY <1>4, PokeShape
<1> HIDE DEF t
<1> QED BY <1>1, <1>2, <1>3, <1>4, <1>5

LEMMA LoginGood ==
  ASSUME NEW s, NEW E, Good(s, E), s.conn.state = "DISCONNECTED",
         login(s).net.last <= MaxConnectors
  PROVE  LET t == login(s)
         IN  /\ Good(t, E) /\ t.cst = s.cst /\ t.conn.state = "CONNECTING"
             /\ t.conn.processing = TRUE
<1> DEFINE c == clearConnectors(s)
           a == [c EXCEPT !.conn.state = "CONNECTING", !.conn.processing = TRUE,
                   !.conn.all = FALSE, !.conn.sock = NoSock, !.conn.typei = FALSE, !.conn.xdupe = FALSE]
           b == NewConnectors(a, 1, TRUE)
           t == startPoke(b)
<1>1. s \in Snap /\ Base(s, E) /\ s.conn.poke \in Nat
  BY DEF Good, Base, Snap, ConnRec
<1>2. /\ Base(c, E) /\ SameRest(s, c)
      /\ \A j \in Ids : c.net.ctr[j].engaged => s.net.ctr[j].engaged
      /\ \A j \in Ids : c.net.sock[j] \in Open => c.net.sock[j] = s.net.sock[j]
  BY <1>1, ClearGood
<1>3. c \in Snap /\ c.cst = s.cst /\ c.conn.list = {} /\ c.conn.poke = s.conn.poke
  BY <1>1, ClearShape
<1> HIDE DEF c
<1>4. /\ a \in Snap /\ a.net = c.net /\ a.cst = s.cst /\ a.conn.list = {} /\ a.conn.poke = s.conn.poke
      /\ a.conn.state = "CONNECTING" /\ a.conn.processing = TRUE /\ a.conn.sock = NoSock
  <2>1. a \in Snap /\ a.net = c.net /\ a.cst = s.cst
    BY <1>3 DEF Snap, ConnRec, ConnStates
  <2>2. a.conn.list = {} /\ a.conn.poke = s.conn.poke
    BY <1>3 DEF Snap, ConnRec
  <2>3. a.conn.state = "CONNECTING" /\ a.conn.processing = TRUE /\ a.conn.sock = NoSock
    BY <1>3 DEF Snap, ConnRec
  <2> QED BY <2>1, <2>2, <2>3
<1>5. login(s) = t
  BY DEF login, c
<1> HIDE DEF a
<1>6. Base(a, E)
  BY <1>2, <1>4 DEF Base
<1>7. /\ b \in Snap /\ b.cst = a.cst /\ SameRest(a, b)
      /\ b.conn.poke = a.conn.poke /\ b.conn.state = a.conn.state
      /\ b.conn.sock = a.conn.sock /\ b.conn.processing = a.conn.processing
  BY <1>4, NewShape
<1> HIDE DEF b
<1>8. /\ t \in Snap /\ t.net = b.net /\ t.cst = b.cst /\ t.conn.poke = b.conn.poke + 1
      /\ t.conn.list = b.conn.list /\ t.conn.state = b.conn.state
      /\ t.conn.sock = b.conn.sock /\ t.conn.processing = b.conn.processing
  BY <1>7, PokeShape
<1> HIDE DEF t
<1>9. b.net.last <= MaxConnectors
  BY <1>5, <1>8
<1>10. /\ Base(b, E) /\ b.conn.list # {}
       /\ Attempt(a.net, a.conn.list, E) => Attempt(b.net, b.conn.list, E)
  <2> DEFINE d == NewConnectors(a, 1, TRUE)
  <2>1. b = d
    BY DEF b
  <2>2. d.net.last <= MaxConnectors
    BY <1>9, <2>1
  <2>3. /\ Base(d, E) /\ (1 > 0 => d.conn.list # {})
        /\ Attempt(a.net, a.conn.list, E) => Attempt(d.net, d.conn.list, E)
    BY <1>6, <2>2, NewGood
  <2> HIDE DEF d
  <2> QED BY <2>1, <2>3
<1>11. Base(t, E)
  BY <1>8, <1>10 DEF Base
<1>12. ASSUME ~t.net.stale PROVE Sane(t.conn, t.net, E)
  <2>1. ~s.net.stale
    BY <1>12, <1>2, <1>4, <1>7, <1>8 DEF SameRest
  <2>2. Settled(s.conn, s.net, E)
    BY <2>1 DEF Good, Sane
  <2>3. Attempt(a.net, a.conn.list, E)
    <3>1. \A k \in Ids : ~a.net.ctr[k].engaged
      BY <2>2, <1>2, <1>4 DEF Settled
    <3>2. \A k \in Ids : a.net.sock[k] \notin Open
      BY <2>2, <1>2, <1>4 DEF Settled, Active
    <3> QED BY <3>1, <3>2, <1>4 DEF Attempt
  <2>4. t.conn.poke = 1
    BY <2>2, <1>4, <1>7, <1>8 DEF Settled
  <2> QED BY <2>3, <2>4, <1>4, <1>7, <1>8, <1>10 DEF Sane
<1> QED BY <1>4, <1>5, <1>7, <1>8, <1>11, <1>12 DEF Good

LEMMA ConnectAllGood ==
  ASSUME NEW s, NEW E, Base(s, E), site \in Sites,
         connectAllAddresses(s).net.last <= MaxConnectors
  PROVE  LET t == connectAllAddresses(s)
         IN  /\ Base(t, E) /\ SameRest(s, t) /\ t.cst = s.cst /\ t.net.last >= s.net.last
             /\ t.conn.poke = s.conn.poke /\ t.conn.state = s.conn.state
             /\ t.conn.sock = s.conn.sock /\ t.conn.processing = s.conn.processing
             /\ site.addresses > 1 => t.conn.list # {}
             /\ t.conn.list \cap (1..s.net.last) = s.conn.list
             /\ Attempt(s.net, s.conn.list, E) => Attempt(t.net, t.conn.list, E)
<1> DEFINE a == [s EXCEPT !.conn.all = TRUE]
           n == site.addresses - 1
           t == connectAllAddresses(s)
<1>1. s \in Snap
  BY DEF Base
<1>2. n \in Nat /\ (site.addresses > 1 => n > 0)
  BY ConnectAssumption
<1>3. /\ a \in Snap /\ a.net = s.net /\ a.cst = s.cst
      /\ a.conn.list = s.conn.list /\ a.conn.poke = s.conn.poke /\ a.conn.state = s.conn.state
      /\ a.conn.sock = s.conn.sock /\ a.conn.processing = s.conn.processing
  BY <1>1 DEF Snap, ConnRec
<1>4. t = NewConnectors(a, n, FALSE)
  BY DEF connectAllAddresses
<1> HIDE DEF a, n
<1>5. Base(a, E)
  BY <1>3 DEF Base
<1>6. /\ t.cst = a.cst /\ SameRest(a, t)
      /\ t.conn.poke = a.conn.poke /\ t.conn.state = a.conn.state
      /\ t.conn.sock = a.conn.sock /\ t.conn.processing = a.conn.processing
  <2> DEFINE d == NewConnectors(a, n, FALSE)
  <2>1. /\ d.cst = a.cst /\ SameRest(a, d)
        /\ d.conn.poke = a.conn.poke /\ d.conn.state = a.conn.state
        /\ d.conn.sock = a.conn.sock /\ d.conn.processing = a.conn.processing
    BY <1>2, <1>3, NewShape
  <2> HIDE DEF d, t
  <2> QED BY <2>1, <1>4 DEF d
<1>7. /\ Base(t, E) /\ t.net.last >= a.net.last
      /\ n > 0 => t.conn.list # {}
      /\ t.conn.list \cap (1..a.net.last) = a.conn.list
      /\ Attempt(a.net, a.conn.list, E) => Attempt(t.net, t.conn.list, E)
  <2>1. NewConnectors(a, n, FALSE).net.last <= MaxConnectors
    BY <1>4
  <2> HIDE DEF t
  <2> QED BY <1>2, <1>4, <1>5, <2>1, NewGood
<1> QED BY <1>2, <1>3, <1>6, <1>7 DEF SameRest

LEMMA DisconnectConnGood ==
  ASSUME NEW s, NEW E, Good(s, E), NEW hard \in BOOLEAN, NEW how \in CloseKinds,
         s.cst.loggedin /\ Ready(s.conn) => s.conn.state \in Active
  PROVE  LET t == disconnectConn(s, hard, how)
         IN  /\ Good(t, E) /\ t.net.last = s.net.last
             /\ t.conn.state = "DISCONNECTED" \/ (s.conn.state # "DISCONNECTED" /\ t.conn.state = "QUIT")
<1> DEFINE c == ClearCommand(s)
           a == cleanupConnection(c)
<1>1. s \in Snap
  BY DEF Good, Base
<1>2. c \in Snap /\ c.net = s.net /\ c.conn = s.conn
  BY <1>1, ClearCommandShape
<1> HIDE DEF c
<1>3. a \in Snap /\ a.net = s.net /\ a.conn = s.conn
  BY <1>2, CleanupShape
<1> HIDE DEF a
<1>4. Good(a, E)
  BY <1>3, MovesGood DEF Moves
<1>5. CASE s.conn.state = "DISCONNECTED"
  <2>1. disconnectConn(s, hard, how) = a
    BY <1>5 DEF disconnectConn, a, c
  <2> QED BY <2>1, <1>3, <1>4, <1>5
<1>6. CASE s.conn.state # "DISCONNECTED" /\ ~hard /\ s.cst.loggedin /\ ~s.conn.processing
  <2> DEFINE q == Send(a, "QUIT")
             t == [q EXCEPT !.cst.quitting = TRUE]
  <2>1. disconnectConn(s, hard, how) = t
    BY <1>6 DEF disconnectConn, a, c
  <2>2. s.conn.state \in Active /\ "QUIT" \in Active /\ "QUIT" \in ConnStates
    BY <1>6 DEF Active, ConnStates, Ready
  <2>3. /\ q \in Snap /\ q.net = a.net /\ q.conn.state = "QUIT"
        /\ q.conn.sock = a.conn.sock /\ q.conn.list = a.conn.list /\ q.conn.poke = a.conn.poke
    BY <1>3, <2>2, SendShape
  <2> HIDE DEF q
  <2>4. t \in Snap /\ t.net = q.net /\ t.conn = q.conn
    BY <2>3 DEF Snap, CstRec
  <2> HIDE DEF t
  <2>5. Moves(a, t)
    BY <1>3, <2>2, <2>3, <2>4 DEF Moves
  <2> QED BY <1>3, <1>4, <1>6, <2>1, <2>3, <2>4, <2>5, MovesGood
<1>7. CASE s.conn.state # "DISCONNECTED" /\ ~(~hard /\ s.cst.loggedin /\ ~s.conn.processing)
  <2> DEFINE d == disconnect(a, how)
             t == setDisconnected(d)
  <2>1. disconnectConn(s, hard, how) = t
    BY <1>7 DEF disconnectConn, a, c
  <2>2. Good(d, E) /\ d.conn.state = "DISCONNECTED" /\ d.net.last = a.net.last
    BY <1>4, DisconnectGood
  <2>3. d \in Snap
    BY <2>2 DEF Good, Base
  <2> HIDE DEF d
  <2>4. t \in Snap /\ t.net = d.net /\ t.conn = d.conn
    BY <2>3, SetDisconnectedShape
  <2> HIDE DEF t
  <2>5. Good(t, E)
    BY <2>2, <2>4, MovesGood DEF Moves
  <2> QED BY <1>3, <1>7, <2>1, <2>2, <2>4, <2>5
<1> QED BY <1>5, <1>6, <1>7

\* What holds when the connectors K have failed and are still in the list.
FailPre(s, K, E) ==
  /\ Base(s, E)
  /\ ~s.net.stale =>
       IF s.conn.state = "CONNECTING"
       THEN /\ s.conn.poke = 1 /\ s.conn.sock = NoSock /\ (K = {} => s.conn.list # {})
            /\ Attempt(s.net, s.conn.list \ K, E)
       ELSE Settled(s.conn, s.net, E)

LEMMA FailGood ==
  ASSUME NEW s, NEW K, NEW E, NEW how \in CloseKinds, site \in Sites, K \subseteq 1..s.net.last,
         FailPre(s, K, E)
  PROVE  LET t == ftpConnectFail(s, K, how)
         IN  /\ t \in Snap
             /\ t.net.last <= MaxConnectors =>
                  Good(t, E) /\ (t.conn.state = "CONNECTING" => t.conn.list \cap K = {})
<1> DEFINE r == ftpConnectFail(s, K, how)
<1> SUFFICES /\ r \in Snap
             /\ r.net.last <= MaxConnectors =>
                  Good(r, E) /\ (r.conn.state = "CONNECTING" => r.conn.list \cap K = {})
  OBVIOUS
<1>1. s \in Snap /\ Base(s, E) /\ s.conn.list \subseteq 1..s.net.last /\ s.net.last \in Nat
      /\ s.conn.poke \in Nat
  BY DEF FailPre, Base, Snap, NetRec, ConnRec
<1>2. CASE s.conn.state # "CONNECTING" \/ K = {}
  <2>1. r = s
    BY <1>2 DEF ftpConnectFail
  <2>2. ASSUME s.conn.state = "CONNECTING" PROVE s.conn.list \ K = s.conn.list
    BY <1>2, <2>2
  <2>3. Good(s, E)
    BY <1>2, <2>2 DEF FailPre, Good, Sane
  <2> HIDE DEF r
  <2>4. r.conn.state = "CONNECTING" => r.conn.list \cap K = {}
    BY <1>2, <2>1
  <2> QED BY <1>1, <2>1, <2>3, <2>4 DEF r
<1>3. CASE s.conn.state = "CONNECTING" /\ K # {}
  <2> DEFINE t == [s EXCEPT !.conn.list = s.conn.list \ K]
             more == site.addresses > 1 /\ ~s.conn.all /\ \E k \in K : s.net.ctr[k].primary
             u == IF more THEN connectAllAddresses(t) ELSE t
             v == [stopPoke(u) EXCEPT !.conn.state = "DISCONNECTED"]
  <2>1. r = IF u.conn.list # {} THEN u ELSE disconnectConn(v, FALSE, how)
    BY <1>3 DEF ftpConnectFail
  <2>2. /\ t \in Snap /\ t.net = s.net /\ t.conn.list = s.conn.list \ K /\ t.conn.state = "CONNECTING"
        /\ t.conn.poke = s.conn.poke /\ t.conn.sock = s.conn.sock
    <3>1. s.conn.list \ K \subseteq Nat
      BY <1>1
    <3> QED BY <3>1, <1>1, <1>3 DEF Snap, ConnRec
  <2> HIDE DEF t
  <2>3. Base(t, E)
    BY <1>1, <2>2 DEF Base
  <2>4. ASSUME ~s.net.stale
        PROVE  t.conn.poke = 1 /\ t.conn.sock = NoSock /\ Attempt(t.net, t.conn.list, E)
    BY <1>3, <2>2, <2>4 DEF FailPre
  <2>5. CASE more
    <3> DEFINE d == connectAllAddresses(t)
    <3>1. site.addresses > 1 /\ u = d
      BY <2>5
    <3>2. d.conn.list # {} /\ d \in Snap
      <4> DEFINE a == [t EXCEPT !.conn.all = TRUE]
                 n == site.addresses - 1
      <4>1. n \in Nat /\ n > 0
        BY <3>1, ConnectAssumption
      <4>2. a \in Snap /\ a.net = t.net
        BY <2>2 DEF Snap, ConnRec
      <4>3. d = NewConnectors(a, n, FALSE)
        BY DEF connectAllAddresses
      <4> HIDE DEF a, n, d
      <4> DEFINE e == NewConnectors(a, n, FALSE)
      <4>4. e.conn.list = a.conn.list \cup NewOnes(a, n) /\ e \in Snap
        BY <4>1, <4>2, NewShape
      <4>5. a.net.last + 1 \in NewOnes(a, n)
        BY <1>1, <2>2, <4>1, <4>2 DEF NewOnes
      <4> HIDE DEF e
      <4> QED BY <4>3, <4>4, <4>5 DEF e
    <3>3. r = d
      BY <2>1, <3>1, <3>2
    <3> SUFFICES ASSUME d.net.last <= MaxConnectors
                 PROVE  Good(d, E) /\ (d.conn.state = "CONNECTING" => d.conn.list \cap K = {})
      BY <3>2, <3>3
    <3>4. d.net.last <= MaxConnectors
      OBVIOUS
    <3> HIDE DEF r
    <3>5. /\ Base(d, E) /\ SameRest(t, d) /\ d.net.last >= t.net.last
          /\ d.conn.poke = t.conn.poke /\ d.conn.state = t.conn.state
          /\ d.conn.sock = t.conn.sock
          /\ d.conn.list \cap (1..t.net.last) = t.conn.list
          /\ Attempt(t.net, t.conn.list, E) => Attempt(d.net, d.conn.list, E)
      BY <2>3, <3>4, ConnectAllGood
    <3> HIDE DEF d, u, v, more
    <3>6. Good(d, E)
      BY <2>2, <2>4, <3>2, <3>5 DEF Good, Sane, SameRest
    <3>7. d.conn.list \cap K = {}
      BY <2>2, <3>5
    <3> QED BY <3>6, <3>7
  <2>6. CASE ~more /\ t.conn.list # {}
    <3>1. r = t
      BY <2>1, <2>6
    <3> HIDE DEF r, u, v, more
    <3>2. Good(t, E)
      BY <2>2, <2>3, <2>4, <2>6 DEF Good, Sane
    <3> QED BY <1>1, <2>2, <3>1, <3>2 DEF r
  <2>7. CASE ~more /\ t.conn.list = {}
    <3> DEFINE p == stopPoke(t)
               w == [p EXCEPT !.conn.state = "DISCONNECTED"]
    <3>1. r = disconnectConn(w, FALSE, how)
      BY <2>1, <2>7
    <3>2. p \in Snap /\ p.net = t.net /\ p.conn.list = t.conn.list
          /\ p.conn.poke = IF t.conn.poke = 0 THEN 0 ELSE t.conn.poke - 1
      BY <2>2, PokeShape
    <3> HIDE DEF p, r
    <3>3. w \in Snap /\ w.net = p.net /\ w.conn.list = p.conn.list /\ w.conn.poke = p.conn.poke
          /\ w.conn.state = "DISCONNECTED"
      BY <3>2 DEF Snap, ConnRec, ConnStates
    <3> HIDE DEF w, u, v, more
    <3>4. Base(w, E)
      BY <2>3, <3>2, <3>3 DEF Base
    <3>5. ASSUME ~w.net.stale PROVE Settled(w.conn, w.net, E)
      <4>1. t.conn.poke = 1 /\ Attempt(t.net, {}, E)
        BY <2>2, <2>4, <2>7, <3>2, <3>3, <3>5
      <4> QED BY <4>1, <3>2, <3>3 DEF Settled, Attempt, Active
    <3>6. Good(w, E)
      BY <3>3, <3>4, <3>5 DEF Good, Sane
    <3>7. Ready(w.conn) = FALSE
      BY <3>3 DEF Ready
    <3> DEFINE x == disconnectConn(w, FALSE, how)
    <3>8. Good(x, E) /\ x.net.last = w.net.last /\ x.conn.state = "DISCONNECTED"
      BY <3>3, <3>6, <3>7, DisconnectConnGood
    <3>9. r = x
      BY <3>1
    <3> HIDE DEF x
    <3>10. r \in Snap
      BY <3>8, <3>9 DEF Good, Base
    <3> QED BY <3>8, <3>9, <3>10
  <2> QED BY <2>5, <2>6, <2>7
<1> QED BY <1>2, <1>3

Handover(s, k, C, O, e) == [s EXCEPT !.net.ctr = C, !.conn.sock = k, !.net.owner = O, !.net.deaf = e]

LEMMA HandoverShape ==
  ASSUME NEW s \in Snap, NEW k \in Ids, NEW C \in [Ids -> Connector],
         NEW O \in [Ids -> {"connector", "conn"}], NEW e \in BOOLEAN
  PROVE  LET t == Handover(s, k, C, O, e)
         IN  /\ t \in Snap /\ t.cst = s.cst /\ t.net.sock = s.net.sock /\ t.net.last = s.net.last
             /\ t.net.stale = s.net.stale /\ t.net.deaf = e /\ t.net.ctr = C /\ t.net.owner = O
             /\ t.conn.sock = k /\ t.conn.list = s.conn.list /\ t.conn.poke = s.conn.poke
<1> SUFFICES ASSUME NEW t, t = [s EXCEPT !.net.ctr = C, !.conn.sock = k, !.net.owner = O, !.net.deaf = e]
             PROVE  /\ t \in Snap /\ t.cst = s.cst /\ t.net.sock = s.net.sock /\ t.net.last = s.net.last
                    /\ t.net.stale = s.net.stale /\ t.net.deaf = e /\ t.net.ctr = C /\ t.net.owner = O
                    /\ t.conn.sock = k /\ t.conn.list = s.conn.list /\ t.conn.poke = s.conn.poke
  BY DEF Handover
<1>1. t \in Snap /\ t.cst = s.cst
  BY DEF Snap, NetRec, ConnRec
<1>2. t.net.sock = s.net.sock /\ t.net.last = s.net.last /\ t.net.stale = s.net.stale
  BY DEF Snap, NetRec
<1>3. t.net.deaf = e /\ t.net.ctr = C /\ t.net.owner = O
  BY DEF Snap, NetRec
<1>4. t.conn.sock = k /\ t.conn.list = s.conn.list /\ t.conn.poke = s.conn.poke
  BY DEF Snap, ConnRec
<1> QED BY <1>1, <1>2, <1>3, <1>4

\* The handover of a connected socket.
LEMMA SuccessGood ==
  ASSUME NEW s, NEW E, Good(s, E), NEW k \in Ids, s.net.ctr[k].engaged,
         k <= s.net.last, s.net.sock[k] # "connecting"
  PROVE  LET t == ftpConnectSuccess(s, k)
         IN  /\ Good(t, E) /\ t.cst = s.cst /\ t.net.last = s.net.last
             /\ \/ t = s
                \/ /\ s.conn.state = "CONNECTING" /\ t.conn.state \in {"AUTH_TLS", "USER"}
                   /\ t.conn.processing = TRUE
<1>1. CASE s.conn.state # "CONNECTING"
  BY <1>1 DEF ftpConnectSuccess
<1>2. CASE s.conn.state = "CONNECTING"
  <2> DEFINE a == [s EXCEPT !.net.ctr[k] = Retired(@), !.conn.sock = k, !.net.owner[k] = "conn",
                            !.net.deaf = Shut(s, k)]
             b == stopPoke(a)
             c == clearConnectors(b)
             t == IF site.tls = "AUTH_TLS" THEN Send(c, "AUTH_TLS") ELSE Send(c, "USER")
  <2>1. ftpConnectSuccess(s, k) = t
    BY <1>2 DEF ftpConnectSuccess, doUSER
  <2>2. /\ s \in Snap /\ s.conn.list \subseteq 1..s.net.last /\ NetBase(s.net, E)
        /\ s.net.ctr[k] \in Connector /\ s.conn.poke \in Nat
    BY DEF Good, Base, Snap, NetRec, ConnRec
  <2>3. Retired(s.net.ctr[k]) \in Connector /\ ~Retired(s.net.ctr[k]).engaged
        /\ Retired(s.net.ctr[k]).stage = "direct"
    BY <2>2, RetiredShape
  <2>4. /\ a \in Snap /\ a.cst = s.cst /\ a.net.sock = s.net.sock /\ a.net.last = s.net.last
        /\ a.net.stale = s.net.stale
        /\ a.net.deaf = Shut(s, k)
        /\ a.conn.sock = k /\ a.conn.list = s.conn.list /\ a.conn.poke = s.conn.poke
        /\ \A j \in Ids : a.net.ctr[j] = IF j = k THEN Retired(s.net.ctr[k]) ELSE s.net.ctr[j]
        /\ \A j \in Ids : a.net.owner[j] = IF j = k THEN "conn" ELSE s.net.owner[j]
    <3> DEFINE C == [s.net.ctr EXCEPT ![k] = Retired(s.net.ctr[k])]
               O == [s.net.owner EXCEPT ![k] = "conn"]
    <3>1. C \in [Ids -> Connector] /\ O \in [Ids -> {"connector", "conn"}]
      BY <2>2, <2>3 DEF Snap, NetRec
    <3>2. /\ \A j \in Ids : C[j] = IF j = k THEN Retired(s.net.ctr[k]) ELSE s.net.ctr[j]
          /\ \A j \in Ids : O[j] = IF j = k THEN "conn" ELSE s.net.owner[j]
      BY <2>2 DEF Snap, NetRec
    <3>3. a = Handover(s, k, C, O, Shut(s, k))
      <4>1. \A x : [s EXCEPT !.net.ctr[k] = Retired(@), !.conn.sock = k, !.net.owner[k] = "conn",
                            !.net.deaf = x] = Handover(s, k, C, O, x)
        BY <2>2 DEF Snap, NetRec, ConnRec, Handover
      <4> HIDE DEF C, O
      <4> QED BY <4>1
    <3>4. Shut(s, k) \in BOOLEAN
      BY DEF Shut
    <3> HIDE DEF a, C, O
    <3>5. /\ a \in Snap /\ a.cst = s.cst /\ a.net.sock = s.net.sock /\ a.net.last = s.net.last
          /\ a.net.stale = s.net.stale /\ a.net.deaf = Shut(s, k) /\ a.net.ctr = C /\ a.net.owner = O
          /\ a.conn.sock = k /\ a.conn.list = s.conn.list /\ a.conn.poke = s.conn.poke
      BY <2>2, <3>1, <3>3, <3>4, HandoverShape
    <3> QED BY <3>2, <3>5
  <2> HIDE DEF a
  <2>5. \A e \in E : e.sock \in Ids
    BY <2>2 DEF NetBase, Event
  <2>6. Base(a, E)
    <3> DEFINE m == a.net
    <3>1. \A j \in Ids : m.ctr[j] = s.net.ctr[j] \/ (j = k /\ ~m.ctr[j].engaged /\ m.ctr[j].stage = "direct")
      BY <2>3, <2>4
    <3>2. \A j \in Ids : m.owner[j] = "conn" => s.net.owner[j] = "conn" \/ j = k
      BY <2>4
    <3>3. NetBase(m, E)
      <4>1. \A j \in Ids : j > m.last => m.sock[j] = "none" /\ m.owner[j] = "connector" /\ ~m.ctr[j].engaged
        BY <2>2, <2>4, <3>1 DEF NetBase
      <4>2. \A j \in Ids : j <= m.last =>
               /\ m.sock[j] # "none" /\ m.ctr[j].stage # "none"
               /\ m.ctr[j].engaged \/ m.ctr[j].stage = "direct"
               /\ site.proxy = "none" => m.ctr[j].stage = "direct"
        BY <2>2, <2>4, <3>1 DEF NetBase
      <4>3. \A j \in Ids : m.owner[j] = "conn" => ~m.ctr[j].engaged /\ m.sock[j] # "connecting"
        BY <2>2, <2>4, <3>1, <3>2, <2>3 DEF NetBase
      <4> QED BY <2>2, <2>4, <2>5, <4>1, <4>2, <4>3 DEF NetBase
    <3> QED BY <2>2, <2>4, <3>3 DEF Base
  <2>7. b \in Snap /\ b.net = a.net /\ b.cst = a.cst /\ b.conn.list = a.conn.list
        /\ b.conn.sock = a.conn.sock
        /\ b.conn.poke = IF a.conn.poke = 0 THEN 0 ELSE a.conn.poke - 1
    BY <2>4, PokeShape
  <2> HIDE DEF b
  <2>8. Base(b, E)
    BY <2>6, <2>7 DEF Base
  <2>9. c \in Snap /\ c.cst = b.cst /\ c.conn.poke = b.conn.poke /\ c.conn.sock = b.conn.sock
    BY <2>7, ClearShape
  <2>10. /\ Base(c, E) /\ SameRest(b, c) /\ c.net.last = b.net.last
         /\ \A j \in Ids : c.net.ctr[j].engaged => b.net.ctr[j].engaged /\ j \notin b.conn.list
         /\ \A j \in Ids : c.net.sock[j] \in Open => c.net.sock[j] = b.net.sock[j]
         /\ \A j \in Ids : j \in b.conn.list /\ b.net.ctr[j].engaged => c.net.sock[j] \notin Open
         /\ \A j \in Ids : ~(j \in b.conn.list /\ b.net.ctr[j].engaged) => c.net.sock[j] = b.net.sock[j]
    BY <2>8, ClearGood
  <2> HIDE DEF c
  <2>11. /\ t \in Snap /\ t.net = c.net /\ t.cst = c.cst /\ t.conn.state \in {"AUTH_TLS", "USER"}
         /\ t.conn.processing = TRUE
         /\ t.conn.sock = c.conn.sock /\ t.conn.list = c.conn.list /\ t.conn.poke = c.conn.poke
    <3>1. "AUTH_TLS" \in ConnStates /\ "USER" \in ConnStates
      BY DEF ConnStates
    <3> QED BY <2>9, <3>1, SendShape
  <2> HIDE DEF t
  <2>12. Base(t, E)
    BY <2>10, <2>11 DEF Base
  <2>13. ASSUME ~t.net.stale PROVE Settled(t.conn, t.net, E)
    <3>1. Sane(s.conn, s.net, E)
      BY <2>13, <2>4, <2>7, <2>10, <2>11 DEF SameRest, Good
    <3>2. s.conn.poke = 1 /\ Attempt(s.net, s.conn.list, E)
      BY <1>2, <3>1 DEF Sane
    <3>3. \A j \in Ids : ~t.net.ctr[j].engaged
      BY <3>2, <2>3, <2>4, <2>7, <2>10, <2>11 DEF Attempt
    <3>4. t.net.sock[k] = s.net.sock[k]
      BY <2>3, <2>4, <2>7, <2>10, <2>11
    <3>5. ASSUME NEW j \in Ids, t.net.sock[j] \in Open PROVE j = k
      <4> SUFFICES ASSUME j # k PROVE FALSE
        OBVIOUS
      <4>1. c.net.sock[j] \in Open /\ b.net.sock[j] \in Open /\ s.net.sock[j] \in Open
        BY <3>5, <2>4, <2>7, <2>10, <2>11
      <4>2. s.net.ctr[j].engaged /\ j \in s.conn.list
        BY <3>2, <4>1 DEF Attempt
      <4>3. b.net.ctr[j].engaged /\ j \in b.conn.list
        BY <4>2, <2>4, <2>7
      <4> QED BY <4>1, <4>3, <2>10
    <3>6. t.conn.poke = 0 /\ t.conn.sock = k /\ t.conn.state \in Active
      BY <3>2, <2>4, <2>7, <2>9, <2>11 DEF Active, ConnStates
    <3>7. t.net.owner[k] = "conn"
      BY <2>4, <2>7, <2>10, <2>11 DEF SameRest
    <3>8. s.net.sock[k] \in SocketState /\ s.net.sock[k] # "none"
      BY <2>2 DEF Snap, NetRec, NetBase
    <3>9. ~t.net.deaf => t.net.sock[k] \in {"up", "negotiating"}
      <4>1. t.net.deaf <=> s.net.sock[k] \in {"closing", "closed"}
        BY <2>4, <2>7, <2>10, <2>11 DEF SameRest, Shut
      <4> QED BY <4>1, <3>4, <3>8 DEF SocketState
    <3> QED BY <3>3, <3>5, <3>6, <3>7, <3>9 DEF Settled
  <2> QED BY <1>2, <2>1, <2>4, <2>7, <2>9, <2>10, <2>11, <2>12, <2>13 DEF Good, Sane
<1> QED BY <1>1, <1>2

-----------------------------------------------------------------------------
\* The events of a connector

\* An event that has done its work is not missed.
Spent(s, e) ==
  ~s.net.stale =>
  /\ s.conn.state = "CONNECTING" /\ site.proxy = "none" /\ e.sock \in s.conn.list =>
       /\ e.kind \notin {"fail", "disconnected"}
       /\ e.kind = "connected" => s.net.ctr[e.sock].connected
  /\ s.conn.state \in Active => ~News(s.conn, e)

LEMMA SpentGood ==
  ASSUME NEW s, NEW F, NEW e \in F, NEW E, E \subseteq F, F \subseteq E \cup {e}, Good(s, F), Spent(s, e)
  PROVE  Good(s, E)
<1>1. Base(s, E)
  BY DEF Good, Base, NetBase
<1>2. ASSUME ~s.net.stale PROVE Sane(s.conn, s.net, E)
  <2>1. Sane(s.conn, s.net, F)
    BY <1>2 DEF Good
  <2>2. CASE s.conn.state = "CONNECTING"
    <3>1. Attempt(s.net, s.conn.list, F)
      BY <2>1, <2>2 DEF Sane
    <3>2. ASSUME site.proxy = "none", NEW k \in s.conn.list PROVE Ending(s.net, k, E)
      <4>1. Ending(s.net, k, F)
        BY <3>1, <3>2 DEF Attempt
      <4>2. e.sock = k => e.kind \notin {"fail", "disconnected"}
                          /\ (e.kind = "connected" => s.net.ctr[k].connected)
        BY <1>2, <2>2, <3>2 DEF Spent
      <4> QED BY <4>1, <4>2 DEF Ending
    <3>3. Attempt(s.net, s.conn.list, E)
      BY <3>1, <3>2 DEF Attempt
    <3> QED BY <2>1, <2>2, <3>3 DEF Sane
  <2>3. CASE s.conn.state # "CONNECTING"
    <3>1. Settled(s.conn, s.net, F)
      BY <2>1, <2>3 DEF Sane
    <3>2. s.conn.state \in Active => ~News(s.conn, e)
      BY <1>2 DEF Spent
    <3>3. Settled(s.conn, s.net, E)
      BY <3>1, <3>2 DEF Settled
    <3> QED BY <2>3, <3>3 DEF Sane
  <2> QED BY <2>2, <2>3
<1> QED BY <1>1, <1>2 DEF Good

\* A connector's record replaced.
LEMMA CtrUpdate ==
  ASSUME NEW s \in Snap, NEW k \in Ids, NEW c \in Connector
  PROVE  LET t == [s EXCEPT !.net.ctr[k] = c]
         IN  /\ t \in Snap /\ t.conn = s.conn /\ t.cst = s.cst /\ SameRest(s, t)
             /\ t.net.sock = s.net.sock /\ t.net.last = s.net.last
             /\ \A j \in Ids : t.net.ctr[j] = IF j = k THEN c ELSE s.net.ctr[j]
<1> DEFINE t == [s EXCEPT !.net.ctr[k] = c]
<1>1. /\ t \in Snap /\ t.conn = s.conn /\ t.cst = s.cst /\ SameRest(s, t)
      /\ t.net.sock = s.net.sock /\ t.net.last = s.net.last
  BY DEF Snap, NetRec, SameRest
<1>2. \A j \in Ids : t.net.ctr[j] = IF j = k THEN c ELSE s.net.ctr[j]
  BY DEF Snap, NetRec
<1> QED BY <1>1, <1>2

\* What is so of the socket and the connector of an event.
LEMMA EventSock ==
  ASSUME NEW s, NEW E, Good(s, E), NEW e \in E
  PROVE  /\ e \in Event /\ e.sock \in Ids /\ e.sock <= s.net.last /\ e.sock \in 1..s.net.last
         /\ s.net.sock[e.sock] # "connecting"
         /\ s.net.sock[e.sock] \in SocketState /\ s.net.ctr[e.sock] \in Connector
         /\ e.kind \in {"disconnected", "fail"} => s.net.sock[e.sock] = "closed"
         /\ s.net.ctr[e.sock].stage # "direct" => s.net.ctr[e.sock].engaged /\ site.proxy # "none"
<1>1. e \in Event
  BY DEF Good, Base, NetBase
<1>2. e.sock \in Ids
  BY <1>1 DEF Event
<1>3. e.sock <= s.net.last /\ s.net.last \in Nat
  BY DEF Good, Base, NetBase, Snap, NetRec
<1>4. e.sock \in 1..s.net.last
  BY <1>2, <1>3 DEF Ids
<1>5. s.net.sock[e.sock] \in SocketState /\ s.net.ctr[e.sock] \in Connector
  BY <1>2 DEF Good, Base, Snap, NetRec
<1> QED BY <1>1, <1>2, <1>3, <1>4, <1>5 DEF Good, Base, NetBase

\* Retiring a connector whose socket is not open any more.
LEMMA RetirePre ==
  ASSUME NEW s, NEW E, Good(s, E), NEW k \in Ids, k <= s.net.last, s.net.ctr[k].engaged,
         NEW t \in Snap, t.conn = s.conn, SameRest(s, t), t.net.last = s.net.last,
         \A j \in Ids \ {k} : t.net.ctr[j] = s.net.ctr[j] /\ t.net.sock[j] = s.net.sock[j],
         t.net.ctr[k] = Retired(s.net.ctr[k]),
         t.net.sock[k] = s.net.sock[k] \/ (s.net.sock[k] \in Open /\ t.net.sock[k] = "closed"),
         t.net.sock[k] \notin Open
  PROVE  FailPre(t, {k}, E)
<1>1. s \in Snap /\ s.conn.list \subseteq 1..s.net.last /\ NetBase(s.net, E) /\ s.net.ctr[k] \in Connector
  BY DEF Good, Base, Snap, NetRec
<1>2. ~t.net.ctr[k].engaged /\ t.net.ctr[k].stage = "direct"
  BY <1>1, RetiredShape
<1>3. \A e \in E : e.sock \in Ids
  BY <1>1 DEF NetBase, Event
<1>4. NetBase(t.net, E)
  <2> DEFINE m == t.net
  <2>1. \A j \in Ids : j > m.last => m.sock[j] = "none" /\ m.owner[j] = "connector" /\ ~m.ctr[j].engaged
    BY <1>1, <1>2 DEF NetBase, SameRest, Open
  <2>2. \A j \in Ids : j <= m.last =>
           /\ m.sock[j] # "none" /\ m.ctr[j].stage # "none"
           /\ m.ctr[j].engaged \/ m.ctr[j].stage = "direct"
           /\ site.proxy = "none" => m.ctr[j].stage = "direct"
    BY <1>1, <1>2 DEF NetBase, SameRest, Open
  <2>3. \A j \in Ids : m.owner[j] = "conn" => ~m.ctr[j].engaged /\ m.sock[j] # "connecting"
    BY <1>1, <1>2 DEF NetBase, SameRest, Open
  <2>4. \A e \in E :
           /\ e.sock <= m.last /\ m.sock[e.sock] # "connecting"
           /\ e.to = "conn" => m.owner[e.sock] = "conn" /\ e.kind # "connected"
           /\ e.kind \in {"disconnected", "fail"} => m.sock[e.sock] = "closed"
    BY <1>1, <1>3 DEF NetBase, SameRest, Open
  <2> QED BY <1>1, <2>1, <2>2, <2>3, <2>4 DEF NetBase
<1>5. Base(t, E)
  BY <1>1, <1>4 DEF Base
<1>6. ASSUME ~t.net.stale PROVE t.conn.state = "CONNECTING"
  BY <1>6 DEF SameRest, Good, Sane, Settled
<1>7. ASSUME ~t.net.stale
      PROVE  t.conn.poke = 1 /\ t.conn.sock = NoSock /\ Attempt(t.net, t.conn.list \ {k}, E)
  <2>1. Sane(s.conn, s.net, E) /\ s.conn.state = "CONNECTING"
    BY <1>6, <1>7 DEF SameRest, Good
  <2>2. Attempt(s.net, s.conn.list, E)
    BY <2>1 DEF Sane
  <2>3. \A j \in Ids : t.net.ctr[j].engaged <=> j \in t.conn.list \ {k}
    BY <2>2, <1>2 DEF Attempt
  <2>4. \A j \in Ids : t.net.sock[j] \in Open => t.net.ctr[j].engaged
    BY <2>2, <1>2 DEF Attempt
  <2>5. ASSUME site.proxy = "none", NEW j \in t.conn.list \ {k} PROVE Ending(t.net, j, E)
    <3>1. Ending(s.net, j, E) /\ j \in s.conn.list
      BY <2>2, <2>5 DEF Attempt
    <3>2. j \in Ids
      <4>1. s.net.last <= MaxConnectors /\ MaxConnectors \in Nat /\ s.net.last \in Nat
        BY <1>1, ConnectAssumption DEF NetBase, Snap, NetRec
      <4> QED BY <1>1, <3>1, <4>1 DEF Ids
    <3> QED BY <2>5, <3>1, <3>2 DEF Ending
  <2> QED BY <2>1, <2>3, <2>4, <2>5 DEF Attempt, Sane
<1> QED BY <1>5, <1>6, <1>7 DEF FailPre

LEMMA ConnectorFailGood ==
  ASSUME NEW s, NEW E, Good(s, E), NEW k \in Ids, k \in 1..s.net.last, NEW how \in CloseKinds, site \in Sites,
         s.net.sock[k] \notin Open, ConnectorFail(s, k, how).net.last <= MaxConnectors
  PROVE  LET t == ConnectorFail(s, k, how)
         IN  Good(t, E) /\ (~t.net.stale => t.conn.state # "CONNECTING" \/ k \notin t.conn.list)
<1>1. CASE ~s.net.ctr[k].engaged
  <2>1. ConnectorFail(s, k, how) = s
    BY <1>1 DEF ConnectorFail
  <2>2. ~s.net.stale => s.conn.state # "CONNECTING" \/ k \notin s.conn.list
    BY <1>1 DEF Good, Sane, Attempt
  <2> QED BY <2>1, <2>2
<1>2. CASE s.net.ctr[k].engaged
  <2> DEFINE a == [s EXCEPT !.net.ctr[k] = Retired(s.net.ctr[k])]
             t == ftpConnectFail(a, {k}, how)
  <2>1. ConnectorFail(s, k, how) = t
    BY <1>2 DEF ConnectorFail
  <2>2. s \in Snap /\ s.net.ctr[k] \in Connector /\ s.net.last \in Nat
    BY DEF Good, Base, Snap, NetRec
  <2>3. Retired(s.net.ctr[k]) \in Connector
    BY <2>2, RetiredShape
  <2>4. /\ a \in Snap /\ a.conn = s.conn /\ SameRest(s, a)
        /\ a.net.sock = s.net.sock /\ a.net.last = s.net.last
        /\ \A j \in Ids : a.net.ctr[j] = IF j = k THEN Retired(s.net.ctr[k]) ELSE s.net.ctr[j]
    BY <2>2, <2>3, CtrUpdate
  <2> HIDE DEF a
  <2>5. FailPre(a, {k}, E)
    BY <1>2, <2>2, <2>4, RetirePre
  <2>6. t.net.last <= MaxConnectors
    BY <2>1
  <2>7. {k} \subseteq 1..a.net.last
    BY <2>4
  <2>8. Good(t, E) /\ (t.conn.state = "CONNECTING" => t.conn.list \cap {k} = {})
    <3> DEFINE K == {k}
    <3> HIDE DEF K
    <3>1. FailPre(a, K, E) /\ K \subseteq 1..a.net.last /\ ftpConnectFail(a, K, how).net.last <= MaxConnectors
      BY <2>5, <2>6, <2>7 DEF K
    <3>2. Good(ftpConnectFail(a, K, how), E)
          /\ (ftpConnectFail(a, K, how).conn.state = "CONNECTING"
                => ftpConnectFail(a, K, how).conn.list \cap K = {})
      BY <3>1, FailGood
    <3> QED BY <3>2 DEF K
  <2> HIDE DEF t
  <2> QED BY <2>1, <2>8
<1> QED BY <1>1, <1>2

LEMMA InterConnectedGood ==
  ASSUME NEW s, NEW E, Good(s, E), NEW k \in Ids, k <= s.net.last
  PROVE  LET t == FDInterConnected(s, k)
         IN  /\ Good(t, E) /\ t.conn = s.conn /\ t.cst = s.cst
             /\ t.net.ctr[k].engaged => t.net.ctr[k].connected
<1>1. CASE ~s.net.ctr[k].engaged
  BY <1>1 DEF FDInterConnected
<1>2. CASE s.net.ctr[k].engaged
  <2> DEFINE c == [s.net.ctr[k] EXCEPT !.connected = TRUE, !.waited = 0]
             v == IF site.tls = "IMPLICIT" /\ s.net.sock[k] = "up" THEN "negotiating" ELSE s.net.sock[k]
             a == [s EXCEPT !.net.ctr[k] = c]
             t == [a EXCEPT !.net.sock[k] = v]
  <2>1. s \in Snap /\ s.net.ctr[k] \in Connector /\ s.net.sock[k] \in SocketState
        /\ NetBase(s.net, E) /\ s.conn.list \subseteq 1..s.net.last
    BY DEF Good, Base, Snap, NetRec
  <2>2. FDInterConnected(s, k) = t
    <3>1. \A x : [s EXCEPT !.net.ctr[k].connected = TRUE, !.net.ctr[k].waited = 0, !.net.sock[k] = x]
               = [[s EXCEPT !.net.ctr[k].connected = TRUE, !.net.ctr[k].waited = 0]
                    EXCEPT !.net.sock[k] = x]
      BY <2>1 DEF Snap, NetRec
    <3>3. [s EXCEPT !.net.ctr[k].connected = TRUE, !.net.ctr[k].waited = 0] = a
      BY <2>1 DEF Snap, NetRec
    <3>2. FDInterConnected(s, k)
          = [s EXCEPT !.net.ctr[k].connected = TRUE, !.net.ctr[k].waited = 0, !.net.sock[k] = v]
      BY <1>2 DEF FDInterConnected
    <3> HIDE DEF a, v
    <3> QED BY <3>1, <3>2, <3>3
  <2>3. c \in Connector /\ c.engaged /\ c.connected /\ c.stage = s.net.ctr[k].stage
    <3>1. 0 \in 0..WelcomeTicks
      BY ConnectAssumption
    <3>2. c \in Connector
      BY <2>1, <3>1 DEF Connector
    <3>3. c.engaged /\ c.connected /\ c.stage = s.net.ctr[k].stage
      BY <1>2, <2>1 DEF Connector
    <3> QED BY <3>2, <3>3
  <2>4. v \in SocketState
    BY <2>1 DEF SocketState
  <2> HIDE DEF c
  <2>5. /\ a \in Snap /\ a.conn = s.conn /\ a.cst = s.cst /\ SameRest(s, a)
        /\ a.net.sock = s.net.sock /\ a.net.last = s.net.last
        /\ \A j \in Ids : a.net.ctr[j] = IF j = k THEN c ELSE s.net.ctr[j]
    BY <2>1, <2>3, CtrUpdate
  <2> HIDE DEF a, v
  <2>6. /\ t \in Snap /\ t.conn = a.conn /\ t.cst = a.cst /\ SameRest(a, t)
        /\ t.net.ctr = a.net.ctr /\ t.net.last = a.net.last
        /\ \A j \in Ids : t.net.sock[j] = IF j = k THEN v ELSE a.net.sock[j]
    BY <2>4, <2>5, SockUpdate
  <2> HIDE DEF t
  <2>7. v = s.net.sock[k] \/ (s.net.sock[k] = "up" /\ v = "negotiating")
    BY DEF v
  <2>8. NetBase(t.net, E)
    <3> DEFINE m == t.net
    <3>0. \A e \in E : e.sock \in Ids
      BY <2>1 DEF NetBase, Event
    <3>1. /\ \A j \in Ids : (m.ctr[j].engaged <=> s.net.ctr[j].engaged) /\ m.ctr[j].stage = s.net.ctr[j].stage
          /\ \A j \in Ids : m.sock[j] = s.net.sock[j]
                              \/ (s.net.sock[j] = "up" /\ m.sock[j] = "negotiating")
          /\ m.last = s.net.last /\ m.owner = s.net.owner
      BY <1>2, <2>3, <2>5, <2>6, <2>7 DEF SameRest
    <3> HIDE DEF m
    <3>2. \A j \in Ids : j > m.last => m.sock[j] = "none" /\ m.owner[j] = "connector" /\ ~m.ctr[j].engaged
      BY <2>1, <3>1 DEF NetBase
    <3>3. \A j \in Ids : j <= m.last =>
             /\ m.sock[j] # "none" /\ m.ctr[j].stage # "none"
             /\ m.ctr[j].engaged \/ m.ctr[j].stage = "direct"
             /\ site.proxy = "none" => m.ctr[j].stage = "direct"
      BY <2>1, <3>1 DEF NetBase
    <3>4. \A j \in Ids : m.owner[j] = "conn" => ~m.ctr[j].engaged /\ m.sock[j] # "connecting"
      BY <2>1, <3>1 DEF NetBase
    <3>5. \A e \in E :
             /\ e.sock <= m.last /\ m.sock[e.sock] # "connecting"
             /\ e.to = "conn" => m.owner[e.sock] = "conn" /\ e.kind # "connected"
             /\ e.kind \in {"disconnected", "fail"} => m.sock[e.sock] = "closed"
      BY <2>1, <3>0, <3>1 DEF NetBase
    <3>6. NetBase(m, E)
      BY <2>1, <3>1, <3>2, <3>3, <3>4, <3>5 DEF NetBase
    <3> QED BY <3>6 DEF m
  <2>9. Base(t, E)
    BY <2>1, <2>5, <2>6, <2>8 DEF Base
  <2>10. ASSUME ~t.net.stale PROVE Sane(t.conn, t.net, E)
    <3>1. Sane(s.conn, s.net, E)
      BY <2>5, <2>6, <2>10 DEF SameRest, Good
    <3>2. s.conn.state = "CONNECTING" /\ Attempt(s.net, s.conn.list, E)
      BY <1>2, <3>1 DEF Sane, Settled
    <3>3. \A j \in Ids : t.net.ctr[j].engaged <=> j \in t.conn.list
      BY <1>2, <3>2, <2>3, <2>5, <2>6 DEF Attempt
    <3>4. \A j \in Ids : t.net.sock[j] \in Open => t.net.ctr[j].engaged
      BY <1>2, <3>2, <2>3, <2>5, <2>6 DEF Attempt
    <3>5. ASSUME site.proxy = "none", NEW j \in t.conn.list PROVE Ending(t.net, j, E)
      <4>1. Ending(s.net, j, E) /\ j \in s.conn.list
        BY <3>2, <3>5, <2>5, <2>6 DEF Attempt
      <4>2. j \in Ids
        <5>1. s.net.last <= MaxConnectors /\ MaxConnectors \in Nat /\ s.net.last \in Nat
          BY <2>1, ConnectAssumption DEF NetBase, Snap, NetRec
        <5> QED BY <2>1, <4>1, <5>1 DEF Ids
      <4>3. CASE j = k
        BY <4>1, <4>2, <4>3, <2>3, <2>5, <2>6, <2>7 DEF Ending
      <4>4. CASE j # k
        BY <4>1, <4>2, <4>4, <2>5, <2>6 DEF Ending
      <4> QED BY <4>3, <4>4
    <3>6. Attempt(t.net, t.conn.list, E)
      BY <3>3, <3>4, <3>5 DEF Attempt
    <3> QED BY <3>1, <3>2, <3>6, <2>5, <2>6 DEF Sane
  <2> QED BY <2>2, <2>3, <2>5, <2>6, <2>9, <2>10 DEF Good
<1> QED BY <1>1, <1>2

LEMMA InterDataGood ==
  ASSUME NEW s, NEW E, Good(s, E), NEW k \in Ids, k \in 1..s.net.last, s.net.sock[k] # "connecting",
         NEW reply, NEW how \in CloseKinds, site \in Sites,
         FDInterData(s, k, reply, how).net.last <= MaxConnectors
  PROVE  Good(FDInterData(s, k, reply, how), E)
<1>0. s \in Snap /\ s.net.ctr[k] \in Connector /\ s.net.last \in Nat /\ k <= s.net.last
  BY DEF Good, Base, Snap, NetRec
<1>1. CASE ~s.net.ctr[k].engaged
  BY <1>1 DEF FDInterData
<1>2. CASE s.net.ctr[k].engaged /\ reply = "good"
  BY <1>0, <1>2, SuccessGood DEF FDInterData
<1>3. CASE s.net.ctr[k].engaged /\ reply # "good"
  <2> DEFINE K == {k}
             a == disengage(s, K)
             t == ftpConnectFail(a, K, how)
  <2>1. FDInterData(s, k, reply, how) = t
    BY <1>3 DEF FDInterData
  <2>2. /\ a \in Snap /\ a.conn = s.conn /\ SameRest(s, a)
        /\ a.net.last = s.net.last
        /\ \A j \in Ids :
                  IF j \in K /\ s.net.ctr[j].engaged
                  THEN /\ a.net.ctr[j] = Retired(s.net.ctr[j])
                       /\ a.net.sock[j] = IF s.net.sock[j] \in Open THEN "closed" ELSE s.net.sock[j]
                  ELSE a.net.ctr[j] = s.net.ctr[j] /\ a.net.sock[j] = s.net.sock[j]
    BY <1>0, DisengageShape
  <2> HIDE DEF a
  <2>3. FailPre(a, {k}, E)
    BY <1>0, <1>3, <2>2, RetirePre DEF Open
  <2>4. FailPre(a, K, E) /\ K \subseteq 1..a.net.last /\ t.net.last <= MaxConnectors
    BY <2>1, <2>2, <2>3
  <2> HIDE DEF K
  <2>5. Good(t, E)
    BY <2>4, FailGood
  <2> QED BY <2>1, <2>5
<1> QED BY <1>1, <1>2, <1>3

LEMMA ProxyDataGood ==
  ASSUME NEW s, NEW E, Good(s, E), NEW k \in Ids, k \in 1..s.net.last,
         s.net.ctr[k].engaged, site.proxy # "none", s.net.ctr[k].stage # "none",
         s.net.ctr[k].stage # "direct",
         NEW reply, NEW how \in CloseKinds, site \in Sites,
         ProxyData(s, k, reply, how).net.last <= MaxConnectors
  PROVE  Good(ProxyData(s, k, reply, how), E)
<1> DEFINE next == received(s.net.ctr[k].stage, reply)
<1>0. /\ s \in Snap /\ s.net.ctr[k] \in Connector /\ s.net.last \in Nat /\ k <= s.net.last
      /\ s.conn.list \subseteq 1..s.net.last /\ NetBase(s.net, E) /\ s.net.sock[k] \in SocketState
  BY DEF Good, Base, Snap, NetRec
<1>1. next \in {"ERROR", "SUCCESS", "SEND", "SEND_CONNECT"}
  <2>1. s.net.ctr[k].stage \in {"INIT", "SEND", "SEND_CONNECT"}
    BY <1>0 DEF Connector
  <2> QED BY <2>1 DEF received
<1> HIDE DEF next
<1>2. ASSUME NEW stage \in {"direct", "SEND", "SEND_CONNECT"}
      PROVE  LET a == [s EXCEPT !.net.ctr[k].stage = stage]
             IN  Good(a, E) /\ a.net.last = s.net.last
  <2> DEFINE c == [s.net.ctr[k] EXCEPT !.stage = stage]
             a == [s EXCEPT !.net.ctr[k] = c]
  <2>1. [s EXCEPT !.net.ctr[k].stage = stage] = a
    BY <1>0 DEF Snap, NetRec
  <2>2. c \in Connector /\ c.stage = stage /\ c.engaged
    BY <1>0 DEF Connector
  <2> HIDE DEF c
  <2>3. /\ a \in Snap /\ a.conn = s.conn /\ a.cst = s.cst /\ SameRest(s, a)
        /\ a.net.sock = s.net.sock /\ a.net.last = s.net.last
        /\ \A j \in Ids : a.net.ctr[j] = IF j = k THEN c ELSE s.net.ctr[j]
    BY <1>0, <2>2, CtrUpdate
  <2> HIDE DEF a
  <2>4. NetBase(a.net, E)
    BY <1>0, <2>2, <2>3 DEF NetBase, SameRest
  <2>5. Base(a, E)
    BY <1>0, <2>3, <2>4 DEF Base
  <2>6. ASSUME ~a.net.stale PROVE Sane(a.conn, a.net, E)
    <3>1. Sane(s.conn, s.net, E)
      BY <2>3, <2>6 DEF SameRest, Good
    <3>2. s.conn.state = "CONNECTING" /\ Attempt(s.net, s.conn.list, E)
      BY <3>1 DEF Sane, Settled
    <3>3. Attempt(a.net, a.conn.list, E)
      BY <3>2, <2>2, <2>3 DEF Attempt
    <3> QED BY <3>1, <3>2, <3>3, <2>3 DEF Sane
  <2> QED BY <2>1, <2>3, <2>5, <2>6 DEF Good
<1>3. CASE next = "SUCCESS"
  <2> DEFINE a == [s EXCEPT !.net.ctr[k].stage = "direct"]
  <2>1. Good(a, E) /\ a.net.last = s.net.last
    BY <1>2
  <2>2. ProxyData(s, k, reply, how) = FDInterConnected(a, k)
    BY <1>3 DEF ProxyData, next
  <2> HIDE DEF a
  <2> QED BY <1>0, <2>1, <2>2, InterConnectedGood
<1>4. CASE next = "ERROR"
  <2> DEFINE a == CloseSocket(s, k, how)
  <2>1. /\ a \in Snap /\ a.conn = s.conn /\ SameRest(s, a)
        /\ a.net.ctr = s.net.ctr /\ a.net.last = s.net.last
        /\ \A j \in Ids : IF j = k /\ s.net.sock[k] \in Open
                          THEN a.net.sock[j] \in CloseKinds
                          ELSE a.net.sock[j] = s.net.sock[j]
    BY <1>0, CloseShape
  <2>2. Base(a, E)
    BY CloseBase DEF Good
  <2>3. ProxyData(s, k, reply, how) = ConnectorFail(a, k, how)
    BY <1>4 DEF ProxyData, next
  <2> HIDE DEF a
  <2>4. ASSUME ~a.net.stale PROVE Sane(a.conn, a.net, E)
    <3>1. Sane(s.conn, s.net, E)
      BY <2>1, <2>4 DEF SameRest, Good
    <3>2. s.conn.state = "CONNECTING" /\ Attempt(s.net, s.conn.list, E)
      BY <3>1 DEF Sane, Settled
    <3>3. \A j \in Ids : a.net.sock[j] \in Open => s.net.sock[j] \in Open
      BY <2>1
    <3>4. Attempt(a.net, a.conn.list, E)
      BY <3>2, <3>3, <2>1 DEF Attempt
    <3> QED BY <3>1, <3>2, <3>4, <2>1 DEF Sane
  <2>5. Good(a, E) /\ a.net.sock[k] \notin Open
    BY <2>1, <2>2, <2>4 DEF Good, CloseKinds, Open
  <2> QED BY <2>1, <2>3, <2>5, ConnectorFailGood
<1>5. CASE next \in {"SEND", "SEND_CONNECT"}
  <2>1. ProxyData(s, k, reply, how) = [s EXCEPT !.net.ctr[k].stage = next]
    BY <1>5 DEF ProxyData, next
  <2> QED BY <1>2, <1>5, <2>1
<1> QED BY <1>1, <1>3, <1>4, <1>5

-----------------------------------------------------------------------------
\* The events of the connection

LEMMA MovesSelf == ASSUME NEW s \in Snap PROVE Moves(s, s)
BY DEF Moves

LEMMA SendMoves ==
  ASSUME NEW s \in Snap, s.conn.state \in Active, NEW state \in Active
  PROVE  Moves(s, Send(s, state)) /\ Send(s, state).conn.state = state
<1>1. state \in ConnStates
  BY DEF Active
<1> QED BY <1>1, SendShape DEF Moves

LEMMA HandleConnectionMoves ==
  ASSUME NEW s \in Snap, NEW work \in Work, s.conn.state \in Active \/ s.conn.processing
  PROVE  Moves(s, handleConnection(s, work))
<1>1. CASE s.conn.processing \/ s.cst.locked \/ work = "nothing"
  BY <1>1, MovesSelf DEF handleConnection
<1>2. CASE ~(s.conn.processing \/ s.cst.locked \/ work = "nothing")
  <2> DEFINE a == ClearCommand(s)
             b == Send(a, "COMMAND")
  <2>1. a \in Snap /\ a.net = s.net /\ a.conn = s.conn
    BY ClearCommandShape
  <2> HIDE DEF a
  <2>2. "COMMAND" \in Active /\ a.conn.state \in Active
    BY <1>2, <2>1 DEF Active, ConnStates
  <2>3. Moves(a, b)
    BY <2>1, <2>2, SendMoves
  <2>4. b \in Snap
    BY <2>3 DEF Moves
  <2>5. Moves(s, b)
    BY <2>1, <2>3 DEF Moves
  <2> HIDE DEF b
  <2>6. ASSUME NEW c \in {a, b} PROVE Moves(s, [c EXCEPT !.cst.locked = TRUE])
    <3>1. c \in Snap /\ Moves(s, c)
      BY <2>1, <2>4, <2>5, <2>6 DEF Moves
    <3> DEFINE d == [c EXCEPT !.cst.locked = TRUE]
    <3>2. d \in Snap /\ d.net = c.net /\ d.conn = c.conn
      BY <3>1 DEF Snap, CstRec
    <3> HIDE DEF d
    <3>3. Moves(s, d)
      BY <3>1, <3>2 DEF Moves
    <3> QED BY <3>3 DEF d
  <2>7. handleConnection(s, work)
          = CASE work = "command" -> b
              [] work = "transfer" -> [b EXCEPT !.cst.locked = TRUE]
              [] work = "waitingtransfer" -> [a EXCEPT !.cst.locked = TRUE]
    BY <1>2 DEF handleConnection, a, b
  <2>8. work \in {"command", "transfer", "waitingtransfer"}
    BY <1>2 DEF Work
  <2> QED BY <2>5, <2>6, <2>7, <2>8
<1> QED BY <1>1, <1>2

LEMMA FinishLoginMoves ==
  ASSUME NEW s \in Snap, NEW work \in Work, s.conn.state \in Active
  PROVE  Moves(s, finishLogin(s, work))
<1>1. "TYPEI" \in Active /\ "XDUPE" \in Active
  BY DEF Active, ConnStates
<1>2. CASE site.binary /\ ~s.conn.typei
  BY <1>1, <1>2, SendMoves DEF finishLogin
<1>3. CASE ~(site.binary /\ ~s.conn.typei) /\ site.xdupe /\ ~s.conn.xdupe
  BY <1>1, <1>3, SendMoves DEF finishLogin
<1>4. CASE ~(site.binary /\ ~s.conn.typei) /\ ~(site.xdupe /\ ~s.conn.xdupe)
  <2> DEFINE a == ClearCommand(s)
             b == [a EXCEPT !.cst.loggedin = TRUE]
  <2>1. a \in Snap /\ a.net = s.net /\ a.conn = s.conn
    BY ClearCommandShape
  <2>2. finishLogin(s, work) = handleConnection(b, work)
    BY <1>4 DEF finishLogin
  <2> HIDE DEF a
  <2>3. b \in Snap /\ b.net = a.net /\ b.conn = a.conn
    BY <2>1 DEF Snap, CstRec
  <2> HIDE DEF b
  <2>4. Moves(b, handleConnection(b, work))
    BY <2>1, <2>3, HandleConnectionMoves
  <2>5. Moves(s, b)
    BY <2>1, <2>3 DEF Moves
  <2> QED BY <2>2, <2>4, <2>5, MovesTrans
<1> QED BY <1>2, <1>3, <1>4

\* The states in which a reply is waited for.
Logins == {"USER", "USER_LOGINKILL", "PASS", "PASS_LOGINKILL"}

LEMMA RefusedGood ==
  ASSUME NEW s, NEW E, Good(s, E), s.conn.state \in Logins, NEW reply, NEW how \in CloseKinds
  PROVE  LET t == Refused(s, reply, how)
         IN  Good(t, E) /\ t.conn.state # "CONNECTING"
<1>0. s \in Snap /\ s.conn.state \in Active
  BY DEF Good, Base, Logins, Active, ConnStates
<1>1. CASE reply = "full"
  <2>1. "reconnect" \in Delayed /\ TRUE \in BOOLEAN
    BY DEF Delayed
  <2> DEFINE t == delayedCommand(s, "reconnect", TRUE)
  <2>2. t \in Snap /\ t.net = s.net /\ t.conn = s.conn
    BY <1>0, <2>1, DelayedShape
  <2>3. Refused(s, reply, how) = t
    BY <1>1 DEF Refused
  <2> HIDE DEF t
  <2> QED BY <1>0, <2>2, <2>3, MovesGood DEF Moves, Active
<1>2. CASE reply # "full" /\ reply = "simultaneous" /\ s.conn.state \in {"USER", "PASS"}
  <2>1. Refused(s, reply, how) = Send(s, "USER_LOGINKILL")
    BY <1>2 DEF Refused, doUSER
  <2>2. "USER_LOGINKILL" \in Active
    BY DEF Active, ConnStates
  <2>3. Moves(s, Send(s, "USER_LOGINKILL")) /\ Send(s, "USER_LOGINKILL").conn.state = "USER_LOGINKILL"
    BY <1>0, <2>2, SendMoves
  <2> QED BY <2>1, <2>3, MovesGood
<1>3. CASE reply # "full" /\ ~(reply = "simultaneous" /\ s.conn.state \in {"USER", "PASS"})
  <2>1. Refused(s, reply, how) = disconnectConn(s, FALSE, how)
    BY <1>3 DEF Refused
  <2> QED BY <1>0, <2>1, DisconnectConnGood
<1> QED BY <1>1, <1>2, <1>3

\* A socket of the connection begins to negotiate.
LEMMA NegotiateGood ==
  ASSUME NEW s, NEW E, Good(s, E), s.conn.state = "AUTH_TLS", NEW k \in Ids, k = s.conn.sock, s.net.sock[k] = "up"
  PROVE  LET t == [s EXCEPT !.net.sock[k] = "negotiating"]
         IN  Good(t, E) /\ t.conn.state = "AUTH_TLS"
<1> DEFINE t == [s EXCEPT !.net.sock[k] = "negotiating"]
<1>1. s \in Snap /\ s.conn.list \subseteq 1..s.net.last /\ NetBase(s.net, E)
  BY DEF Good, Base
<1>2. /\ t \in Snap /\ t.conn = s.conn /\ t.cst = s.cst /\ SameRest(s, t)
      /\ t.net.ctr = s.net.ctr /\ t.net.last = s.net.last
      /\ \A j \in Ids : t.net.sock[j] = IF j = k THEN "negotiating" ELSE s.net.sock[j]
  <2>1. "negotiating" \in SocketState
    BY DEF SocketState
  <2> QED BY <1>1, <2>1, SockUpdate
<1> HIDE DEF t
<1>3. \A e \in E : e.sock \in Ids
  BY <1>1 DEF NetBase, Event
<1>4. NetBase(t.net, E)
  BY <1>1, <1>2, <1>3 DEF NetBase, SameRest
<1>5. ASSUME ~t.net.stale PROVE Settled(t.conn, t.net, E)
  <2>1. Settled(s.conn, s.net, E)
    BY <1>2, <1>5 DEF Good, SameRest, Sane
  <2> QED BY <2>1, <1>2 DEF Settled, Open, Active, ConnStates, SameRest
<1> QED BY <1>1, <1>2, <1>4, <1>5 DEF Good, Base, Sane, t

LEMMA HandleReplyGood ==
  ASSUME NEW s, NEW E, Good(s, E), NEW reply \in Replies, NEW work \in Work, NEW how \in CloseKinds,
         s.conn.sock # NoSock, site \in Sites
  PROVE  LET t == HandleReply(s, reply, work, how)
         IN  /\ t \in Snap
             /\ t.net.last <= MaxConnectors =>
                  Good(t, E) /\ (~t.net.stale /\ t.conn.state = "CONNECTING" => t.conn.processing)
<1> DEFINE done == [s EXCEPT !.conn.processing = FALSE]
           r == HandleReply(s, reply, work, how)
<1> SUFFICES /\ r \in Snap
             /\ r.net.last <= MaxConnectors =>
                  Good(r, E) /\ (~r.net.stale /\ r.conn.state = "CONNECTING" => r.conn.processing)
  OBVIOUS
<1>a. \A x : Good(x, E) => x \in Snap
  BY DEF Good, Base
<1>0. s \in Snap /\ s.conn.state \in ConnStates /\ s.conn.sock \in Ids
  BY DEF Good, Base, Snap, ConnRec
<1>1. done \in Snap /\ done.net = s.net /\ done.conn.state = s.conn.state /\ Moves(s, done)
      /\ done.conn.list = s.conn.list /\ done.conn.poke = s.conn.poke /\ done.conn.sock = s.conn.sock
      /\ done.conn.processing = FALSE
  BY <1>0 DEF Snap, ConnRec, Moves
<1>2. Good(done, E)
  BY <1>1, MovesGood
<1>3. ASSUME NEW t, Moves(s, t), s.conn.state \in Active PROVE Good(t, E) /\ t.conn.state # "CONNECTING" /\ t \in Snap
  BY <1>3, MovesGood DEF Moves, Active
<1>4. CASE s.conn.state = "AUTH_TLS"
  <2>1. CASE reply = "good" /\ s.net.sock[s.conn.sock] = "up"
    <3>1. r = [s EXCEPT !.net.sock[s.conn.sock] = "negotiating"]
      BY <1>4, <2>1 DEF HandleReply
    <3> HIDE DEF r
    <3>2. Good(r, E) /\ r.conn.state = "AUTH_TLS"
      BY <1>0, <1>4, <2>1, <3>1, NegotiateGood
    <3> QED BY <1>a, <3>2 DEF r
  <2>2. CASE reply = "good" /\ s.net.sock[s.conn.sock] # "up"
    <3>1. r = s
      BY <1>4, <2>2 DEF HandleReply
    <3> QED BY <1>0, <1>4, <3>1
  <2>3. CASE reply # "good"
    <3>1. r = disconnectConn(done, FALSE, how)
      BY <1>4, <2>3 DEF HandleReply
    <3> HIDE DEF done, r
    <3>2. done.conn.state \in Active
      BY <1>1, <1>4 DEF Active, ConnStates
    <3>3. Good(r, E) /\ r.conn.state # "CONNECTING"
      BY <1>2, <3>1, <3>2, DisconnectConnGood
    <3> QED BY <1>a, <3>3 DEF r
  <2> QED BY <2>1, <2>2, <2>3
<1>5. CASE s.conn.state \in Logins
  <2>0. s.conn.state \in Active
    BY <1>5 DEF Logins, Active, ConnStates
  <2>1. CASE reply = "good"
    <3>1. r = finishLogin(done, work)
      BY <1>5, <2>1 DEF HandleReply, Logins
    <3> HIDE DEF done, r
    <3>2. Moves(done, r)
      BY <1>1, <2>0, <3>1, FinishLoginMoves
    <3>3. Moves(s, r)
      BY <1>1, <3>2, MovesTrans
    <3> QED BY <1>3, <2>0, <3>3 DEF r
  <2>2. CASE reply = "more" /\ s.conn.state \in {"USER", "USER_LOGINKILL"}
    <3> DEFINE x == IF s.conn.state = "USER" THEN "PASS" ELSE "PASS_LOGINKILL"
    <3>1. r = [s EXCEPT !.conn.state = x]
      BY <2>2 DEF HandleReply
    <3>2. x \in Active /\ x \in ConnStates
      BY DEF Active, ConnStates
    <3> HIDE DEF x, r
    <3>3. r \in Snap /\ r.net = s.net /\ r.conn.state = x /\ r.conn.sock = s.conn.sock
          /\ r.conn.list = s.conn.list /\ r.conn.poke = s.conn.poke
      <4> DEFINE y == [s EXCEPT !.conn.state = x]
      <4>1. y \in Snap /\ y.net = s.net /\ y.conn.state = x /\ y.conn.sock = s.conn.sock
            /\ y.conn.list = s.conn.list /\ y.conn.poke = s.conn.poke
        BY <1>0, <3>2 DEF Snap, ConnRec
      <4> HIDE DEF y
      <4> QED BY <3>1, <4>1 DEF y
    <3>4. Moves(s, r)
      BY <2>0, <3>2, <3>3 DEF Moves
    <3> QED BY <1>3, <2>0, <3>4 DEF r
  <2>3. CASE reply # "good" /\ ~(reply = "more" /\ s.conn.state \in {"USER", "USER_LOGINKILL"})
    <3>1. r = Refused(done, reply, how)
      BY <1>5, <2>3 DEF HandleReply, Logins
    <3> HIDE DEF done, r
    <3>2. Good(r, E) /\ r.conn.state # "CONNECTING"
      BY <1>1, <1>2, <1>5, <3>1, RefusedGood
    <3> QED BY <1>a, <3>2 DEF r
  <2> QED BY <2>1, <2>2, <2>3
<1>6. CASE s.conn.state = "TYPEI"
  <2>0. s.conn.state \in Active
    BY <1>6 DEF Active, ConnStates
  <2>1. CASE reply = "good"
    <3> DEFINE a == [done EXCEPT !.conn.typei = TRUE]
    <3>1. r = finishLogin(a, work)
      BY <1>6, <2>1 DEF HandleReply
    <3> HIDE DEF done, r
    <3>2. a \in Snap /\ Moves(done, a) /\ a.conn.state = done.conn.state
      BY <1>1 DEF Moves, Snap, ConnRec
    <3> HIDE DEF a
    <3>3. Moves(a, r)
      BY <1>1, <2>0, <3>1, <3>2, FinishLoginMoves
    <3>4. Moves(s, r)
      BY <1>1, <3>2, <3>3, MovesTrans
    <3> QED BY <1>3, <2>0, <3>4 DEF r
  <2>2. CASE reply # "good"
    <3> DEFINE a == ClearCommand(done)
               b == cleanupConnection(a)
               c == setDisconnected(b)
               d == disconnect(c, how)
    <3>1. r = login(d)
      BY <1>6, <2>2 DEF HandleReply, disconnected
    <3> HIDE DEF done
    <3>2. a \in Snap /\ a.net = done.net /\ a.conn = done.conn
      BY <1>1, ClearCommandShape
    <3> HIDE DEF a
    <3>3. b \in Snap /\ b.net = a.net /\ b.conn = a.conn
      BY <3>2, CleanupShape
    <3> HIDE DEF b
    <3>4. c \in Snap /\ c.net = b.net /\ c.conn = b.conn
      BY <3>3, SetDisconnectedShape
    <3> HIDE DEF c
    <3>5. Good(c, E)
      BY <1>1, <1>2, <3>2, <3>3, <3>4, MovesGood DEF Moves
    <3>6. Good(d, E) /\ d.conn.state = "DISCONNECTED"
      BY <3>5, DisconnectGood
    <3> HIDE DEF d
    <3> HIDE DEF r
    <3>7. r \in Snap
      BY <1>a, <3>1, <3>6, LoginSnap
    <3>8. r.net.last <= MaxConnectors => Good(r, E) /\ r.conn.processing = TRUE
      BY <3>1, <3>6, LoginGood
    <3> QED BY <3>7, <3>8 DEF r
  <2> QED BY <2>1, <2>2
<1>7. CASE s.conn.state = "XDUPE"
  <2>0. s.conn.state \in Active
    BY <1>7 DEF Active, ConnStates
  <2> DEFINE a == [done EXCEPT !.conn.xdupe = TRUE]
  <2>1. r = finishLogin(a, work)
    BY <1>7 DEF HandleReply
  <2> HIDE DEF done, r
  <2>2. a \in Snap /\ Moves(done, a) /\ a.conn.state = done.conn.state
    BY <1>1 DEF Moves, Snap, ConnRec
  <2> HIDE DEF a
  <2>3. Moves(a, r)
    BY <1>1, <2>0, <2>1, <2>2, FinishLoginMoves
  <2>4. Moves(s, r)
    BY <1>1, <2>2, <2>3, MovesTrans
  <2> QED BY <1>3, <2>0, <2>4 DEF r
<1>8. CASE s.conn.state = "COMMAND"
  <2>0. s.conn.state \in Active
    BY <1>8 DEF Active, ConnStates
  <2> DEFINE a == IF work = "nothing" THEN [done EXCEPT !.cst.locked = FALSE] ELSE done
             b == ClearCommand(a)
  <2>1. r = handleConnection(b, work)
    BY <1>8 DEF HandleReply
  <2> HIDE DEF done, r
  <2>2. a \in Snap /\ a.net = done.net /\ a.conn = done.conn
    BY <1>1 DEF Snap, CstRec
  <2> HIDE DEF a
  <2>3. b \in Snap /\ b.net = a.net /\ b.conn = a.conn
    BY <2>2, ClearCommandShape
  <2> HIDE DEF b
  <2>4. Moves(b, r)
    BY <1>1, <2>0, <2>1, <2>2, <2>3, HandleConnectionMoves
  <2>5. Moves(s, b)
    BY <1>1, <2>2, <2>3 DEF Moves
  <2> QED BY <1>3, <2>0, <2>4, <2>5, MovesTrans DEF r
<1>9. CASE s.conn.state = "QUIT"
  <2> DEFINE d == disconnect(done, how)
  <2>1. r = setDisconnected(d)
    BY <1>9 DEF HandleReply
  <2> HIDE DEF done, r
  <2>2. Good(d, E) /\ d.conn.state = "DISCONNECTED" /\ d \in Snap
    BY <1>2, DisconnectGood DEF Good, Base
  <2> HIDE DEF d
  <2>3. r \in Snap /\ r.net = d.net /\ r.conn = d.conn
    BY <2>1, <2>2, SetDisconnectedShape
  <2>4. Good(r, E)
    BY <2>2, <2>3, MovesGood DEF Moves
  <2> QED BY <1>a, <2>2, <2>3, <2>4 DEF r
<1>10. CASE s.conn.state \in {"DISCONNECTED", "CONNECTING", "IDLE"}
  <2>1. r = s
    BY <1>10 DEF HandleReply
  <2>2. ~(~s.net.stale /\ s.conn.state = "CONNECTING")
    BY DEF Good, Sane
  <2> QED BY <1>0, <2>1, <2>2
<1> QED BY <1>0, <1>4, <1>5, <1>6, <1>7, <1>8, <1>9, <1>10 DEF ConnStates, Logins

LEMMA IdleShape ==
  ASSUME NEW s \in Snap
  PROVE  LET t == [s EXCEPT !.conn.state = "IDLE"]
         IN  /\ t \in Snap /\ t.net = s.net /\ t.cst = s.cst /\ t.conn.state = "IDLE"
             /\ t.conn.sock = s.conn.sock /\ t.conn.list = s.conn.list /\ t.conn.poke = s.conn.poke
             /\ t.conn.processing = s.conn.processing
BY DEF Snap, ConnRec, ConnStates

LEMMA FDDataGood ==
  ASSUME NEW s, NEW E, Good(s, E), NEW k \in Ids, NEW reply \in Replies, NEW work \in Work,
         NEW how \in CloseKinds, site \in Sites,
         FDData(s, k, reply, work, how).net.last <= MaxConnectors
  PROVE  Good(FDData(s, k, reply, work, how), E)
<1>1. CASE s.conn.sock # k
  BY <1>1 DEF FDData
<1>2. CASE s.conn.sock = k
  <2> DEFINE t == HandleReply(s, reply, work, how)
             u == [t EXCEPT !.conn.state = "IDLE"]
             r == FDData(s, k, reply, work, how)
  <2>1. r = IF ~t.conn.processing /\ t.conn.state # "DISCONNECTED" THEN u ELSE t
    BY <1>2 DEF FDData
  <2>2. s.conn.sock # NoSock
    BY <1>2 DEF Ids, NoSock
  <2>3. /\ t \in Snap
        /\ t.net.last <= MaxConnectors =>
             Good(t, E) /\ (~t.net.stale /\ t.conn.state = "CONNECTING" => t.conn.processing)
    BY <2>2, HandleReplyGood
  <2>4. r.net.last <= MaxConnectors
    OBVIOUS
  <2> HIDE DEF r, t
  <2>5. /\ u \in Snap /\ u.net = t.net /\ u.cst = t.cst /\ u.conn.state = "IDLE"
        /\ u.conn.sock = t.conn.sock /\ u.conn.list = t.conn.list /\ u.conn.poke = t.conn.poke
    BY <2>3, IdleShape
  <2> HIDE DEF u
  <2>6. t.net.last <= MaxConnectors
    BY <2>1, <2>4, <2>5
  <2>7. Good(t, E) /\ (~t.net.stale /\ t.conn.state = "CONNECTING" => t.conn.processing)
    BY <2>3, <2>6
  <2>8. CASE ~t.conn.processing /\ t.conn.state # "DISCONNECTED"
    <3>1. CASE t.net.stale
      BY <2>1, <2>5, <2>7, <2>8, <3>1 DEF Good, Base, r
    <3>2. CASE ~t.net.stale
      <4>1. t.conn.state \in Active /\ "IDLE" \in Active
        BY <2>3, <2>7, <2>8, <3>2 DEF Active, ConnStates, Snap, ConnRec
      <4>2. Moves(t, u)
        BY <2>5, <4>1 DEF Moves
      <4> QED BY <2>1, <2>7, <2>8, <4>2, MovesGood DEF r
    <3> QED BY <3>1, <3>2
  <2>9. CASE ~(~t.conn.processing /\ t.conn.state # "DISCONNECTED")
    BY <2>1, <2>7, <2>9 DEF r
  <2> QED BY <2>8, <2>9
<1> QED BY <1>1, <1>2

LEMMA FDDisconnectedGood ==
  ASSUME NEW s, NEW E, Good(s, E), NEW k \in Ids, s.net.sock[k] = "closed"
  PROVE  LET t == FDDisconnected(s, k)
         IN  Good(t, E) /\ (t.conn.sock = k /\ ~t.net.stale => t.conn.state \notin Active)
                        /\ (~t.net.stale /\ t.conn.state = "CONNECTING" => t = s)
<1>1. CASE s.conn.sock # k \/ s.conn.state = "DISCONNECTED"
  <2>1. FDDisconnected(s, k) = s
    BY <1>1 DEF FDDisconnected
  <2> QED BY <1>1, <2>1 DEF Active
<1>2. CASE s.conn.sock = k /\ s.conn.state # "DISCONNECTED"
  <2> DEFINE a == [s EXCEPT !.conn.state = "DISCONNECTED"]
             b == cleanupConnection(a)
             t == setDisconnected(b)
  <2>1. FDDisconnected(s, k) = t
    BY <1>2 DEF FDDisconnected, disconnected
  <2>2. s \in Snap /\ Base(s, E)
    BY DEF Good, Base
  <2>3. a \in Snap /\ a.net = s.net /\ a.conn.state = "DISCONNECTED" /\ a.conn.sock = s.conn.sock
        /\ a.conn.list = s.conn.list /\ a.conn.poke = s.conn.poke
    BY <2>2 DEF Snap, ConnRec, ConnStates
  <2> HIDE DEF a
  <2>4. ASSUME ~a.net.stale PROVE Settled(a.conn, a.net, E)
    <3>1. Sane(s.conn, s.net, E)
      BY <2>3, <2>4 DEF Good
    <3>2. Settled(s.conn, s.net, E)
      BY <1>2, <3>1 DEF Sane, Ids, NoSock
    <3> QED BY <1>2, <2>3, <3>2 DEF Settled, Open, Active
  <2>5. Good(a, E)
    BY <2>2, <2>3, <2>4 DEF Good, Base, Sane
  <2>6. b \in Snap /\ b.net = a.net /\ b.conn = a.conn
    BY <2>3, CleanupShape
  <2> HIDE DEF b
  <2>7. t \in Snap /\ t.net = b.net /\ t.conn = b.conn
    BY <2>6, SetDisconnectedShape
  <2> HIDE DEF t
  <2>8. Good(t, E)
    BY <2>5, <2>6, <2>7, MovesGood DEF Moves
  <2> QED BY <2>1, <2>3, <2>6, <2>7, <2>8 DEF Active
<1> QED BY <1>1, <1>2

LEMMA FDSSLGood ==
  ASSUME NEW s, NEW E, Good(s, E), NEW k \in Ids
  PROVE  Good(FDSSLSuccess(s, k), E)
<1> DEFINE t == IF s.conn.sock # k \/ s.conn.state = "DISCONNECTED" THEN [s EXCEPT !.net.stale = TRUE] ELSE s
           r == FDSSLSuccess(s, k)
<1>1. s \in Snap /\ Base(s, E)
  BY DEF Good, Base
<1>2. /\ t \in Snap /\ t.conn = s.conn /\ t.net.sock = s.net.sock /\ t.net.owner = s.net.owner
      /\ t.net.last = s.net.last /\ t.net.ctr = s.net.ctr
      /\ (t = s /\ s.conn.sock = k /\ s.conn.state # "DISCONNECTED") \/ t.net.stale
  <2>1. CASE s.conn.sock # k \/ s.conn.state = "DISCONNECTED"
    <3>1. t = [s EXCEPT !.net.stale = TRUE]
      BY <2>1
    <3> DEFINE x == [s EXCEPT !.net.stale = TRUE]
    <3>2. /\ x \in Snap /\ x.conn = s.conn /\ x.net.sock = s.net.sock /\ x.net.owner = s.net.owner
          /\ x.net.last = s.net.last /\ x.net.ctr = s.net.ctr /\ x.net.stale
      BY <1>1 DEF Snap, NetRec
    <3> HIDE DEF x
    <3> QED BY <3>1, <3>2 DEF x
  <2>2. CASE ~(s.conn.sock # k \/ s.conn.state = "DISCONNECTED")
    BY <1>1, <2>2
  <2> QED BY <2>1, <2>2
<1>3. r = IF s.conn.state = "AUTH_TLS" THEN Send(t, "USER") ELSE [t EXCEPT !.conn.state = "IDLE"]
  BY DEF FDSSLSuccess, doUSER
<1> HIDE DEF t, r
<1>4. r \in Snap /\ r.net = t.net /\ r.conn.list = t.conn.list /\ r.conn.state \in {"USER", "IDLE"}
      /\ r.conn.sock = t.conn.sock /\ r.conn.poke = t.conn.poke
  <2>1. "USER" \in ConnStates
    BY DEF ConnStates
  <2> QED BY <1>2, <1>3, <2>1, SendShape, IdleShape
<1>5. Base(r, E)
  BY <1>1, <1>2, <1>4 DEF Base, NetBase
<1>6. ASSUME ~r.net.stale PROVE Good(r, E)
  <2>1. t = s /\ s.conn.sock = k /\ s.conn.state # "DISCONNECTED" /\ ~s.net.stale
    BY <1>2, <1>4, <1>6
  <2>2. s.conn.state # "CONNECTING"
    BY <2>1 DEF Good, Sane, Ids, NoSock
  <2>3. s.conn.state \in Active /\ r.conn.state \in Active
    BY <1>1, <1>4, <2>1, <2>2 DEF Active, ConnStates, Snap, ConnRec
  <2>4. Moves(s, r)
    BY <1>4, <2>1, <2>3 DEF Moves
  <2> QED BY <2>4, MovesGood
<1> QED BY <1>5, <1>6 DEF Good, r

\* An event does what it is for, and is not missed afterwards.
LEMMA HandleGood ==
  ASSUME NEW s, NEW F, NEW e \in F, NEW E, E \subseteq F, F \subseteq E \cup {e}, Good(s, F),
         NEW work \in Work, NEW how \in CloseKinds, site \in Sites,
         Handle(s, e, work, how).net.last <= MaxConnectors
  PROVE  Good(Handle(s, e, work, how), E)
<1> DEFINE k == e.sock
           r == Handle(s, e, work, how)
<1>1. /\ e \in Event /\ k \in Ids /\ k <= s.net.last /\ k \in 1..s.net.last
      /\ s.net.sock[k] # "connecting"
      /\ s.net.sock[k] \in SocketState /\ s.net.ctr[k] \in Connector
      /\ e.kind \in {"disconnected", "fail"} => s.net.sock[k] = "closed"
      /\ s.net.ctr[k].stage # "direct" => s.net.ctr[k].engaged /\ site.proxy # "none"
  BY EventSock
<1>2. /\ e.kind \in {"connected", "data", "fail", "disconnected", "ssl"}
      /\ e.to \in {"connector", "conn"} /\ e.reply \in Replies
  BY <1>1 DEF Event
<1>3. e.to = "conn" => e.kind # "connected" /\ s.net.owner[k] = "conn"
  BY DEF Good, Base, NetBase
<1>4. r.net.last <= MaxConnectors
  OBVIOUS
<1>5. ASSUME Good(r, F), Spent(r, e) PROVE Good(r, E)
  BY <1>5, SpentGood
<1>6. ASSUME e.kind \in {"data", "ssl"} PROVE Spent(r, e)
  BY <1>6 DEF Spent, News
<1>7. CASE e.to = "conn"
  <2>1. CASE e.kind = "data"
    <3>1. r = FDData(s, k, e.reply, work, how)
      BY <1>7, <2>1 DEF Handle
    <3>2. Good(r, F)
      BY <1>1, <1>2, <1>4, <3>1, FDDataGood
    <3> QED BY <1>5, <1>6, <2>1, <3>2
  <2>2. CASE e.kind = "ssl"
    <3>1. r = FDSSLSuccess(s, k)
      BY <1>7, <2>2 DEF Handle
    <3>2. Good(r, F)
      BY <1>1, <3>1, FDSSLGood
    <3> QED BY <1>5, <1>6, <2>2, <3>2
  <2>3. CASE e.kind \in {"disconnected", "fail"}
    <3>1. r = FDDisconnected(s, k)
      BY <1>7, <2>3 DEF Handle
    <3>2. /\ Good(r, F) /\ (r.conn.sock = k /\ ~r.net.stale => r.conn.state \notin Active)
          /\ (~r.net.stale /\ r.conn.state = "CONNECTING" => r = s)
      BY <1>1, <2>3, <3>1, FDDisconnectedGood
    <3>3. Spent(r, e)
      <4>1. ASSUME ~r.net.stale, r.conn.state = "CONNECTING", k \in r.conn.list PROVE FALSE
        <5>1. r = s /\ s.net.ctr[k].engaged
          BY <3>2, <4>1, <1>1 DEF Good, Sane, Attempt
        <5> QED BY <1>1, <1>3, <1>7, <5>1 DEF Good, Base, NetBase
      <4>2. ASSUME ~r.net.stale, r.conn.state \in Active PROVE ~News(r.conn, e)
        BY <3>2, <4>2 DEF News
      <4> HIDE DEF r
      <4> QED BY <4>1, <4>2 DEF Spent
    <3> QED BY <1>5, <3>2, <3>3
  <2> QED BY <1>2, <1>3, <1>7, <2>1, <2>2, <2>3
<1>8. CASE e.to # "conn"
  <2>0. ~News(r.conn, e)
    BY <1>8 DEF News
  <2>1. CASE e.kind = "connected" /\ s.net.ctr[k].stage = "direct"
    <3>1. r = FDInterConnected(s, k)
      BY <1>8, <2>1 DEF Handle
    <3>2. Good(r, F) /\ (r.net.ctr[k].engaged => r.net.ctr[k].connected)
      BY <1>1, <3>1, InterConnectedGood
    <3>3. ASSUME ~r.net.stale, r.conn.state = "CONNECTING", k \in r.conn.list PROVE r.net.ctr[k].connected
      BY <1>1, <3>2, <3>3 DEF Good, Sane, Attempt
    <3>4. Spent(r, e)
      <4> HIDE DEF r
      <4> QED BY <2>0, <2>1, <3>3 DEF Spent
    <3> QED BY <1>5, <3>2, <3>4
  <2>2. CASE e.kind = "connected" /\ s.net.ctr[k].stage # "direct"
    <3>1. r = s
      BY <1>8, <2>2 DEF Handle
    <3>2. Spent(r, e)
      BY <1>1, <2>0, <2>2, <3>1 DEF Spent
    <3> QED BY <1>5, <3>1, <3>2
  <2>3. CASE e.kind = "data" /\ s.net.ctr[k].stage = "direct"
    <3>1. r = FDInterData(s, k, e.reply, how)
      BY <1>8, <2>3 DEF Handle
    <3>2. Good(r, F)
      BY <1>1, <1>4, <3>1, InterDataGood
    <3> QED BY <1>5, <1>6, <2>3, <3>2
  <2>4. CASE e.kind = "data" /\ s.net.ctr[k].stage # "direct"
    <3>1. r = ProxyData(s, k, e.reply, how)
      BY <1>8, <2>4 DEF Handle
    <3>2. s.net.ctr[k].stage # "none"
      BY <1>1 DEF Good, Base, NetBase
    <3>3. Good(r, F)
      BY <1>1, <1>4, <2>4, <3>1, <3>2, ProxyDataGood
    <3> QED BY <1>5, <1>6, <2>4, <3>3
  <2>5. CASE e.kind \in {"disconnected", "fail"}
    <3>1. r = ConnectorFail(s, k, how)
      BY <1>8, <2>5 DEF Handle
    <3>2. s.net.sock[k] \notin Open
      BY <1>1, <2>5 DEF Open
    <3>3. Good(r, F) /\ (~r.net.stale => r.conn.state # "CONNECTING" \/ k \notin r.conn.list)
      BY <1>1, <1>4, <3>1, <3>2, ConnectorFailGood
    <3>4. Spent(r, e)
      <4> HIDE DEF r
      <4> QED BY <2>0, <3>3 DEF Spent
    <3> QED BY <1>5, <3>3, <3>4
  <2>6. CASE e.kind = "ssl"
    <3>1. r = s
      BY <1>8, <2>6 DEF Handle
    <3> QED BY <1>5, <1>6, <2>6, <3>1
  <2> QED BY <1>2, <2>1, <2>2, <2>3, <2>4, <2>5, <2>6
<1> QED BY <1>7, <1>8

-----------------------------------------------------------------------------
\* The tick

\* Connectors that have waited a tick longer.
LEMMA WaitedGood ==
  ASSUME NEW s, NEW E, Good(s, E), NEW W \in [Ids -> 0..WelcomeTicks]
  PROVE  LET t == [s EXCEPT !.net.ctr = [k \in Ids |-> [s.net.ctr[k] EXCEPT !.waited = W[k]]]]
         IN  /\ Good(t, E) /\ t.conn = s.conn /\ t.net.last = s.net.last
             /\ \A k \in Ids : t.net.ctr[k].engaged <=> s.net.ctr[k].engaged
<1> DEFINE C == [k \in Ids |-> [s.net.ctr[k] EXCEPT !.waited = W[k]]]
           t == [s EXCEPT !.net.ctr = C]
<1>1. s \in Snap /\ s.conn.list \subseteq 1..s.net.last /\ NetBase(s.net, E)
      /\ \A k \in Ids : s.net.ctr[k] \in Connector
  BY DEF Good, Base, Snap, NetRec
<1>2. /\ C \in [Ids -> Connector]
      /\ \A k \in Ids : /\ C[k].engaged <=> s.net.ctr[k].engaged
                        /\ C[k].connected <=> s.net.ctr[k].connected
                        /\ C[k].stage = s.net.ctr[k].stage
  <2> SUFFICES ASSUME NEW k \in Ids
               PROVE  /\ C[k] \in Connector
                      /\ C[k].engaged <=> s.net.ctr[k].engaged
                      /\ C[k].connected <=> s.net.ctr[k].connected
                      /\ C[k].stage = s.net.ctr[k].stage
    OBVIOUS
  <2>1. s.net.ctr[k] \in Connector /\ W[k] \in 0..WelcomeTicks
    BY <1>1
  <2> QED BY <2>1 DEF Connector
<1> HIDE DEF C
<1>3. /\ t \in Snap /\ t.conn = s.conn /\ SameRest(s, t)
      /\ t.net.sock = s.net.sock /\ t.net.last = s.net.last /\ t.net.ctr = C
  BY <1>1, <1>2 DEF Snap, NetRec, SameRest
<1> HIDE DEF t
<1>4. NetBase(t.net, E)
  BY <1>1, <1>2, <1>3 DEF NetBase, SameRest
<1>5. ASSUME ~t.net.stale PROVE Sane(t.conn, t.net, E)
  <2>1. Sane(s.conn, s.net, E)
    BY <1>3, <1>5 DEF Good, SameRest
  <2>2. CASE s.conn.state = "CONNECTING"
    <3>0. s.conn.list \subseteq Ids
      <4>1. s.net.last <= MaxConnectors /\ MaxConnectors \in Nat /\ s.net.last \in Nat
        BY <1>1, ConnectAssumption DEF NetBase, Snap, NetRec
      <4> QED BY <1>1, <4>1 DEF Ids
    <3>1. Attempt(s.net, s.conn.list, E)
      BY <2>1, <2>2 DEF Sane
    <3>2. Attempt(t.net, t.conn.list, E)
      BY <3>0, <3>1, <1>2, <1>3 DEF Attempt, Ending
    <3> QED BY <2>1, <2>2, <3>2, <1>3 DEF Sane
  <2>3. CASE s.conn.state # "CONNECTING"
    <3>1. Settled(s.conn, s.net, E)
      BY <2>1, <2>3 DEF Sane
    <3>2. Settled(t.conn, t.net, E)
      BY <3>1, <1>2, <1>3 DEF Settled, SameRest
    <3> QED BY <2>3, <3>2, <1>3 DEF Sane
  <2> QED BY <2>2, <2>3
<1> QED BY <1>1, <1>2, <1>3, <1>4, <1>5 DEF Good, Base, t, C

LEMMA DisengagePre ==
  ASSUME NEW s, NEW E, Good(s, E), NEW K, K \subseteq s.conn.list, \A k \in K : s.net.ctr[k].engaged
  PROVE  FailPre(disengage(s, K), K, E)
<1> DEFINE t == disengage(s, K)
<1>1. s \in Snap /\ s.conn.list \subseteq 1..s.net.last /\ NetBase(s.net, E)
      /\ \A k \in Ids : s.net.ctr[k] \in Connector
  BY DEF Good, Base, Snap, NetRec
<1>2. /\ t \in Snap /\ t.conn = s.conn /\ SameRest(s, t) /\ t.net.last = s.net.last
      /\ \A j \in Ids :
            IF j \in K /\ s.net.ctr[j].engaged
            THEN /\ t.net.ctr[j] = Retired(s.net.ctr[j])
                 /\ t.net.sock[j] = IF s.net.sock[j] \in Open THEN "closed" ELSE s.net.sock[j]
            ELSE t.net.ctr[j] = s.net.ctr[j] /\ t.net.sock[j] = s.net.sock[j]
  BY <1>1, DisengageShape
<1>3. Base(t, E)
  BY DisengageBase DEF Good
<1> HIDE DEF t
<1>4. \A j \in Ids : ~Retired(s.net.ctr[j]).engaged
  BY <1>1, RetiredShape
<1>5. s.conn.list \subseteq Ids
  <2>1. s.net.last <= MaxConnectors /\ MaxConnectors \in Nat /\ s.net.last \in Nat
    BY <1>1, ConnectAssumption DEF NetBase, Snap, NetRec
  <2> QED BY <1>1, <2>1 DEF Ids
<1>6. ASSUME ~t.net.stale, s.conn.state = "CONNECTING"
      PROVE  Attempt(t.net, t.conn.list \ K, E)
  <2>1. Attempt(s.net, s.conn.list, E)
    BY <1>2, <1>6 DEF Good, Sane, SameRest
  <2>2. \A j \in Ids : t.net.ctr[j].engaged <=> j \in t.conn.list \ K
    BY <2>1, <1>2, <1>4 DEF Attempt
  <2>3. \A j \in Ids : t.net.sock[j] \in Open => t.net.ctr[j].engaged
    BY <2>1, <1>2 DEF Attempt, Open
  <2>4. ASSUME site.proxy = "none", NEW j \in t.conn.list \ K PROVE Ending(t.net, j, E)
    <3>1. Ending(s.net, j, E) /\ j \in Ids
      BY <2>1, <2>4, <1>2, <1>5 DEF Attempt
    <3> QED BY <2>4, <3>1, <1>2 DEF Ending
  <2> QED BY <2>2, <2>3, <2>4 DEF Attempt
<1>7. ASSUME ~t.net.stale, s.conn.state # "CONNECTING" PROVE Settled(t.conn, t.net, E)
  <2>1. Settled(s.conn, s.net, E)
    BY <1>2, <1>7 DEF Good, Sane, SameRest
  <2>2. \A j \in Ids : t.net.ctr[j] = s.net.ctr[j] /\ t.net.sock[j] = s.net.sock[j]
    BY <2>1, <1>2 DEF Settled
  <2> QED BY <2>1, <2>2, <1>2 DEF Settled, SameRest
<1>8. ASSUME ~t.net.stale, s.conn.state = "CONNECTING"
      PROVE  t.conn.poke = 1 /\ t.conn.sock = NoSock /\ t.conn.list # {}
  BY <1>2, <1>8 DEF Good, Sane, SameRest
<1> QED BY <1>2, <1>3, <1>6, <1>7, <1>8 DEF FailPre, t

LEMMA TickInternGood ==
  ASSUME NEW s, NEW E, Good(s, E), site \in Sites
  PROVE  LET t == tickIntern(s)
         IN  t \in Snap /\ (t.net.last <= MaxConnectors => Good(t, E))
<1> DEFINE late(k) == k \in s.conn.list /\ s.net.ctr[k].waited + 1 >= WelcomeTicks
           W == [k \in Ids |-> IF k \notin s.conn.list THEN s.net.ctr[k].waited
                               ELSE IF late(k) THEN WelcomeTicks ELSE s.net.ctr[k].waited + 1]
           C == [k \in Ids |-> [s.net.ctr[k] EXCEPT !.waited = W[k]]]
           u == [s EXCEPT !.net.ctr = C]
           K == {k \in s.conn.list : late(k) /\ s.net.ctr[k].engaged /\ s.net.ctr[k].connected}
           v == disengage(u, K)
           t == ftpConnectFail(v, K, "closed")
<1>1. s \in Snap /\ s.conn.list \subseteq 1..s.net.last /\ NetBase(s.net, E)
      /\ \A k \in Ids : s.net.ctr[k] \in Connector
  BY DEF Good, Base, Snap, NetRec
<1>2. tickIntern(s) = t
  <2>1. [k \in Ids |-> [s.net.ctr[k] EXCEPT !.waited = IF k \notin s.conn.list THEN @
                                              ELSE IF late(k) THEN WelcomeTicks ELSE @ + 1]] = C
    OBVIOUS
  <2> QED BY <2>1 DEF tickIntern
<1>3. W \in [Ids -> 0..WelcomeTicks]
  <2> SUFFICES ASSUME NEW k \in Ids PROVE W[k] \in 0..WelcomeTicks
    OBVIOUS
  <2>1. s.net.ctr[k].waited \in 0..WelcomeTicks /\ WelcomeTicks \in Nat
    BY <1>1, ConnectAssumption DEF Connector
  <2> QED BY <2>1
<1> HIDE DEF W
<1>4. /\ Good(u, E) /\ u.conn = s.conn /\ u.net.last = s.net.last
      /\ \A k \in Ids : u.net.ctr[k].engaged <=> s.net.ctr[k].engaged
  BY <1>3, WaitedGood
<1> HIDE DEF u
<1>5. K \subseteq u.conn.list /\ \A k \in K : u.net.ctr[k].engaged
  <2>1. s.conn.list \subseteq Ids
    <3>1. s.net.last <= MaxConnectors /\ MaxConnectors \in Nat /\ s.net.last \in Nat
      BY <1>1, ConnectAssumption DEF NetBase, Snap, NetRec
    <3> QED BY <1>1, <3>1 DEF Ids
  <2> QED BY <1>4, <2>1
<1>6. K \subseteq 1..s.net.last
  BY <1>1
<1> HIDE DEF K
<1>7. FailPre(v, K, E)
  BY <1>4, <1>5, DisengagePre
<1>8. v.net.last = s.net.last
  <2>1. u \in Snap
    BY <1>4 DEF Good, Base
  <2> QED BY <1>4, <2>1, DisengageShape
<1> HIDE DEF v
<1>9. t \in Snap /\ (t.net.last <= MaxConnectors => Good(t, E))
  BY <1>6, <1>7, <1>8, FailGood DEF CloseKinds
<1> QED BY <1>2, <1>9

LEMMA TickGood ==
  ASSUME NEW s, NEW E, Good(s, E), site \in Sites, NEW t, NEW r,
         t = IF tickIntern(s).conn.state = "CONNECTING" /\ ~tickIntern(s).conn.all
             THEN connectAllAddresses(tickIntern(s)) ELSE tickIntern(s),
         r = IF t.conn.list = {} THEN stopPoke(t) ELSE t,
         r.net.last <= MaxConnectors
  PROVE  Good(r, E)
<1> DEFINE a == tickIntern(s)
<1>1. a \in Snap /\ (a.net.last <= MaxConnectors => Good(a, E)) /\ a.net.last \in Nat
  BY TickInternGood DEF Snap, NetRec
<1> HIDE DEF a
<1>2. t \in Snap /\ t.net.last >= a.net.last
  <2>1. CASE a.conn.state = "CONNECTING" /\ ~a.conn.all
    <3> DEFINE x == [a EXCEPT !.conn.all = TRUE]
               n == site.addresses - 1
               y == NewConnectors(x, n, FALSE)
    <3>0. n \in Nat
      BY ConnectAssumption
    <3>1. x \in Snap /\ x.net = a.net
      BY <1>1 DEF Snap, ConnRec
    <3>2. t = y
      BY <2>1 DEF connectAllAddresses, a
    <3> HIDE DEF x, n
    <3>3. y \in Snap /\ y.net.last = x.net.last + n
      BY <3>0, <3>1, NewShape
    <3> HIDE DEF y
    <3> QED BY <1>1, <3>0, <3>1, <3>2, <3>3
  <2>2. CASE ~(a.conn.state = "CONNECTING" /\ ~a.conn.all)
    BY <1>1, <2>2 DEF a
  <2> QED BY <2>1, <2>2
<1>3. /\ r \in Snap /\ r.net = t.net /\ r.cst = t.cst
      /\ r.conn.list = t.conn.list /\ r.conn.state = t.conn.state
      /\ r.conn.sock = t.conn.sock
      /\ r.conn.poke = t.conn.poke \/ (t.conn.list = {} /\ r.conn.poke = IF t.conn.poke = 0 THEN 0 ELSE t.conn.poke - 1)
  BY <1>2, PokeShape
<1>4. MaxConnectors \in Nat /\ t.net.last \in Nat
  BY <1>2, ConnectAssumption DEF Snap, NetRec
<1>5. t.net.last <= MaxConnectors /\ a.net.last <= MaxConnectors
  BY <1>1, <1>2, <1>3, <1>4
<1>6. Good(t, E)
  <2>1. CASE a.conn.state = "CONNECTING" /\ ~a.conn.all
    <3> DEFINE d == connectAllAddresses(a)
    <3>1. t = d
      BY <2>1 DEF a
    <3>2. Base(a, E) /\ d.net.last <= MaxConnectors
      BY <1>1, <1>5, <3>1 DEF Good
    <3>3. /\ Base(d, E) /\ SameRest(a, d)
          /\ d.conn.poke = a.conn.poke /\ d.conn.state = a.conn.state
          /\ d.conn.sock = a.conn.sock
          /\ d.conn.list \cap (1..a.net.last) = a.conn.list
          /\ Attempt(a.net, a.conn.list, E) => Attempt(d.net, d.conn.list, E)
      BY <3>2, ConnectAllGood
    <3> HIDE DEF d
    <3>4. ASSUME ~d.net.stale PROVE Sane(d.conn, d.net, E)
      <4>1. Sane(a.conn, a.net, E)
        BY <1>1, <1>5, <3>3, <3>4 DEF Good, SameRest
      <4> QED BY <2>1, <3>3, <4>1 DEF Sane
    <3> QED BY <3>1, <3>3, <3>4 DEF Good
  <2>2. CASE ~(a.conn.state = "CONNECTING" /\ ~a.conn.all)
    BY <1>1, <1>5, <2>2 DEF a
  <2> QED BY <2>1, <2>2
<1>7. ASSUME ~t.net.stale PROVE r.conn.poke = t.conn.poke
  BY <1>3, <1>6, <1>7 DEF Good, Sane, Settled
<1>8. CASE t.net.stale
  BY <1>3, <1>6, <1>8 DEF Good, Base
<1>9. CASE ~t.net.stale
  <2>1. Moves(t, r)
    BY <1>3, <1>7, <1>9 DEF Moves
  <2> QED BY <1>6, <2>1, MovesGood
<1> QED BY <1>8, <1>9

-----------------------------------------------------------------------------
\* Locks, logins and delayed commands

LEMMA CtlSame ==
  ASSUME NEW s, NEW t, Controlled(s.conn, s.cst), t.cst = s.cst,
         t.conn.state = s.conn.state, t.conn.processing = s.conn.processing
  PROVE  Controlled(t.conn, t.cst)
BY DEF Controlled, Held

LEMMA CtlHandling ==
  ASSUME NEW c, NEW t, Controlled(c, t) PROVE Handling(c, t)
BY DEF Controlled, Handling

LEMMA HandleConnectionShape ==
  ASSUME NEW s \in Snap, NEW work \in Work
  PROVE  LET t == handleConnection(s, work)
         IN  \/ t = s
             \/ /\ t \in Snap /\ ~s.conn.processing /\ ~s.cst.locked
                /\ t.cst.command = "none" /\ t.cst.loggedin = s.cst.loggedin
                /\ \/ t.conn.state = "COMMAND" /\ t.conn.processing = TRUE
                   \/ t.conn = s.conn
<1>1. CASE s.conn.processing \/ s.cst.locked \/ work = "nothing"
  BY <1>1 DEF handleConnection
<1>2. CASE ~(s.conn.processing \/ s.cst.locked \/ work = "nothing")
  <2> DEFINE a == ClearCommand(s)
             b == Send(a, "COMMAND")
             r == handleConnection(s, work)
  <2>1. a \in Snap /\ a.conn = s.conn /\ a.cst.command = "none" /\ a.cst.loggedin = s.cst.loggedin
    BY ClearCommandShape
  <2> HIDE DEF a
  <2>2. "COMMAND" \in ConnStates
    BY DEF ConnStates
  <2>3. b \in Snap /\ b.cst = a.cst /\ b.conn.state = "COMMAND" /\ b.conn.processing = TRUE
    BY <2>1, <2>2, SendShape
  <2> HIDE DEF b
  <2>4. ASSUME NEW c \in Snap
        PROVE  LET d == [c EXCEPT !.cst.locked = TRUE]
               IN  /\ d \in Snap /\ d.conn = c.conn /\ d.cst.command = c.cst.command
                   /\ d.cst.loggedin = c.cst.loggedin
    BY DEF Snap, CstRec
  <2>5. r = CASE work = "command" -> b
              [] work = "transfer" -> [b EXCEPT !.cst.locked = TRUE]
              [] work = "waitingtransfer" -> [a EXCEPT !.cst.locked = TRUE]
    BY <1>2 DEF handleConnection, a, b
  <2> HIDE DEF r
  <2>6. CASE work = "command"
    <3>1. r = b
      BY <2>5, <2>6
    <3> QED BY <1>2, <2>1, <2>3, <3>1 DEF r
  <2>7. CASE work = "transfer"
    <3> DEFINE d == [b EXCEPT !.cst.locked = TRUE]
    <3>1. r = d
      BY <2>5, <2>7
    <3>2. /\ d \in Snap /\ d.conn = b.conn /\ d.cst.command = b.cst.command
          /\ d.cst.loggedin = b.cst.loggedin
      BY <2>3, <2>4
    <3> HIDE DEF d
    <3> QED BY <1>2, <2>1, <2>3, <3>1, <3>2 DEF r
  <2>8. CASE work = "waitingtransfer"
    <3> DEFINE d == [a EXCEPT !.cst.locked = TRUE]
    <3>1. r = d
      BY <2>5, <2>8
    <3>2. /\ d \in Snap /\ d.conn = a.conn /\ d.cst.command = a.cst.command
          /\ d.cst.loggedin = a.cst.loggedin
      BY <2>1, <2>4
    <3> HIDE DEF d
    <3> QED BY <1>2, <2>1, <3>1, <3>2 DEF r
  <2> QED BY <1>2, <2>6, <2>7, <2>8 DEF Work
<1> QED BY <1>1, <1>2

LEMMA HandleConnectionCtl ==
  ASSUME NEW s \in Snap, NEW work \in Work, s.conn.state # "DISCONNECTED"
  PROVE  LET t == handleConnection(s, work)
         IN  /\ Controlled(s.conn, s.cst) => Controlled(t.conn, t.cst)
             /\ Handling(s.conn, s.cst) => Handling(t.conn, t.cst)
<1> DEFINE t == handleConnection(s, work)
<1>1. CASE t = s
  BY <1>1
<1>2. CASE /\ t \in Snap /\ ~s.conn.processing /\ ~s.cst.locked
           /\ t.cst.command = "none" /\ t.cst.loggedin = s.cst.loggedin
           /\ \/ t.conn.state = "COMMAND" /\ t.conn.processing = TRUE
              \/ t.conn = s.conn
  <2> HIDE DEF t
  <2>1. Controlled(s.conn, s.cst) => Controlled(t.conn, t.cst)
    BY <1>2 DEF Controlled, Held, Waits
  <2>2. Handling(s.conn, s.cst) => Handling(t.conn, t.cst)
    BY <1>2 DEF Handling, Held, Waits, Ready
  <2> QED BY <2>1, <2>2 DEF t
<1> QED BY <1>1, <1>2, HandleConnectionShape

LEMMA DisconnectedCtl ==
  ASSUME NEW s \in Snap, s.conn.state = "DISCONNECTED", Handling(s.conn, s.cst),
         NEW hard \in BOOLEAN, NEW how
  PROVE  LET t == disconnectConn(s, hard, how) IN Controlled(t.conn, t.cst)
<1> DEFINE c == ClearCommand(s)
           a == cleanupConnection(c)
<1>1. disconnectConn(s, hard, how) = a
  BY DEF disconnectConn
<1>2. c \in Snap /\ c.conn = s.conn /\ c.cst.command = "none" /\ c.cst.loggedin = s.cst.loggedin
  BY ClearCommandShape
<1> HIDE DEF c
<1>3. a \in Snap /\ a.conn = c.conn /\ a.cst.command = "none" /\ a.cst.locked = FALSE
      /\ a.cst.loggedin = c.cst.loggedin
  BY <1>2, CleanupShape
<1> HIDE DEF a
<1>4. Controlled(a.conn, a.cst)
  BY <1>2, <1>3 DEF Controlled, Held, Waits, Handling, Ready
<1> QED BY <1>1, <1>4

LEMMA DisconnectConnCtl ==
  ASSUME NEW s, NEW E, Good(s, E), Handling(s.conn, s.cst), NEW hard \in BOOLEAN, NEW how \in CloseKinds
  PROVE  LET t == disconnectConn(s, hard, how) IN Controlled(t.conn, t.cst)
<1> DEFINE c == ClearCommand(s)
           a == cleanupConnection(c)
<1>1. s \in Snap
  BY DEF Good, Base
<1>2. c \in Snap /\ c.net = s.net /\ c.conn = s.conn /\ c.cst.command = "none" /\ c.cst.loggedin = s.cst.loggedin
  BY <1>1, ClearCommandShape
<1> HIDE DEF c
<1>3. a \in Snap /\ a.net = c.net /\ a.conn = c.conn /\ a.cst.command = "none" /\ a.cst.locked = FALSE
      /\ a.cst.loggedin = c.cst.loggedin
  BY <1>2, CleanupShape
<1> HIDE DEF a
<1>4. Good(a, E)
  BY <1>2, <1>3, MovesGood DEF Moves
<1>5. CASE s.conn.state = "DISCONNECTED"
  BY <1>1, <1>5, DisconnectedCtl
<1>6. CASE s.conn.state # "DISCONNECTED" /\ ~hard /\ s.cst.loggedin /\ ~s.conn.processing
  <2> DEFINE q == Send(a, "QUIT")
             t == [q EXCEPT !.cst.quitting = TRUE]
  <2>1. disconnectConn(s, hard, how) = t
    BY <1>6 DEF disconnectConn, a, c
  <2>2. "QUIT" \in ConnStates
    BY DEF ConnStates
  <2>3. q \in Snap /\ q.cst = a.cst /\ q.conn.state = "QUIT" /\ q.conn.processing = TRUE
    BY <1>3, <2>2, SendShape
  <2> HIDE DEF q
  <2>4. t.conn = q.conn /\ t.cst.command = q.cst.command /\ t.cst.locked = q.cst.locked
    BY <2>3 DEF Snap, CstRec
  <2> HIDE DEF t
  <2>5. Controlled(t.conn, t.cst)
    BY <1>3, <2>3, <2>4 DEF Controlled, Held, Waits
  <2> QED BY <2>1, <2>5
<1>7. CASE s.conn.state # "DISCONNECTED" /\ ~(~hard /\ s.cst.loggedin /\ ~s.conn.processing)
  <2> DEFINE d == disconnect(a, how)
             t == setDisconnected(d)
  <2>1. disconnectConn(s, hard, how) = t
    BY <1>7 DEF disconnectConn, a, c
  <2>2. Good(d, E) /\ d.conn.state = "DISCONNECTED" /\ d.cst = a.cst
    BY <1>4, DisconnectGood
  <2>3. d \in Snap
    BY <2>2 DEF Good, Base
  <2> HIDE DEF d
  <2>4. t \in Snap /\ t.conn = d.conn /\ t.cst.locked = d.cst.locked /\ t.cst.loggedin = FALSE
        /\ t.cst.command \in {"none", d.cst.command}
    BY <2>3, SetDisconnectedShape
  <2> HIDE DEF t
  <2>5. Controlled(t.conn, t.cst)
    BY <1>3, <2>2, <2>4 DEF Controlled, Held, Waits
  <2> QED BY <2>1, <2>5
<1> QED BY <1>5, <1>6, <1>7

\* A connection that is being logged in, and has just been answered.
Answered(s) ==
  /\ s \in Snap /\ s.conn.state # "DISCONNECTED" /\ ~s.conn.processing
  /\ ~s.cst.locked /\ ~s.cst.loggedin /\ ~Waits(s.cst) /\ Held(s.conn, s.cst)

LEMMA AnsweredSend ==
  ASSUME NEW s, Answered(s), NEW state \in ConnStates
  PROVE  LET t == Send(s, state) IN Handling(t.conn, t.cst)
<1> DEFINE t == Send(s, state)
<1>1. t.cst = s.cst
  BY SendShape DEF Answered
<1> HIDE DEF t
<1>2. Handling(t.conn, t.cst)
  BY <1>1 DEF Handling, Answered, Held
<1> QED BY <1>2 DEF t

LEMMA FinishLoginCtl ==
  ASSUME NEW s, Answered(s), NEW work \in Work
  PROVE  LET t == finishLogin(s, work) IN Handling(t.conn, t.cst)
<1>1. "TYPEI" \in ConnStates /\ "XDUPE" \in ConnStates
  BY DEF ConnStates
<1>2. CASE site.binary /\ ~s.conn.typei
  BY <1>1, <1>2, AnsweredSend DEF finishLogin
<1>3. CASE ~(site.binary /\ ~s.conn.typei) /\ site.xdupe /\ ~s.conn.xdupe
  BY <1>1, <1>3, AnsweredSend DEF finishLogin
<1>4. CASE ~(site.binary /\ ~s.conn.typei) /\ ~(site.xdupe /\ ~s.conn.xdupe)
  <2> DEFINE a == ClearCommand(s)
             b == [a EXCEPT !.cst.loggedin = TRUE]
  <2>1. a \in Snap /\ a.conn = s.conn /\ a.cst.command = "none" /\ a.cst.locked = s.cst.locked
    BY ClearCommandShape DEF Answered
  <2>2. finishLogin(s, work) = handleConnection(b, work)
    BY <1>4 DEF finishLogin
  <2> HIDE DEF a
  <2>3. b \in Snap /\ b.conn = a.conn /\ b.cst.command = "none" /\ b.cst.locked = a.cst.locked
    BY <2>1 DEF Snap, CstRec
  <2> HIDE DEF b
  <2>4. Handling(b.conn, b.cst)
    BY <2>1, <2>3 DEF Handling, Held, Waits, Answered, Ready
  <2>5. b.conn.state # "DISCONNECTED"
    BY <2>1, <2>3 DEF Answered
  <2> QED BY <2>2, <2>3, <2>4, <2>5, HandleConnectionCtl
<1> QED BY <1>2, <1>3, <1>4

LEMMA RefusedCtl ==
  ASSUME NEW s, NEW E, Good(s, E), Answered(s), NEW reply, NEW how \in CloseKinds
  PROVE  LET t == Refused(s, reply, how) IN Handling(t.conn, t.cst)
<1>1. CASE reply = "full"
  <2>1. "reconnect" \in Delayed /\ TRUE \in BOOLEAN /\ s \in Snap
    BY DEF Delayed, Answered
  <2> DEFINE t == delayedCommand(s, "reconnect", TRUE)
  <2>2. /\ t.conn = s.conn /\ t.cst.command = "reconnect" /\ t.cst.locked = s.cst.locked
        /\ t.cst.loggedin = s.cst.loggedin /\ t.cst.early = (s.cst.locked \/ s.conn.processing)
    BY <2>1, DelayedShape
  <2>3. Refused(s, reply, how) = t
    BY <1>1 DEF Refused
  <2> HIDE DEF t
  <2>4. ~t.cst.early
    BY <2>2 DEF Answered
  <2>5. Handling(t.conn, t.cst)
    BY <2>2, <2>4 DEF Handling, Held, Answered
  <2> QED BY <2>3, <2>5
<1>2. CASE reply # "full" /\ reply = "simultaneous" /\ s.conn.state \in {"USER", "PASS"}
  <2>1. Refused(s, reply, how) = Send(s, "USER_LOGINKILL")
    BY <1>2 DEF Refused, doUSER
  <2>2. "USER_LOGINKILL" \in ConnStates
    BY DEF ConnStates
  <2> QED BY <2>1, <2>2, AnsweredSend
<1>3. CASE reply # "full" /\ ~(reply = "simultaneous" /\ s.conn.state \in {"USER", "PASS"})
  <2>1. Refused(s, reply, how) = disconnectConn(s, FALSE, how)
    BY <1>3 DEF Refused
  <2>2. Handling(s.conn, s.cst)
    BY DEF Answered, Handling
  <2> QED BY <2>1, <2>2, DisconnectConnCtl, CtlHandling
<1> QED BY <1>1, <1>2, <1>3

LEMMA HandleReplyCtl ==
  ASSUME NEW s, NEW E, Good(s, E), Controlled(s.conn, s.cst), NEW reply, NEW work \in Work,
         NEW how \in CloseKinds
  PROVE  LET t == HandleReply(s, reply, work, how) IN Handling(t.conn, t.cst)
<1> DEFINE done == [s EXCEPT !.conn.processing = FALSE]
           r == HandleReply(s, reply, work, how)
<1> SUFFICES Handling(r.conn, r.cst)
  OBVIOUS
<1>0. s \in Snap /\ s.conn.state \in ConnStates
  BY DEF Good, Base, Snap, ConnRec
<1>1. done \in Snap /\ done.cst = s.cst /\ done.conn.state = s.conn.state
      /\ done.conn.processing = FALSE /\ Moves(s, done)
  BY <1>0 DEF Snap, ConnRec, Moves
<1>2. Good(done, E)
  BY <1>1, MovesGood
<1>3. ASSUME s.conn.state \notin {"DISCONNECTED", "IDLE", "COMMAND", "QUIT"} PROVE Answered(done)
  <2> HIDE DEF done
  <2> QED BY <1>1, <1>3 DEF Answered, Controlled, Held
<1>4. CASE s.conn.state = "AUTH_TLS"
  <2>1. CASE reply = "good" /\ s.net.sock[s.conn.sock] = "up"
    <3>1. r = [s EXCEPT !.net.sock[s.conn.sock] = "negotiating"]
      BY <1>4, <2>1 DEF HandleReply
    <3>2. LET x == [s EXCEPT !.net.sock[s.conn.sock] = "negotiating"] IN x.conn = s.conn /\ x.cst = s.cst
      BY <1>0 DEF Snap
    <3> HIDE DEF r
    <3>3. r.conn = s.conn /\ r.cst = s.cst
      BY <3>1, <3>2
    <3> QED BY <3>3, CtlHandling
  <2>2. CASE reply = "good" /\ s.net.sock[s.conn.sock] # "up"
    <3>1. r = s
      BY <1>4, <2>2 DEF HandleReply
    <3> QED BY <3>1, CtlHandling
  <2>3. CASE reply # "good"
    <3>1. r = disconnectConn(done, FALSE, how)
      BY <1>4, <2>3 DEF HandleReply
    <3>2. Answered(done)
      BY <1>3, <1>4
    <3> HIDE DEF done, r
    <3>3. Handling(done.conn, done.cst)
      BY <3>2 DEF Answered, Handling
    <3> QED BY <1>2, <3>1, <3>3, DisconnectConnCtl, CtlHandling
  <2> QED BY <2>1, <2>2, <2>3
<1>5. CASE s.conn.state \in Logins
  <2>0. Answered(done)
    BY <1>3, <1>5 DEF Logins
  <2>1. CASE reply = "good"
    <3>1. r = finishLogin(done, work)
      BY <1>5, <2>1 DEF HandleReply, Logins
    <3> HIDE DEF done, r
    <3> QED BY <2>0, <3>1, FinishLoginCtl
  <2>2. CASE reply = "more" /\ s.conn.state \in {"USER", "USER_LOGINKILL"}
    <3> DEFINE x == IF s.conn.state = "USER" THEN "PASS" ELSE "PASS_LOGINKILL"
               y == [s EXCEPT !.conn.state = x]
    <3>1. r = y
      BY <2>2 DEF HandleReply
    <3> HIDE DEF x, r
    <3>2. y.cst = s.cst /\ y.conn.processing = s.conn.processing
      BY <1>0 DEF Snap, ConnRec
    <3> HIDE DEF y
    <3>3. ~s.cst.locked /\ ~s.cst.loggedin
      BY <2>2 DEF Controlled
    <3>4. Handling(r.conn, r.cst)
      BY <3>1, <3>2, <3>3 DEF Handling, Controlled, Held
    <3> QED BY <3>4
  <2>3. CASE reply # "good" /\ ~(reply = "more" /\ s.conn.state \in {"USER", "USER_LOGINKILL"})
    <3>1. r = Refused(done, reply, how)
      BY <1>5, <2>3 DEF HandleReply, Logins
    <3> HIDE DEF done, r
    <3> QED BY <1>2, <2>0, <3>1, RefusedCtl
  <2> QED BY <2>1, <2>2, <2>3
<1>6. CASE s.conn.state = "TYPEI" /\ reply = "good"
  <2> DEFINE a == [done EXCEPT !.conn.typei = TRUE]
  <2>0. Answered(done)
    BY <1>3, <1>6
  <2>1. r = finishLogin(a, work)
    BY <1>6 DEF HandleReply
  <2> HIDE DEF done, r
  <2>2. a \in Snap /\ a.cst = done.cst /\ a.conn.state = done.conn.state
        /\ a.conn.processing = done.conn.processing
    BY <1>1 DEF Snap, ConnRec
  <2> HIDE DEF a
  <2>3. Answered(a)
    BY <2>0, <2>2 DEF Answered, Held
  <2> QED BY <2>1, <2>3, FinishLoginCtl
<1>7. CASE s.conn.state = "TYPEI" /\ reply # "good"
  <2> DEFINE a == ClearCommand(done)
             b == cleanupConnection(a)
             c == setDisconnected(b)
             d == disconnect(c, how)
  <2>1. r = login(d)
    BY <1>7 DEF HandleReply, disconnected
  <2> HIDE DEF done
  <2>2. a \in Snap /\ a.net = done.net /\ a.conn = done.conn /\ a.cst.command = "none"
    BY <1>1, ClearCommandShape
  <2> HIDE DEF a
  <2>3. b \in Snap /\ b.net = a.net /\ b.conn = a.conn /\ b.cst.command = "none" /\ b.cst.locked = FALSE
    BY <2>2, CleanupShape
  <2> HIDE DEF b
  <2>4. c \in Snap /\ c.net = b.net /\ c.conn = b.conn /\ c.cst.command = "none"
        /\ c.cst.locked = FALSE /\ c.cst.loggedin = FALSE
    BY <2>3, SetDisconnectedShape
  <2> HIDE DEF c
  <2>5. Good(c, E)
    BY <1>1, <1>2, <2>2, <2>3, <2>4, MovesGood DEF Moves
  <2>6. d.cst = c.cst /\ d.conn.state = "DISCONNECTED" /\ d \in Snap
    BY <2>5, DisconnectGood DEF Good, Base
  <2> HIDE DEF d, r
  <2>7. r.cst = d.cst /\ r.conn.state = "CONNECTING" /\ r.conn.processing = TRUE
    BY <2>1, <2>6, LoginSnap
  <2> QED BY <2>4, <2>6, <2>7 DEF Handling, Held, Waits
<1>8. CASE s.conn.state = "XDUPE"
  <2> DEFINE a == [done EXCEPT !.conn.xdupe = TRUE]
  <2>0. Answered(done)
    BY <1>3, <1>8
  <2>1. r = finishLogin(a, work)
    BY <1>8 DEF HandleReply
  <2> HIDE DEF done, r
  <2>2. a \in Snap /\ a.cst = done.cst /\ a.conn.state = done.conn.state
        /\ a.conn.processing = done.conn.processing
    BY <1>1 DEF Snap, ConnRec
  <2> HIDE DEF a
  <2>3. Answered(a)
    BY <2>0, <2>2 DEF Answered, Held
  <2> QED BY <2>1, <2>3, FinishLoginCtl
<1>9. CASE s.conn.state = "COMMAND"
  <2> DEFINE a == IF work = "nothing" THEN [done EXCEPT !.cst.locked = FALSE] ELSE done
             b == ClearCommand(a)
  <2>1. r = handleConnection(b, work)
    BY <1>9 DEF HandleReply
  <2> HIDE DEF done, r
  <2>2. a \in Snap /\ a.conn = done.conn
    BY <1>1 DEF Snap, CstRec
  <2> HIDE DEF a
  <2>3. b \in Snap /\ b.conn = a.conn /\ b.cst.command = "none"
    BY <2>2, ClearCommandShape
  <2> HIDE DEF b
  <2>4. Handling(b.conn, b.cst) /\ b.conn.state # "DISCONNECTED"
    BY <1>1, <1>9, <2>2, <2>3 DEF Handling, Held, Waits
  <2> QED BY <2>1, <2>3, <2>4, HandleConnectionCtl
<1>10. CASE s.conn.state = "QUIT"
  <2> DEFINE d == disconnect(done, how)
  <2>1. r = setDisconnected(d)
    BY <1>10 DEF HandleReply
  <2>0. done.conn.state # "DISCONNECTED"
    BY <1>1, <1>10
  <2> HIDE DEF done, r
  <2>2. d.conn.state = "DISCONNECTED" /\ d \in Snap /\ d.cst = done.cst /\ d.conn.processing = FALSE
    BY <1>2, <2>0, DisconnectGood DEF Good, Base
  <2> HIDE DEF d
  <2>3. /\ r.conn = d.conn /\ r.cst.locked = d.cst.locked /\ r.cst.loggedin = FALSE
        /\ \/ r.cst.command = "none"
           \/ /\ d.cst.persisting /\ r.cst.command = d.cst.command
              /\ r.cst.persisting = d.cst.persisting /\ r.cst.early = d.cst.early
    BY <2>1, <2>2, SetDisconnectedShape
  <2>4. ~s.cst.locked
    BY <1>10 DEF Controlled
  <2> QED BY <1>1, <2>2, <2>3, <2>4 DEF Handling, Controlled, Held, Waits
<1>11. CASE s.conn.state \in {"DISCONNECTED", "CONNECTING", "IDLE"}
  <2>1. r = s
    BY <1>11 DEF HandleReply
  <2> QED BY <2>1, CtlHandling
<1> QED BY <1>0, <1>4, <1>5, <1>6, <1>7, <1>8, <1>9, <1>10, <1>11 DEF ConnStates, Logins

LEMMA FDDataCtl ==
  ASSUME NEW s, NEW E, Good(s, E), Controlled(s.conn, s.cst), NEW k \in Ids, NEW reply \in Replies,
         NEW work \in Work, NEW how \in CloseKinds, site \in Sites
  PROVE  LET t == FDData(s, k, reply, work, how) IN Controlled(t.conn, t.cst)
<1>1. CASE s.conn.sock # k
  BY <1>1 DEF FDData
<1>2. CASE s.conn.sock = k
  <2> DEFINE t == HandleReply(s, reply, work, how)
             u == [t EXCEPT !.conn.state = "IDLE"]
             r == FDData(s, k, reply, work, how)
  <2>1. r = IF ~t.conn.processing /\ t.conn.state # "DISCONNECTED" THEN u ELSE t
    BY <1>2 DEF FDData
  <2>2. s.conn.sock # NoSock
    BY <1>2 DEF Ids, NoSock
  <2>3. t \in Snap
    BY <2>2, HandleReplyGood
  <2>4. Handling(t.conn, t.cst)
    BY HandleReplyCtl
  <2> HIDE DEF r, t
  <2>5. /\ u \in Snap /\ u.net = t.net /\ u.cst = t.cst /\ u.conn.state = "IDLE"
        /\ u.conn.sock = t.conn.sock /\ u.conn.list = t.conn.list /\ u.conn.poke = t.conn.poke
        /\ u.conn.processing = t.conn.processing
    BY <2>3, IdleShape
  <2> HIDE DEF u
  <2>6. Controlled(r.conn, r.cst)
    BY <2>1, <2>4, <2>5 DEF Controlled, Handling, Held, Ready
  <2> QED BY <2>6 DEF r
<1> QED BY <1>1, <1>2

LEMMA FDDisconnectedCtl ==
  ASSUME NEW s \in Snap, Controlled(s.conn, s.cst), NEW k
  PROVE  LET t == FDDisconnected(s, k) IN Controlled(t.conn, t.cst)
<1>1. CASE s.conn.sock # k \/ s.conn.state = "DISCONNECTED"
  BY <1>1 DEF FDDisconnected
<1>2. CASE s.conn.sock = k /\ s.conn.state # "DISCONNECTED"
  <2> DEFINE a == [s EXCEPT !.conn.state = "DISCONNECTED"]
             b == cleanupConnection(a)
             t == setDisconnected(b)
  <2>1. FDDisconnected(s, k) = t
    BY <1>2 DEF FDDisconnected, disconnected
  <2>2. a \in Snap /\ a.cst = s.cst /\ a.conn.state = "DISCONNECTED"
        /\ a.conn.processing = s.conn.processing
    BY DEF Snap, ConnRec, ConnStates
  <2> HIDE DEF a
  <2>3. b \in Snap /\ b.conn = a.conn /\ b.cst.locked = FALSE /\ b.cst.command = a.cst.command
        /\ b.cst.early = a.cst.early /\ b.cst.persisting = a.cst.persisting
    BY <2>2, CleanupShape
  <2> HIDE DEF b
  <2>4. /\ t.conn = b.conn /\ t.cst.locked = b.cst.locked /\ t.cst.loggedin = FALSE
        /\ \/ t.cst.command = "none"
           \/ /\ b.cst.persisting /\ t.cst.command = b.cst.command
              /\ t.cst.persisting = b.cst.persisting /\ t.cst.early = b.cst.early
    BY <2>3, SetDisconnectedShape
  <2> HIDE DEF t
  <2>5. Controlled(t.conn, t.cst)
    BY <2>2, <2>3, <2>4 DEF Controlled, Held, Waits
  <2> QED BY <2>1, <2>5
<1> QED BY <1>1, <1>2

LEMMA FDSSLCtl ==
  ASSUME NEW s \in Snap, Controlled(s.conn, s.cst), NEW k
  PROVE  LET t == FDSSLSuccess(s, k) IN Controlled(t.conn, t.cst)
<1> DEFINE t == IF s.conn.sock # k \/ s.conn.state = "DISCONNECTED" THEN [s EXCEPT !.net.stale = TRUE] ELSE s
           r == FDSSLSuccess(s, k)
<1>1. t \in Snap /\ t.conn = s.conn /\ t.cst = s.cst
  <2> DEFINE x == [s EXCEPT !.net.stale = TRUE]
  <2>1. x \in Snap /\ x.conn = s.conn /\ x.cst = s.cst
    BY DEF Snap, NetRec
  <2> HIDE DEF x
  <2>2. t \in {s, x}
    BY DEF x
  <2> QED BY <2>1, <2>2
<1>2. r = IF s.conn.state = "AUTH_TLS" THEN Send(t, "USER") ELSE [t EXCEPT !.conn.state = "IDLE"]
  BY DEF FDSSLSuccess, doUSER
<1> HIDE DEF t, r
<1>3. CASE s.conn.state = "AUTH_TLS"
  <2>1. "USER" \in ConnStates
    BY DEF ConnStates
  <2>2. r.cst = t.cst /\ r.conn.state = "USER" /\ r.conn.processing = TRUE
    BY <1>1, <1>2, <1>3, <2>1, SendShape
  <2>3. Controlled(r.conn, r.cst)
    BY <1>1, <1>3, <2>2 DEF Controlled, Held
  <2> QED BY <2>3 DEF r
<1>4. CASE s.conn.state # "AUTH_TLS"
  <2>1. r.cst = t.cst /\ r.conn.state = "IDLE" /\ r.conn.processing = t.conn.processing
    BY <1>1, <1>2, <1>4, IdleShape
  <2>2. Controlled(r.conn, r.cst)
    BY <1>1, <2>1 DEF Controlled, Held
  <2> QED BY <2>2 DEF r
<1> QED BY <1>3, <1>4

LEMMA ConnectAllCtl ==
  ASSUME NEW s \in Snap, site \in Sites
  PROVE  LET t == connectAllAddresses(s)
         IN  /\ t \in Snap /\ t.cst = s.cst /\ t.conn.state = s.conn.state
             /\ t.conn.processing = s.conn.processing
<1> DEFINE a == [s EXCEPT !.conn.all = TRUE]
           n == site.addresses - 1
           t == NewConnectors(a, n, FALSE)
<1>1. n \in Nat
  BY ConnectAssumption
<1>2. a \in Snap /\ a.cst = s.cst /\ a.conn.state = s.conn.state /\ a.conn.processing = s.conn.processing
  BY DEF Snap, ConnRec
<1>3. connectAllAddresses(s) = t
  BY DEF connectAllAddresses
<1> HIDE DEF a, n
<1>4. t \in Snap /\ t.cst = a.cst /\ t.conn.state = a.conn.state /\ t.conn.processing = a.conn.processing
  BY <1>1, <1>2, NewShape
<1> QED BY <1>2, <1>3, <1>4

LEMMA FailCtl ==
  ASSUME NEW s \in Snap, Controlled(s.conn, s.cst), NEW K, NEW how, site \in Sites
  PROVE  LET t == ftpConnectFail(s, K, how) IN Controlled(t.conn, t.cst)
<1> DEFINE r == ftpConnectFail(s, K, how)
<1>1. CASE s.conn.state # "CONNECTING" \/ K = {}
  BY <1>1 DEF ftpConnectFail
<1>2. CASE s.conn.state = "CONNECTING" /\ K # {}
  <2> DEFINE t == [s EXCEPT !.conn.list = s.conn.list \ K]
             more == site.addresses > 1 /\ ~s.conn.all /\ \E k \in K : s.net.ctr[k].primary
             u == IF more THEN connectAllAddresses(t) ELSE t
             p == stopPoke(u)
             w == [p EXCEPT !.conn.state = "DISCONNECTED"]
  <2>1. r = IF u.conn.list # {} THEN u ELSE disconnectConn(w, FALSE, how)
    BY <1>2 DEF ftpConnectFail
  <2>2. t \in Snap /\ t.cst = s.cst /\ t.conn.state = s.conn.state /\ t.conn.processing = s.conn.processing
    <3>1. s.conn.list \ K \subseteq Nat
      BY DEF Snap, ConnRec
    <3> QED BY <3>1 DEF Snap, ConnRec
  <2> HIDE DEF t, more
  <2>3. u \in Snap /\ u.cst = t.cst /\ u.conn.state = t.conn.state /\ u.conn.processing = t.conn.processing
    BY <2>2, ConnectAllCtl
  <2> HIDE DEF u
  <2>4. p \in Snap /\ p.cst = u.cst /\ p.conn.processing = u.conn.processing
    BY <2>3, PokeShape
  <2> HIDE DEF p
  <2>5. w \in Snap /\ w.cst = p.cst /\ w.conn.state = "DISCONNECTED"
        /\ w.conn.processing = p.conn.processing
    BY <2>4 DEF Snap, ConnRec, ConnStates
  <2> HIDE DEF w, r
  <2>6. Handling(w.conn, w.cst)
    BY <1>2, <2>2, <2>3, <2>4, <2>5 DEF Controlled, Handling, Held
  <2>7. Controlled(u.conn, u.cst)
    BY <2>2, <2>3 DEF Controlled, Held
  <2>8. CASE u.conn.list # {}
    BY <2>1, <2>7, <2>8 DEF r
  <2>9. CASE u.conn.list = {}
    BY <2>1, <2>5, <2>6, <2>9, DisconnectedCtl DEF r
  <2> QED BY <2>8, <2>9
<1> QED BY <1>1, <1>2

LEMMA ConnectorFailCtl ==
  ASSUME NEW s \in Snap, Controlled(s.conn, s.cst), NEW k \in Ids, NEW how, site \in Sites
  PROVE  LET t == ConnectorFail(s, k, how) IN Controlled(t.conn, t.cst)
<1>1. CASE ~s.net.ctr[k].engaged
  BY <1>1 DEF ConnectorFail
<1>2. CASE s.net.ctr[k].engaged
  <2> DEFINE c == Retired(s.net.ctr[k])
             a == [s EXCEPT !.net.ctr[k] = c]
             K == {k}
  <2>1. ConnectorFail(s, k, how) = ftpConnectFail(a, K, how)
    BY <1>2 DEF ConnectorFail
  <2>2. c \in Connector
    BY RetiredShape DEF Snap, NetRec
  <2> HIDE DEF c, K
  <2>3. a \in Snap /\ a.conn = s.conn /\ a.cst = s.cst
    BY <2>2, CtrUpdate
  <2> HIDE DEF a
  <2>4. Controlled(a.conn, a.cst)
    BY <2>3
  <2> QED BY <2>1, <2>3, <2>4, FailCtl
<1> QED BY <1>1, <1>2

LEMMA InterDataCtl ==
  ASSUME NEW s, NEW E, Good(s, E), Controlled(s.conn, s.cst), NEW k \in Ids, k <= s.net.last,
         s.net.sock[k] # "connecting", NEW reply, NEW how, site \in Sites
  PROVE  LET t == FDInterData(s, k, reply, how) IN Controlled(t.conn, t.cst)
<1> DEFINE r == FDInterData(s, k, reply, how)
<1>0. s \in Snap
  BY DEF Good, Base
<1>1. CASE ~s.net.ctr[k].engaged
  BY <1>1 DEF FDInterData
<1>2. CASE s.net.ctr[k].engaged /\ reply = "good"
  <2>1. r = ftpConnectSuccess(s, k)
    BY <1>2 DEF FDInterData
  <2> HIDE DEF r
  <2>2. /\ r.cst = s.cst
        /\ \/ r = s
           \/ /\ s.conn.state = "CONNECTING" /\ r.conn.state \in {"AUTH_TLS", "USER"}
              /\ r.conn.processing = TRUE
    BY <1>2, <2>1, SuccessGood
  <2>3. Controlled(r.conn, r.cst)
    BY <2>2 DEF Controlled, Held
  <2> QED BY <2>3 DEF r
<1>3. CASE s.net.ctr[k].engaged /\ reply # "good"
  <2> DEFINE K == {k}
             a == disengage(s, K)
  <2>1. r = ftpConnectFail(a, K, how)
    BY <1>3 DEF FDInterData
  <2> HIDE DEF r, K
  <2>2. a \in Snap /\ a.conn = s.conn /\ a.cst = s.cst
    BY <1>0, DisengageShape
  <2> HIDE DEF a
  <2>3. Controlled(a.conn, a.cst)
    BY <2>2
  <2> QED BY <2>1, <2>2, <2>3, FailCtl DEF r
<1> QED BY <1>1, <1>2, <1>3

LEMMA ProxyDataCtl ==
  ASSUME NEW s \in Snap, Controlled(s.conn, s.cst), NEW k \in Ids, NEW reply, NEW how \in CloseKinds,
         s.net.ctr[k].stage # "none", s.net.ctr[k].stage # "direct", site \in Sites
  PROVE  LET t == ProxyData(s, k, reply, how) IN Controlled(t.conn, t.cst)
<1> DEFINE next == received(s.net.ctr[k].stage, reply)
           r == ProxyData(s, k, reply, how)
<1>0. s.net.ctr[k] \in Connector
  BY DEF Snap, NetRec
<1>1. next \in {"ERROR", "SUCCESS", "SEND", "SEND_CONNECT"}
  <2>1. s.net.ctr[k].stage \in {"INIT", "SEND", "SEND_CONNECT"}
    BY <1>0 DEF Connector
  <2> QED BY <2>1 DEF received
<1> HIDE DEF next
<1>2. ASSUME NEW stage
      PROVE  LET a == [s EXCEPT !.net.ctr[k].stage = stage] IN a.conn = s.conn /\ a.cst = s.cst
  BY DEF Snap
<1>3. CASE next = "SUCCESS"
  <2> DEFINE a == [s EXCEPT !.net.ctr[k].stage = "direct"]
  <2>1. a.conn = s.conn /\ a.cst = s.cst
    BY <1>2
  <2>2. r = FDInterConnected(a, k)
    BY <1>3 DEF ProxyData, next
  <2> HIDE DEF r, a
  <2>3. r.conn = s.conn /\ r.cst = s.cst
    BY ONLY <2>1, <2>2 DEF FDInterConnected
  <2> QED BY <2>3 DEF r
<1>4. CASE next = "ERROR"
  <2> DEFINE a == CloseSocket(s, k, how)
  <2>1. a \in Snap /\ a.conn = s.conn /\ a.cst = s.cst
    BY CloseShape
  <2>2. r = ConnectorFail(a, k, how)
    BY <1>4 DEF ProxyData, next
  <2> HIDE DEF a
  <2>3. Controlled(a.conn, a.cst)
    BY <2>1
  <2> QED BY <2>1, <2>2, <2>3, ConnectorFailCtl
<1>5. CASE next \in {"SEND", "SEND_CONNECT"}
  <2>1. r = [s EXCEPT !.net.ctr[k].stage = next]
    BY <1>5 DEF ProxyData, next
  <2> QED BY <1>2, <2>1
<1> QED BY <1>1, <1>3, <1>4, <1>5

LEMMA HandleCtl ==
  ASSUME NEW s, NEW F, NEW e \in F, Good(s, F), Controlled(s.conn, s.cst),
         NEW work \in Work, NEW how \in CloseKinds, site \in Sites
  PROVE  LET t == Handle(s, e, work, how) IN Controlled(t.conn, t.cst)
<1> DEFINE k == e.sock
           r == Handle(s, e, work, how)
<1>0. s \in Snap
  BY DEF Good, Base
<1>1. /\ e \in Event /\ k \in Ids /\ k <= s.net.last /\ s.net.sock[k] # "connecting"
  BY EventSock
<1>2. /\ e.kind \in {"connected", "data", "fail", "disconnected", "ssl"}
      /\ e.to \in {"connector", "conn"} /\ e.reply \in Replies
  BY <1>1 DEF Event
<1>3. e.to = "conn" => e.kind # "connected"
  BY DEF Good, Base, NetBase
<1>4. ASSUME NEW t, t.conn = s.conn, t.cst = s.cst PROVE Controlled(t.conn, t.cst)
  BY <1>4
<1>5. CASE e.to = "conn"
  <2>1. CASE e.kind = "data"
    <3>1. r = FDData(s, k, e.reply, work, how)
      BY <1>5, <2>1 DEF Handle
    <3> QED BY <1>1, <1>2, <3>1, FDDataCtl
  <2>2. CASE e.kind = "ssl"
    <3>1. r = FDSSLSuccess(s, k)
      BY <1>5, <2>2 DEF Handle
    <3> QED BY <1>0, <3>1, FDSSLCtl
  <2>3. CASE e.kind \in {"disconnected", "fail"}
    <3>1. r = FDDisconnected(s, k)
      BY <1>5, <2>3 DEF Handle
    <3> QED BY <1>0, <3>1, FDDisconnectedCtl
  <2> QED BY <1>2, <1>3, <1>5, <2>1, <2>2, <2>3
<1>6. CASE e.to # "conn"
  <2>1. CASE e.kind = "connected" /\ s.net.ctr[k].stage = "direct"
    <3>1. r = FDInterConnected(s, k)
      BY <1>6, <2>1 DEF Handle
    <3> HIDE DEF r
    <3>2. r.conn = s.conn /\ r.cst = s.cst
      BY <1>1, <3>1, InterConnectedGood
    <3> QED BY <3>2 DEF r
  <2>2. CASE e.kind = "connected" /\ s.net.ctr[k].stage # "direct"
    <3>1. r = s
      BY <1>6, <2>2 DEF Handle
    <3> QED BY <3>1
  <2>3. CASE e.kind = "data" /\ s.net.ctr[k].stage = "direct"
    <3>1. r = FDInterData(s, k, e.reply, how)
      BY <1>6, <2>3 DEF Handle
    <3> QED BY <1>1, <3>1, InterDataCtl
  <2>4. CASE e.kind = "data" /\ s.net.ctr[k].stage # "direct"
    <3>1. r = ProxyData(s, k, e.reply, how)
      BY <1>6, <2>4 DEF Handle
    <3>2. s.net.ctr[k].stage # "none"
      BY <1>1 DEF Good, Base, NetBase
    <3> QED BY <1>0, <1>1, <2>4, <3>1, <3>2, ProxyDataCtl
  <2>5. CASE e.kind \in {"disconnected", "fail"}
    <3>1. r = ConnectorFail(s, k, how)
      BY <1>6, <2>5 DEF Handle
    <3> QED BY <1>0, <1>1, <3>1, ConnectorFailCtl
  <2>6. CASE e.kind = "ssl"
    <3>1. r = s
      BY <1>6, <2>6 DEF Handle
    <3> QED BY <3>1
  <2> QED BY <1>2, <2>1, <2>2, <2>3, <2>4, <2>5, <2>6
<1> QED BY <1>5, <1>6

LEMMA TickInternCtl ==
  ASSUME NEW s, NEW E, Good(s, E), Controlled(s.conn, s.cst), site \in Sites
  PROVE  LET t == tickIntern(s) IN t \in Snap /\ Controlled(t.conn, t.cst)
<1> DEFINE late(k) == k \in s.conn.list /\ s.net.ctr[k].waited + 1 >= WelcomeTicks
           w(k) == IF k \notin s.conn.list THEN s.net.ctr[k].waited
                   ELSE IF late(k) THEN WelcomeTicks ELSE s.net.ctr[k].waited + 1
           C == [k \in Ids |-> [s.net.ctr[k] EXCEPT !.waited = w(k)]]
           u == [s EXCEPT !.net.ctr = C]
           K == {k \in s.conn.list : late(k) /\ s.net.ctr[k].engaged /\ s.net.ctr[k].connected}
           v == disengage(u, K)
<1>1. s \in Snap /\ \A k \in Ids : s.net.ctr[k] \in Connector
  BY DEF Good, Base, Snap, NetRec
<1>2. tickIntern(s) = ftpConnectFail(v, K, "closed")
  <2>1. [k \in Ids |-> [s.net.ctr[k] EXCEPT !.waited = IF k \notin s.conn.list THEN @
                                              ELSE IF late(k) THEN WelcomeTicks ELSE @ + 1]] = C
    OBVIOUS
  <2> QED BY <2>1 DEF tickIntern
<1>3. C \in [Ids -> Connector]
  <2> SUFFICES ASSUME NEW k \in Ids PROVE [s.net.ctr[k] EXCEPT !.waited = w(k)] \in Connector
    OBVIOUS
  <2>1. s.net.ctr[k].waited \in 0..WelcomeTicks /\ WelcomeTicks \in Nat
    BY <1>1, ConnectAssumption DEF Connector
  <2>2. w(k) \in 0..WelcomeTicks
    BY <2>1
  <2> HIDE DEF w
  <2> QED BY <1>1, <2>2 DEF Connector
<1> HIDE DEF C, K
<1>4. u \in Snap /\ u.conn = s.conn /\ u.cst = s.cst
  BY <1>1, <1>3 DEF Snap, NetRec
<1> HIDE DEF u
<1>5. v \in Snap /\ v.conn = u.conn /\ v.cst = u.cst
  BY <1>4, DisengageShape
<1> HIDE DEF v
<1>6. Controlled(v.conn, v.cst)
  BY <1>4, <1>5
<1>7. tickIntern(s) \in Snap
  BY TickInternGood
<1> QED BY <1>2, <1>5, <1>6, <1>7, FailCtl

LEMMA TickCtl ==
  ASSUME NEW s, NEW E, Good(s, E), Controlled(s.conn, s.cst), site \in Sites, NEW t, NEW r,
         t = IF tickIntern(s).conn.state = "CONNECTING" /\ ~tickIntern(s).conn.all
             THEN connectAllAddresses(tickIntern(s)) ELSE tickIntern(s),
         r = IF t.conn.list = {} THEN stopPoke(t) ELSE t
  PROVE  Controlled(r.conn, r.cst)
<1> DEFINE a == tickIntern(s)
<1>1. a \in Snap /\ Controlled(a.conn, a.cst)
  BY TickInternCtl
<1>0. t = IF a.conn.state = "CONNECTING" /\ ~a.conn.all THEN connectAllAddresses(a) ELSE a
  OBVIOUS
<1> HIDE DEF a
<1>2. t \in Snap /\ t.cst = a.cst /\ t.conn.state = a.conn.state /\ t.conn.processing = a.conn.processing
  BY <1>0, <1>1, ConnectAllCtl
<1>3. r.cst = t.cst /\ r.conn.state = t.conn.state /\ r.conn.processing = t.conn.processing
  BY <1>2, PokeShape
<1> QED BY <1>1, <1>2, <1>3, CtlSame

-----------------------------------------------------------------------------
\* SiteLogic's own steps

\* What a step leaves that takes a sound connection.
Sound(s, E) == Good(s, E) /\ Controlled(s.conn, s.cst)

LEMMA ClearSound ==
  ASSUME NEW s, NEW E, Sound(s, E)
  PROVE  LET t == ClearCommand(s)
         IN  /\ Sound(t, E) /\ t.conn = s.conn /\ t.cst.command = "none"
             /\ t.cst.locked = s.cst.locked /\ t.cst.loggedin = s.cst.loggedin
<1> DEFINE t == ClearCommand(s)
<1>1. s \in Snap
  BY DEF Sound, Good, Base
<1>2. t \in Snap /\ t.net = s.net /\ t.conn = s.conn /\ t.cst.command = "none"
      /\ t.cst.locked = s.cst.locked /\ t.cst.loggedin = s.cst.loggedin
  BY <1>1, ClearCommandShape
<1> HIDE DEF t
<1>3. Good(t, E)
  BY <1>2, MovesGood DEF Moves, Sound
<1>4. Controlled(t.conn, t.cst)
  BY <1>2 DEF Controlled, Held, Waits, Sound
<1> QED BY <1>2, <1>3, <1>4 DEF Sound, t

LEMMA LoginSound ==
  ASSUME NEW s, NEW E, Sound(s, E), s.conn.state = "DISCONNECTED", ~Waits(s.cst), ~s.cst.locked,
         ~s.cst.loggedin, login(s).net.last <= MaxConnectors
  PROVE  Sound(login(s), E)
<1> DEFINE t == login(s)
<1>1. Good(t, E) /\ t.cst = s.cst /\ t.conn.state = "CONNECTING" /\ t.conn.processing = TRUE
  BY LoginGood DEF Sound
<1> HIDE DEF t
<1>2. Controlled(t.conn, t.cst)
  BY <1>1 DEF Controlled, Held, Sound
<1> QED BY <1>1, <1>2 DEF Sound, t

\* Work on a connection that is not disconnected.
LEMMA WorkSound ==
  ASSUME NEW s, NEW E, Sound(s, E), NEW work \in Work, s.conn.state # "DISCONNECTED"
  PROVE  Sound(handleConnection(s, work), E)
<1>1. s \in Snap /\ s.conn.state \in ConnStates
  BY DEF Sound, Good, Base, Snap, ConnRec
<1>2. s.conn.state \in Active \/ s.conn.processing
  BY <1>1 DEF Sound, Controlled, Active
<1>3. Good(handleConnection(s, work), E)
  BY <1>1, <1>2, HandleConnectionMoves, MovesGood DEF Sound
<1> QED BY <1>1, <1>3, HandleConnectionCtl DEF Sound

LEMMA DisconnectSound ==
  ASSUME NEW s, NEW E, Sound(s, E), NEW hard \in BOOLEAN, NEW how \in CloseKinds
  PROVE  Sound(disconnectConn(s, hard, how), E)
<1>1. s \in Snap /\ s.conn.state \in ConnStates
  BY DEF Sound, Good, Base, Snap, ConnRec
<1>2. s.cst.loggedin /\ Ready(s.conn) => s.conn.state \in Active
  BY <1>1 DEF Sound, Controlled, Active
<1>3. Good(disconnectConn(s, hard, how), E)
  BY <1>2, DisconnectConnGood DEF Sound
<1> QED BY <1>3, CtlHandling, DisconnectConnCtl DEF Sound

LEMMA SendSound ==
  ASSUME NEW s, NEW E, Sound(s, E), s.conn.state \in Active, ~Waits(s.cst)
  PROVE  s.cst.locked /\ ~s.conn.processing => Sound(Send(s, "COMMAND"), E)
<1> DEFINE t == Send(s, "COMMAND")
<1>1. s \in Snap /\ "COMMAND" \in Active /\ "COMMAND" \in ConnStates
  BY DEF Sound, Good, Base, Active, ConnStates
<1>2. Moves(s, t) /\ t.conn.state = "COMMAND"
  BY <1>1, SendMoves
<1>3. t.cst = s.cst /\ t.conn.processing = TRUE
  BY <1>1, SendShape
<1>4. Good(t, E)
  BY <1>2, MovesGood DEF Sound
<1> HIDE DEF t
<1>5. Controlled(t.conn, t.cst)
  BY <1>2, <1>3 DEF Sound, Controlled, Held
<1> QED BY <1>4, <1>5 DEF Sound, t

-----------------------------------------------------------------------------
\* No handler touches the events that wait behind its own.

Kept(s, t) == t \in Snap /\ t.net.queue = s.net.queue

LEMMA KeptTrans == ASSUME NEW r, NEW s, NEW t, Kept(r, s), Kept(s, t) PROVE Kept(r, t)
BY DEF Kept

LEMMA KeptFields ==
  ASSUME NEW s \in Snap
  PROVE  /\ \A state \in ConnStates, processing \in BOOLEAN :
               Kept(s, [s EXCEPT !.conn.state = state, !.conn.processing = processing])
         /\ \A state \in ConnStates : Kept(s, [s EXCEPT !.conn.state = state]) /\ Kept(s, Send(s, state))
         /\ \A b \in BOOLEAN : /\ Kept(s, [s EXCEPT !.conn.processing = b])
                               /\ Kept(s, [s EXCEPT !.conn.all = b])
                               /\ Kept(s, [s EXCEPT !.conn.typei = b])
                               /\ Kept(s, [s EXCEPT !.conn.xdupe = b])
                               /\ Kept(s, [s EXCEPT !.cst.locked = b])
                               /\ Kept(s, [s EXCEPT !.cst.loggedin = b])
                               /\ Kept(s, [s EXCEPT !.cst.quitting = b])
                               /\ Kept(s, [s EXCEPT !.net.stale = b])
         /\ \A L \in SUBSET Nat : Kept(s, [s EXCEPT !.conn.list = L])
         /\ Kept(s, ClearCommand(s)) /\ Kept(s, cleanupConnection(s)) /\ Kept(s, setDisconnected(s))
         /\ Kept(s, startPoke(s)) /\ Kept(s, stopPoke(s))
<1>1. \A state \in ConnStates, processing \in BOOLEAN :
         Kept(s, [s EXCEPT !.conn.state = state, !.conn.processing = processing])
  BY DEF Kept, Snap, ConnRec
<1>2. \A state \in ConnStates : Kept(s, [s EXCEPT !.conn.state = state])
  BY DEF Kept, Snap, ConnRec
<1>3. \A state \in ConnStates : Kept(s, Send(s, state))
  BY SendShape DEF Kept
<1>4. \A b \in BOOLEAN : /\ Kept(s, [s EXCEPT !.conn.processing = b])
                         /\ Kept(s, [s EXCEPT !.conn.all = b])
                         /\ Kept(s, [s EXCEPT !.conn.typei = b])
                         /\ Kept(s, [s EXCEPT !.conn.xdupe = b])
  BY DEF Kept, Snap, ConnRec
<1>5. \A b \in BOOLEAN : /\ Kept(s, [s EXCEPT !.cst.locked = b])
                         /\ Kept(s, [s EXCEPT !.cst.loggedin = b])
                         /\ Kept(s, [s EXCEPT !.cst.quitting = b])
  BY DEF Kept, Snap, CstRec
<1>6. \A b \in BOOLEAN : Kept(s, [s EXCEPT !.net.stale = b])
  BY DEF Kept, Snap, NetRec
<1>7. \A L \in SUBSET Nat : Kept(s, [s EXCEPT !.conn.list = L])
  BY DEF Kept, Snap, ConnRec
<1>8. Kept(s, ClearCommand(s)) /\ Kept(s, cleanupConnection(s)) /\ Kept(s, setDisconnected(s))
  BY ClearCommandShape, CleanupShape, SetDisconnectedShape DEF Kept
<1>9. Kept(s, startPoke(s)) /\ Kept(s, stopPoke(s))
  BY PokeShape DEF Kept
<1> QED BY <1>1, <1>2, <1>3, <1>4, <1>5, <1>6, <1>7, <1>8, <1>9

LEMMA KeptSockets ==
  ASSUME NEW s \in Snap
  PROVE  /\ \A k \in Ids \cup {NoSock}, how \in CloseKinds : Kept(s, CloseSocket(s, k, how))
         /\ \A K : Kept(s, disengage(s, K))
         /\ Kept(s, clearConnectors(s))
         /\ \A n \in Nat, primary \in BOOLEAN : Kept(s, NewConnectors(s, n, primary))
         /\ \A k \in Ids, c \in Connector : Kept(s, [s EXCEPT !.net.ctr[k] = c])
         /\ \A k \in Ids, v \in SocketState : Kept(s, [s EXCEPT !.net.sock[k] = v])
<1>1. \A k \in Ids \cup {NoSock}, how \in CloseKinds : Kept(s, CloseSocket(s, k, how))
  BY CloseShape DEF Kept, SameRest
<1>2. \A K : Kept(s, disengage(s, K))
  BY DisengageShape DEF Kept, SameRest
<1>3. Kept(s, clearConnectors(s))
  <2> DEFINE u == disengage(s, s.conn.list)
             t == clearConnectors(s)
  <2>1. Kept(s, u)
    BY <1>2
  <2>2. t \in Snap /\ t.net = u.net
    BY ClearShape
  <2> QED BY <2>1, <2>2 DEF Kept
<1>4. \A n \in Nat, primary \in BOOLEAN : Kept(s, NewConnectors(s, n, primary))
  BY NewShape DEF Kept, SameRest
<1>5. \A k \in Ids, c \in Connector : Kept(s, [s EXCEPT !.net.ctr[k] = c])
  BY CtrUpdate DEF Kept, SameRest
<1>6. \A k \in Ids, v \in SocketState : Kept(s, [s EXCEPT !.net.sock[k] = v])
  BY SockUpdate DEF Kept, SameRest
<1> QED BY <1>1, <1>2, <1>3, <1>4, <1>5, <1>6

LEMMA KeptConnectAll ==
  ASSUME NEW s \in Snap, site \in Sites PROVE Kept(s, connectAllAddresses(s))
<1> DEFINE a == [s EXCEPT !.conn.all = TRUE]
           n == site.addresses - 1
<1>1. n \in Nat
  BY ConnectAssumption
<1>2. Kept(s, a)
  BY KeptFields
<1>3. connectAllAddresses(s) = NewConnectors(a, n, FALSE)
  BY DEF connectAllAddresses
<1> HIDE DEF a, n
<1>4. Kept(a, NewConnectors(a, n, FALSE))
  BY <1>1, <1>2, KeptSockets DEF Kept
<1> QED BY <1>2, <1>3, <1>4, KeptTrans

LEMMA KeptLogin == ASSUME NEW s \in Snap PROVE Kept(s, login(s))
<1>1. CASE s.conn.state \notin {"DISCONNECTED", "QUIT"}
  BY <1>1 DEF login, Kept
<1>2. CASE s.conn.state \in {"DISCONNECTED", "QUIT"}
  <2> DEFINE c == clearConnectors(s)
             a == [c EXCEPT !.conn.state = "CONNECTING", !.conn.processing = TRUE,
                     !.conn.all = FALSE, !.conn.sock = NoSock, !.conn.typei = FALSE, !.conn.xdupe = FALSE]
             b == NewConnectors(a, 1, TRUE)
  <2>1. login(s) = startPoke(b)
    BY <1>2 DEF login
  <2>2. Kept(s, c)
    BY KeptSockets
  <2> HIDE DEF c
  <2>3. Kept(c, a)
    BY <2>2 DEF Kept, Snap, ConnRec, ConnStates
  <2> HIDE DEF a
  <2>4. Kept(a, b)
    BY <2>3, KeptSockets DEF Kept
  <2> HIDE DEF b
  <2>5. Kept(b, startPoke(b))
    BY <2>4, KeptFields DEF Kept
  <2> QED BY <2>1, <2>2, <2>3, <2>4, <2>5, KeptTrans
<1> QED BY <1>1, <1>2

LEMMA KeptDisconnect ==
  ASSUME NEW s \in Snap, NEW how \in CloseKinds PROVE Kept(s, disconnect(s, how))
<1>1. CASE s.conn.state = "DISCONNECTED"
  BY <1>1 DEF disconnect, Kept
<1>2. CASE s.conn.state # "DISCONNECTED"
  <2> DEFINE p == IF s.conn.state = "CONNECTING" THEN stopPoke(s) ELSE s
             a == [p EXCEPT !.conn.state = "DISCONNECTED", !.conn.processing = FALSE]
             b == CloseSocket(a, s.conn.sock, how)
  <2>1. disconnect(s, how) = clearConnectors(b)
    BY <1>2 DEF disconnect
  <2>2. Kept(s, p)
    <3>1. Kept(s, s) /\ Kept(s, stopPoke(s))
      BY KeptFields DEF Kept
    <3> QED BY <3>1
  <2> HIDE DEF p
  <2>3. "DISCONNECTED" \in ConnStates /\ FALSE \in BOOLEAN /\ s.conn.sock \in Ids \cup {NoSock}
    BY DEF ConnStates, Snap, ConnRec
  <2>4. Kept(p, a)
    BY <2>2, <2>3, KeptFields DEF Kept
  <2> HIDE DEF a
  <2>5. Kept(a, b)
    BY <2>3, <2>4, KeptSockets DEF Kept
  <2> HIDE DEF b
  <2>6. Kept(b, clearConnectors(b))
    BY <2>5, KeptSockets DEF Kept
  <2> QED BY <2>1, <2>2, <2>4, <2>5, <2>6, KeptTrans
<1> QED BY <1>1, <1>2

LEMMA KeptDisconnectConn ==
  ASSUME NEW s \in Snap, NEW hard \in BOOLEAN, NEW how \in CloseKinds
  PROVE  Kept(s, disconnectConn(s, hard, how))
<1> DEFINE c == ClearCommand(s)
           a == cleanupConnection(c)
           q == Send(a, "QUIT")
           d == disconnect(a, how)
<1>1. disconnectConn(s, hard, how) \in {a, [q EXCEPT !.cst.quitting = TRUE], setDisconnected(d)}
  BY DEF disconnectConn
<1>2. Kept(s, c)
  BY KeptFields
<1> HIDE DEF c
<1>3. Kept(c, a)
  BY <1>2, KeptFields DEF Kept
<1>4. Kept(s, a) /\ a \in Snap
  BY <1>2, <1>3, KeptTrans DEF Kept
<1> HIDE DEF a
<1>5. Kept(s, [q EXCEPT !.cst.quitting = TRUE])
  <2>1. "QUIT" \in ConnStates /\ TRUE \in BOOLEAN
    BY DEF ConnStates
  <2>2. Kept(a, q)
    BY <1>4, <2>1, KeptFields
  <2> HIDE DEF q
  <2>3. Kept(q, [q EXCEPT !.cst.quitting = TRUE])
    BY <2>1, <2>2, KeptFields DEF Kept
  <2> QED BY <1>4, <2>2, <2>3, KeptTrans
<1>6. Kept(s, setDisconnected(d))
  <2>1. Kept(a, d)
    BY <1>4, KeptDisconnect
  <2> HIDE DEF d
  <2>2. Kept(d, setDisconnected(d))
    BY <2>1, KeptFields DEF Kept
  <2> QED BY <1>4, <2>1, <2>2, KeptTrans
<1> HIDE DEF q, d
<1> QED BY <1>1, <1>4, <1>5, <1>6

LEMMA KeptHandleConnection ==
  ASSUME NEW s \in Snap, NEW work \in Work PROVE Kept(s, handleConnection(s, work))
<1>1. CASE s.conn.processing \/ s.cst.locked \/ work = "nothing"
  BY <1>1 DEF handleConnection, Kept
<1>2. CASE ~(s.conn.processing \/ s.cst.locked \/ work = "nothing")
  <2> DEFINE a == ClearCommand(s)
             b == Send(a, "COMMAND")
             u == [b EXCEPT !.cst.locked = TRUE]
             v == [a EXCEPT !.cst.locked = TRUE]
  <2>1. "COMMAND" \in ConnStates /\ TRUE \in BOOLEAN
    BY DEF ConnStates
  <2>2. work \in {"command", "transfer", "waitingtransfer"}
    BY <1>2 DEF Work
  <2>3. handleConnection(s, work) \in {b, u, v}
    BY <1>2, <2>2 DEF handleConnection
  <2>4. Kept(s, a)
    BY KeptFields
  <2> HIDE DEF a
  <2>5. Kept(a, b)
    BY <2>1, <2>4, KeptFields DEF Kept
  <2>6. Kept(s, b)
    BY <2>4, <2>5, KeptTrans
  <2> HIDE DEF b
  <2>7. Kept(a, v) /\ Kept(b, u)
    BY <2>1, <2>4, <2>6, KeptFields DEF Kept
  <2> HIDE DEF u, v
  <2> QED BY <2>3, <2>4, <2>6, <2>7, KeptTrans
<1> QED BY <1>1, <1>2

LEMMA KeptFinishLogin ==
  ASSUME NEW s \in Snap, NEW work \in Work PROVE Kept(s, finishLogin(s, work))
<1> DEFINE a == ClearCommand(s)
           b == [a EXCEPT !.cst.loggedin = TRUE]
<1>1. "TYPEI" \in ConnStates /\ "XDUPE" \in ConnStates /\ TRUE \in BOOLEAN
  BY DEF ConnStates
<1>2. finishLogin(s, work) \in {Send(s, "TYPEI"), Send(s, "XDUPE"), handleConnection(b, work)}
  BY DEF finishLogin
<1>3. Kept(s, Send(s, "TYPEI")) /\ Kept(s, Send(s, "XDUPE"))
  BY <1>1, KeptFields
<1>4. Kept(s, a)
  BY KeptFields
<1> HIDE DEF a
<1>5. Kept(a, b)
  BY <1>1, <1>4, KeptFields DEF Kept
<1> HIDE DEF b
<1>6. Kept(b, handleConnection(b, work))
  BY <1>5, KeptHandleConnection DEF Kept
<1>7. Kept(s, handleConnection(b, work))
  BY <1>4, <1>5, <1>6, KeptTrans
<1> QED BY <1>2, <1>3, <1>7

LEMMA KeptRefused ==
  ASSUME NEW s \in Snap, NEW reply, NEW how \in CloseKinds PROVE Kept(s, Refused(s, reply, how))
<1>1. "USER_LOGINKILL" \in ConnStates /\ "reconnect" \in Delayed /\ TRUE \in BOOLEAN /\ FALSE \in BOOLEAN
  BY DEF ConnStates, Delayed
<1>2. Refused(s, reply, how) \in {delayedCommand(s, "reconnect", TRUE), Send(s, "USER_LOGINKILL"),
                                  disconnectConn(s, FALSE, how)}
  BY DEF Refused, doUSER
<1>3. Kept(s, delayedCommand(s, "reconnect", TRUE))
  BY <1>1, DelayedShape DEF Kept
<1>4. Kept(s, Send(s, "USER_LOGINKILL"))
  BY <1>1, KeptFields
<1>5. Kept(s, disconnectConn(s, FALSE, how))
  BY <1>1, KeptDisconnectConn
<1> QED BY <1>2, <1>3, <1>4, <1>5

LEMMA KeptHandleReply ==
  ASSUME NEW s \in Snap, NEW reply, NEW work \in Work, NEW how \in CloseKinds, s.conn.sock # NoSock
  PROVE  Kept(s, HandleReply(s, reply, work, how))
<1> DEFINE done == [s EXCEPT !.conn.processing = FALSE]
           typed == [done EXCEPT !.conn.typei = TRUE]
           xduped == [done EXCEPT !.conn.xdupe = TRUE]
           freed == [done EXCEPT !.cst.locked = FALSE]
           secure == [s EXCEPT !.net.sock[s.conn.sock] = "negotiating"]
           pass == [s EXCEPT !.conn.state = "PASS"]
           kill == [s EXCEPT !.conn.state = "PASS_LOGINKILL"]
           a == ClearCommand(done)
           b == cleanupConnection(a)
           c == setDisconnected(b)
           d == disconnect(c, how)
           f == ClearCommand(freed)
           e == disconnect(done, how)
           r == HandleReply(s, reply, work, how)
<1>0. s.conn.sock \in Ids /\ s.conn.state \in ConnStates
  BY DEF Snap, ConnRec
<1>1. r \in {secure, s, disconnectConn(done, FALSE, how), finishLogin(done, work), pass, kill,
             Refused(done, reply, how), finishLogin(typed, work), login(d), finishLogin(xduped, work),
             handleConnection(a, work), handleConnection(f, work), setDisconnected(e)}
  <2>1. CASE s.conn.state = "AUTH_TLS"
    BY ONLY <2>1 DEF HandleReply
  <2>2. CASE s.conn.state \in {"USER", "USER_LOGINKILL"}
    BY ONLY <2>2 DEF HandleReply
  <2>3. CASE s.conn.state \in {"PASS", "PASS_LOGINKILL"}
    BY ONLY <2>3 DEF HandleReply
  <2>4. CASE s.conn.state = "TYPEI"
    BY ONLY <2>4 DEF HandleReply, disconnected
  <2>5. CASE s.conn.state = "XDUPE"
    BY ONLY <2>5 DEF HandleReply
  <2>6. CASE s.conn.state = "COMMAND"
    BY ONLY <2>6 DEF HandleReply
  <2>7. CASE s.conn.state = "QUIT"
    BY ONLY <2>7 DEF HandleReply
  <2>8. CASE s.conn.state \in {"DISCONNECTED", "CONNECTING", "IDLE"}
    BY ONLY <2>8 DEF HandleReply
  <2> QED BY <1>0, <2>1, <2>2, <2>3, <2>4, <2>5, <2>6, <2>7, <2>8 DEF ConnStates
<1> HIDE DEF r
<1>2. TRUE \in BOOLEAN /\ FALSE \in BOOLEAN /\ "PASS" \in ConnStates /\ "PASS_LOGINKILL" \in ConnStates
      /\ "negotiating" \in SocketState
  BY DEF ConnStates, SocketState
<1>3. Kept(s, secure)
  BY <1>0, <1>2, KeptSockets
<1>4. Kept(s, done) /\ Kept(s, pass) /\ Kept(s, kill) /\ Kept(s, s)
  BY <1>2, KeptFields DEF Kept
<1> HIDE DEF done, pass, kill, secure
<1>5. done \in Snap
  BY <1>4 DEF Kept
<1>6. Kept(done, typed) /\ Kept(done, xduped) /\ Kept(done, freed)
  BY <1>2, <1>5, KeptFields
<1> HIDE DEF typed, xduped, freed
<1>7. Kept(done, a) /\ Kept(freed, f)
  BY <1>5, <1>6, KeptFields DEF Kept
<1> HIDE DEF a, f
<1>8. Kept(a, b)
  BY <1>7, KeptFields DEF Kept
<1> HIDE DEF b
<1>9. Kept(b, c)
  BY <1>8, KeptFields DEF Kept
<1> HIDE DEF c
<1>10. Kept(c, d) /\ Kept(done, e)
  BY <1>5, <1>9, KeptDisconnect DEF Kept
<1> HIDE DEF d, e
<1>11. Kept(d, login(d)) /\ Kept(e, setDisconnected(e))
  BY <1>10, KeptLogin, KeptFields DEF Kept
<1>12. Kept(done, finishLogin(done, work)) /\ Kept(typed, finishLogin(typed, work))
       /\ Kept(xduped, finishLogin(xduped, work))
  BY <1>5, <1>6, KeptFinishLogin DEF Kept
<1>13. Kept(done, disconnectConn(done, FALSE, how)) /\ Kept(done, Refused(done, reply, how))
  BY <1>2, <1>5, KeptDisconnectConn, KeptRefused
<1>14. Kept(a, handleConnection(a, work)) /\ Kept(f, handleConnection(f, work))
  BY <1>7, KeptHandleConnection DEF Kept
<1>15. /\ Kept(s, login(d)) /\ Kept(s, setDisconnected(e)) /\ Kept(s, finishLogin(done, work))
       /\ Kept(s, finishLogin(typed, work)) /\ Kept(s, finishLogin(xduped, work))
       /\ Kept(s, disconnectConn(done, FALSE, how)) /\ Kept(s, Refused(done, reply, how))
       /\ Kept(s, handleConnection(a, work)) /\ Kept(s, handleConnection(f, work))
  BY <1>4, <1>6, <1>7, <1>8, <1>9, <1>10, <1>11, <1>12, <1>13, <1>14 DEF Kept
<1>16. Kept(s, r)
  BY <1>1, <1>3, <1>4, <1>15
<1> QED BY <1>16 DEF r

LEMMA KeptConnEvents ==
  ASSUME NEW s \in Snap, NEW k \in Ids, NEW reply, NEW work \in Work, NEW how \in CloseKinds
  PROVE  /\ Kept(s, FDData(s, k, reply, work, how))
         /\ Kept(s, FDDisconnected(s, k))
         /\ Kept(s, FDSSLSuccess(s, k))
<1>0. TRUE \in BOOLEAN /\ "IDLE" \in ConnStates /\ "USER" \in ConnStates /\ "DISCONNECTED" \in ConnStates
      /\ Kept(s, s)
  BY DEF ConnStates, Kept
<1>1. Kept(s, FDData(s, k, reply, work, how))
  <2> DEFINE t == HandleReply(s, reply, work, how)
             u == [t EXCEPT !.conn.state = "IDLE"]
  <2>1. CASE s.conn.sock # k
    BY <1>0, <2>1 DEF FDData
  <2>2. CASE s.conn.sock = k
    <3>1. FDData(s, k, reply, work, how) \in {t, u}
      BY <2>2 DEF FDData
    <3>2. s.conn.sock # NoSock
      BY <2>2 DEF Ids, NoSock
    <3>3. Kept(s, t)
      BY <3>2, KeptHandleReply
    <3> HIDE DEF t
    <3>4. Kept(t, u)
      BY <1>0, <3>3, KeptFields DEF Kept
    <3> HIDE DEF u
    <3> QED BY <3>1, <3>3, <3>4, KeptTrans
  <2> QED BY <2>1, <2>2
<1>2. Kept(s, FDDisconnected(s, k))
  <2> DEFINE a == [s EXCEPT !.conn.state = "DISCONNECTED"]
             b == cleanupConnection(a)
             t == setDisconnected(b)
  <2>1. FDDisconnected(s, k) \in {s, t}
    BY DEF FDDisconnected, disconnected
  <2>2. Kept(s, a)
    BY <1>0, KeptFields
  <2> HIDE DEF a
  <2>3. Kept(a, b)
    BY <2>2, KeptFields DEF Kept
  <2> HIDE DEF b
  <2>4. Kept(b, t)
    BY <2>3, KeptFields DEF Kept
  <2> HIDE DEF t
  <2> QED BY <1>0, <2>1, <2>2, <2>3, <2>4, KeptTrans
<1>3. Kept(s, FDSSLSuccess(s, k))
  <2> DEFINE x == [s EXCEPT !.net.stale = TRUE]
             t == IF s.conn.sock # k \/ s.conn.state = "DISCONNECTED" THEN x ELSE s
             u == [t EXCEPT !.conn.state = "IDLE"]
  <2>1. FDSSLSuccess(s, k) \in {Send(t, "USER"), u}
    BY DEF FDSSLSuccess, doUSER
  <2>2. Kept(s, x)
    BY <1>0, KeptFields
  <2> HIDE DEF x
  <2>3. Kept(s, t)
    BY <1>0, <2>2
  <2> HIDE DEF t
  <2>4. Kept(t, u) /\ Kept(t, Send(t, "USER"))
    BY <1>0, <2>3, KeptFields DEF Kept
  <2> HIDE DEF u
  <2> QED BY <2>1, <2>3, <2>4, KeptTrans
<1> QED BY <1>1, <1>2, <1>3

LEMMA KeptSuccess ==
  ASSUME NEW s \in Snap, NEW k \in Ids PROVE Kept(s, ftpConnectSuccess(s, k))
<1>1. CASE s.conn.state # "CONNECTING"
  BY <1>1 DEF ftpConnectSuccess, Kept
<1>2. CASE s.conn.state = "CONNECTING"
  <2> DEFINE C == [s.net.ctr EXCEPT ![k] = Retired(s.net.ctr[k])]
             O == [s.net.owner EXCEPT ![k] = "conn"]
             a == Handover(s, k, C, O, Shut(s, k))
             b == stopPoke(a)
             c == clearConnectors(b)
  <2>1. ftpConnectSuccess(s, k) \in {Send(c, "AUTH_TLS"), Send(c, "USER")}
    BY <1>2 DEF ftpConnectSuccess, doUSER, Handover
  <2>2. C \in [Ids -> Connector] /\ O \in [Ids -> {"connector", "conn"}]
    BY RetiredShape DEF Snap, NetRec
  <2>3. ASSUME NEW x \in BOOLEAN, NEW D \in [Ids -> Connector], NEW W \in [Ids -> {"connector", "conn"}]
        PROVE  Handover(s, k, D, W, x).net.queue = s.net.queue
    BY DEF Snap, NetRec, Handover
  <2>4. Shut(s, k) \in BOOLEAN
    BY DEF Shut
  <2> HIDE DEF C, O
  <2>5. Kept(s, a)
    BY <2>2, <2>3, <2>4, HandoverShape DEF Kept
  <2> HIDE DEF a
  <2>6. Kept(a, b)
    BY <2>5, KeptFields DEF Kept
  <2> HIDE DEF b
  <2>7. Kept(b, c)
    BY <2>6, KeptSockets DEF Kept
  <2> HIDE DEF c
  <2>8. Kept(c, Send(c, "AUTH_TLS")) /\ Kept(c, Send(c, "USER"))
    <3>1. "AUTH_TLS" \in ConnStates /\ "USER" \in ConnStates
      BY DEF ConnStates
    <3> QED BY <2>7, <3>1, KeptFields DEF Kept
  <2> QED BY <2>1, <2>5, <2>6, <2>7, <2>8, KeptTrans
<1> QED BY <1>1, <1>2

LEMMA KeptFail ==
  ASSUME NEW s \in Snap, NEW K, NEW how \in CloseKinds, site \in Sites
  PROVE  Kept(s, ftpConnectFail(s, K, how))
<1> DEFINE L == s.conn.list \ K
           t == [s EXCEPT !.conn.list = L]
           more == site.addresses > 1 /\ ~s.conn.all /\ \E k \in K : s.net.ctr[k].primary
           u == IF more THEN connectAllAddresses(t) ELSE t
           p == stopPoke(u)
           w == [p EXCEPT !.conn.state = "DISCONNECTED"]
<1>1. ftpConnectFail(s, K, how) \in {s, u, disconnectConn(w, FALSE, how)}
  BY DEF ftpConnectFail
<1>2. L \in SUBSET Nat
  BY DEF Snap, ConnRec
<1> HIDE DEF L, more
<1>3. Kept(s, t)
  BY <1>2, KeptFields
<1> HIDE DEF t
<1>4. Kept(t, connectAllAddresses(t)) /\ Kept(t, t)
  BY <1>3, KeptConnectAll DEF Kept
<1>5. Kept(t, u)
  BY <1>4
<1> HIDE DEF u
<1>6. Kept(u, p)
  BY <1>5, KeptFields DEF Kept
<1> HIDE DEF p
<1>7. Kept(p, w)
  <2>1. "DISCONNECTED" \in ConnStates
    BY DEF ConnStates
  <2> QED BY <1>6, <2>1, KeptFields DEF Kept
<1> HIDE DEF w
<1>8. Kept(w, disconnectConn(w, FALSE, how))
  BY <1>7, KeptDisconnectConn DEF Kept
<1>9. Kept(s, s) /\ Kept(s, u)
  BY <1>3, <1>5 DEF Kept
<1>10. Kept(s, disconnectConn(w, FALSE, how))
  BY <1>6, <1>7, <1>8, <1>9 DEF Kept
<1> QED BY <1>1, <1>9, <1>10

LEMMA KeptConnectorFail ==
  ASSUME NEW s \in Snap, NEW k \in Ids, NEW how \in CloseKinds, site \in Sites
  PROVE  Kept(s, ConnectorFail(s, k, how))
<1> DEFINE c == Retired(s.net.ctr[k])
           a == [s EXCEPT !.net.ctr[k] = c]
           K == {k}
<1>1. ConnectorFail(s, k, how) \in {s, ftpConnectFail(a, K, how)}
  BY DEF ConnectorFail
<1>2. c \in Connector
  BY RetiredShape DEF Snap, NetRec
<1> HIDE DEF c, K
<1>3. Kept(s, a)
  BY <1>2, KeptSockets
<1> HIDE DEF a
<1>4. Kept(a, ftpConnectFail(a, K, how)) /\ Kept(s, s)
  BY <1>3, KeptFail DEF Kept
<1> QED BY <1>1, <1>3, <1>4, KeptTrans

LEMMA KeptInterConnected ==
  ASSUME NEW s \in Snap, NEW k \in Ids PROVE Kept(s, FDInterConnected(s, k))
<1>1. CASE ~s.net.ctr[k].engaged
  BY <1>1 DEF FDInterConnected, Kept
<1>2. CASE s.net.ctr[k].engaged
  <2> DEFINE c == [s.net.ctr[k] EXCEPT !.connected = TRUE, !.waited = 0]
             v == IF site.tls = "IMPLICIT" /\ s.net.sock[k] = "up" THEN "negotiating" ELSE s.net.sock[k]
             a == [s EXCEPT !.net.ctr[k] = c]
             t == [a EXCEPT !.net.sock[k] = v]
  <2>1. c \in Connector /\ v \in SocketState
    <3>1. s.net.ctr[k] \in Connector /\ s.net.sock[k] \in SocketState /\ 0 \in 0..WelcomeTicks
      BY ConnectAssumption DEF Snap, NetRec
    <3> QED BY <3>1 DEF Connector, SocketState
  <2>2. FDInterConnected(s, k) = t
    <3>1. \A x : [s EXCEPT !.net.ctr[k].connected = TRUE, !.net.ctr[k].waited = 0, !.net.sock[k] = x]
               = [[s EXCEPT !.net.ctr[k].connected = TRUE, !.net.ctr[k].waited = 0]
                    EXCEPT !.net.sock[k] = x]
      BY DEF Snap, NetRec
    <3>3. [s EXCEPT !.net.ctr[k].connected = TRUE, !.net.ctr[k].waited = 0] = a
      BY DEF Snap, NetRec
    <3>2. FDInterConnected(s, k)
          = [s EXCEPT !.net.ctr[k].connected = TRUE, !.net.ctr[k].waited = 0, !.net.sock[k] = v]
      BY <1>2 DEF FDInterConnected
    <3> HIDE DEF a, v
    <3> QED BY <3>1, <3>2, <3>3
  <2> HIDE DEF c, v
  <2>3. Kept(s, a)
    BY <2>1, KeptSockets
  <2> HIDE DEF a
  <2>4. Kept(a, t)
    BY <2>1, <2>3, KeptSockets DEF Kept
  <2> HIDE DEF t
  <2> QED BY <2>2, <2>3, <2>4, KeptTrans
<1> QED BY <1>1, <1>2

LEMMA KeptInterData ==
  ASSUME NEW s \in Snap, NEW k \in Ids, NEW reply, NEW how \in CloseKinds, site \in Sites
  PROVE  Kept(s, FDInterData(s, k, reply, how))
<1> DEFINE K == {k}
           a == disengage(s, K)
<1>1. FDInterData(s, k, reply, how) \in {s, ftpConnectSuccess(s, k), ftpConnectFail(a, K, how)}
  BY DEF FDInterData
<1>2. Kept(s, s) /\ Kept(s, ftpConnectSuccess(s, k))
  BY KeptSuccess DEF Kept
<1> HIDE DEF K
<1>3. Kept(s, a)
  BY KeptSockets
<1> HIDE DEF a
<1>4. Kept(a, ftpConnectFail(a, K, how))
  BY <1>3, KeptFail DEF Kept
<1>5. Kept(s, ftpConnectFail(a, K, how))
  BY <1>3, <1>4 DEF Kept
<1> QED BY <1>1, <1>2, <1>5

LEMMA KeptProxyData ==
  ASSUME NEW s \in Snap, NEW k \in Ids, NEW reply, NEW how \in CloseKinds, site \in Sites,
         s.net.ctr[k].stage \in {"INIT", "SEND", "SEND_CONNECT"}
  PROVE  Kept(s, ProxyData(s, k, reply, how))
<1> DEFINE next == received(s.net.ctr[k].stage, reply)
<1>1. next \in {"ERROR", "SUCCESS", "SEND", "SEND_CONNECT"}
  BY DEF received
<1> HIDE DEF next
<1>2. ASSUME NEW stage \in {"direct", "SEND", "SEND_CONNECT"}
      PROVE  Kept(s, [s EXCEPT !.net.ctr[k].stage = stage])
  <2> DEFINE c == [s.net.ctr[k] EXCEPT !.stage = stage]
  <2>1. [s EXCEPT !.net.ctr[k].stage = stage] = [s EXCEPT !.net.ctr[k] = c]
    BY DEF Snap, NetRec
  <2>2. c \in Connector
    <3>1. s.net.ctr[k] \in Connector
      BY DEF Snap, NetRec
    <3> QED BY <3>1 DEF Connector
  <2> HIDE DEF c
  <2> QED BY <2>1, <2>2, KeptSockets
<1>3. CASE next = "SUCCESS"
  <2> DEFINE a == [s EXCEPT !.net.ctr[k].stage = "direct"]
  <2>1. ProxyData(s, k, reply, how) = FDInterConnected(a, k)
    BY <1>3 DEF ProxyData, next
  <2>2. Kept(s, a)
    BY <1>2
  <2> HIDE DEF a
  <2>3. Kept(a, FDInterConnected(a, k))
    BY <2>2, KeptInterConnected DEF Kept
  <2> QED BY <2>1, <2>2, <2>3, KeptTrans
<1>4. CASE next = "ERROR"
  <2> DEFINE a == CloseSocket(s, k, how)
  <2>1. ProxyData(s, k, reply, how) = ConnectorFail(a, k, how)
    BY <1>4 DEF ProxyData, next
  <2>2. Kept(s, a)
    BY KeptSockets
  <2> HIDE DEF a
  <2>3. Kept(a, ConnectorFail(a, k, how))
    BY <2>2, KeptConnectorFail DEF Kept
  <2> QED BY <2>1, <2>2, <2>3, KeptTrans
<1>5. CASE next \in {"SEND", "SEND_CONNECT"}
  <2>1. ProxyData(s, k, reply, how) = [s EXCEPT !.net.ctr[k].stage = next]
    BY <1>5 DEF ProxyData, next
  <2> QED BY <1>2, <1>5, <2>1
<1> QED BY <1>1, <1>3, <1>4, <1>5

LEMMA KeptHandle ==
  ASSUME NEW s, NEW F, NEW e \in F, Good(s, F), NEW work \in Work, NEW how \in CloseKinds, site \in Sites
  PROVE  Kept(s, Handle(s, e, work, how))
<1> DEFINE k == e.sock
           r == Handle(s, e, work, how)
<1>1. s \in Snap /\ e \in Event /\ k \in Ids /\ s.net.ctr[k] \in Connector /\ k <= s.net.last
  BY EventSock DEF Good, Base
<1>2. s.net.ctr[k].stage # "direct" => s.net.ctr[k].stage \in {"INIT", "SEND", "SEND_CONNECT"}
  <2>1. s.net.ctr[k].stage # "none"
    BY <1>1 DEF Good, Base, NetBase
  <2> QED BY <1>1, <2>1 DEF Connector
<1>3. e.kind \in {"connected", "data", "fail", "disconnected", "ssl"}
      /\ (e.to = "conn" => e.kind # "connected")
  BY <1>1 DEF Event, Good, Base, NetBase
<1>4. CASE e.to = "conn"
  <2>1. r \in {FDData(s, k, e.reply, work, how), FDDisconnected(s, k), FDSSLSuccess(s, k)}
    BY <1>3, <1>4 DEF Handle
  <2> HIDE DEF r
  <2> QED BY <1>1, <2>1, KeptConnEvents DEF r
<1>5. CASE e.to # "conn"
  <2>1. CASE e.kind = "data" /\ s.net.ctr[k].stage # "direct"
    <3>1. r = ProxyData(s, k, e.reply, how)
      BY <1>5, <2>1 DEF Handle
    <3> QED BY <1>1, <1>2, <2>1, <3>1, KeptProxyData
  <2>2. CASE ~(e.kind = "data" /\ s.net.ctr[k].stage # "direct")
    <3>1. r \in {s, FDInterConnected(s, k), FDInterData(s, k, e.reply, how), ConnectorFail(s, k, how)}
      BY <1>3, <1>5, <2>2 DEF Handle
    <3>2. Kept(s, s)
      BY <1>1 DEF Kept
    <3> HIDE DEF r
    <3> QED BY <1>1, <3>1, <3>2, KeptInterConnected, KeptInterData, KeptConnectorFail DEF r
  <2> QED BY <2>1, <2>2
<1> QED BY <1>4, <1>5

LEMMA KeptTick ==
  ASSUME NEW s \in Snap, site \in Sites, NEW t, NEW r,
         t = IF tickIntern(s).conn.state = "CONNECTING" /\ ~tickIntern(s).conn.all
             THEN connectAllAddresses(tickIntern(s)) ELSE tickIntern(s),
         r = IF t.conn.list = {} THEN stopPoke(t) ELSE t
  PROVE  Kept(s, r)
<1> DEFINE late(k) == k \in s.conn.list /\ s.net.ctr[k].waited + 1 >= WelcomeTicks
           w(k) == IF k \notin s.conn.list THEN s.net.ctr[k].waited
                   ELSE IF late(k) THEN WelcomeTicks ELSE s.net.ctr[k].waited + 1
           C == [k \in Ids |-> [s.net.ctr[k] EXCEPT !.waited = w(k)]]
           u == [s EXCEPT !.net.ctr = C]
           K == {k \in s.conn.list : late(k) /\ s.net.ctr[k].engaged /\ s.net.ctr[k].connected}
           v == disengage(u, K)
           a == tickIntern(s)
<1>1. \A k \in Ids : s.net.ctr[k] \in Connector
  BY DEF Snap, NetRec
<1>2. a = ftpConnectFail(v, K, "closed")
  <2>1. [k \in Ids |-> [s.net.ctr[k] EXCEPT !.waited = IF k \notin s.conn.list THEN @
                                              ELSE IF late(k) THEN WelcomeTicks ELSE @ + 1]] = C
    OBVIOUS
  <2> QED BY <2>1 DEF tickIntern
<1>3. C \in [Ids -> Connector]
  <2> SUFFICES ASSUME NEW k \in Ids PROVE [s.net.ctr[k] EXCEPT !.waited = w(k)] \in Connector
    OBVIOUS
  <2>1. s.net.ctr[k].waited \in 0..WelcomeTicks /\ WelcomeTicks \in Nat
    BY <1>1, ConnectAssumption DEF Connector
  <2>2. w(k) \in 0..WelcomeTicks
    BY <2>1
  <2> HIDE DEF w
  <2> QED BY <1>1, <2>2 DEF Connector
<1>4. t = IF a.conn.state = "CONNECTING" /\ ~a.conn.all THEN connectAllAddresses(a) ELSE a
  OBVIOUS
<1> HIDE DEF C, K, a
<1>5. Kept(s, u)
  BY <1>3 DEF Kept, Snap, NetRec
<1> HIDE DEF u
<1>6. Kept(u, v)
  BY <1>5, KeptSockets DEF Kept
<1> HIDE DEF v
<1>7. Kept(v, a)
  BY <1>2, <1>6, KeptFail DEF Kept, CloseKinds
<1>8. Kept(a, t)
  BY <1>4, <1>7, KeptConnectAll DEF Kept
<1>9. Kept(t, r)
  BY <1>8, KeptFields DEF Kept
<1> QED BY <1>5, <1>6, <1>7, <1>8, <1>9, KeptTrans

-----------------------------------------------------------------------------
\* The steps of the specification

QueueOf(s) == {s.net.queue[i] : i \in DOMAIN s.net.queue}

LEMMA SnapFields ==
  ASSUME NEW x \in Snap
  PROVE  x = [conn |-> x.conn, net |-> x.net, cst |-> x.cst]
BY DEF Snap

LEMMA StrongNext ==
  ASSUME NEW STATE x, Sound(x, QueueOf(x)), site \in Sites, UNCHANGED site,
         conn' = x.conn, net' = x.net, cst' = x.cst
  PROVE  ConnectStrong'
<1>1. x \in Snap
  BY DEF Sound, Good, Base
<1>2. Now' = x
  BY <1>1, SnapFields DEF Now
<1>3. OnTheirWay' = QueueOf(x)
  BY DEF OnTheirWay, QueueOf
<1> DEFINE F == QueueOf(x)
<1>4. Base(x, F) /\ (~x.net.stale => Sane(x.conn, x.net, F))
  BY DEF Sound, Good
<1>0. OnTheirWay' = F
  BY <1>3
<1> HIDE DEF F
<1>5. NetBase(Now.net, OnTheirWay)'
  <2>1. NetBase(x.net, F)
    BY <1>4 DEF Base
  <2> QED BY <2>1, <1>0, <1>2 DEF NetBase
<1>6. Base(Now, OnTheirWay)'
  BY <1>2, <1>4, <1>5 DEF Base
<1>7. ASSUME ~x.net.stale PROVE Sane(Now.conn, Now.net, OnTheirWay)'
  <2>1. Sane(x.conn, x.net, F)
    BY <1>4, <1>7
  <2>2. CASE x.conn.state = "CONNECTING"
    <3>1. Attempt(x.net, x.conn.list, F)
      BY <2>1, <2>2 DEF Sane
    <3>2. Attempt(Now.net, Now.conn.list, OnTheirWay)'
      BY <3>1, <1>0, <1>2 DEF Attempt, Ending
    <3> QED BY <1>2, <2>1, <2>2, <3>2 DEF Sane
  <2>3. CASE x.conn.state # "CONNECTING"
    <3>1. Settled(x.conn, x.net, F)
      BY <2>1, <2>3 DEF Sane
    <3>2. Settled(Now.conn, Now.net, OnTheirWay)'
      BY <3>1, <1>0, <1>2 DEF Settled, News
    <3> QED BY <1>2, <2>3, <3>2 DEF Sane
  <2> QED BY <2>2, <2>3
<1>8. Good(Now, OnTheirWay)'
  BY <1>2, <1>6, <1>7 DEF Good
<1>9. Controlled(conn, cst)'
  <2>1. Controlled(x.conn, x.cst)
    BY DEF Sound
  <2> QED BY <2>1 DEF Controlled, Held, Waits
<1> QED BY <1>8, <1>9 DEF ConnectStrong

LEMMA StrongNow ==
  ASSUME ConnectStrong
  PROVE  site \in Sites /\ Sound(Now, OnTheirWay) /\ OnTheirWay = QueueOf(Now) /\ Now \in Snap
         /\ Now.conn = conn /\ Now.net = net /\ Now.cst = cst
<1>1. Now.conn = conn /\ Now.net = net /\ Now.cst = cst
  BY DEF Now
<1> QED BY <1>1 DEF ConnectStrong, Sound, OnTheirWay, QueueOf, Good, Base

LEMMA BecomeLast ==
  ASSUME NEW STATE x, Become(x), site \in Sites PROVE x.net.last <= MaxConnectors
<1> DEFINE reserved == IF x.conn.state = "CONNECTING" /\ ~x.conn.all THEN site.addresses - 1 ELSE 0
<1>1. x.net.last \in 0..(MaxConnectors - reserved)
  BY DEF Become
<1>2. reserved \in Nat /\ MaxConnectors \in Nat
  BY ConnectAssumption
<1> HIDE DEF reserved
<1> QED BY <1>1, <1>2

LEMMA BecomeStrong ==
  ASSUME NEW STATE x, ConnectStrong, Become(x), Sound(x, OnTheirWay), Kept(Now, x)
  PROVE  ConnectStrong'
<1>1. OnTheirWay = QueueOf(x)
  BY StrongNow DEF Kept, QueueOf
<1>2. Sound(x, QueueOf(x))
  BY <1>1
<1> QED BY <1>2, StrongNow, StrongNext DEF Become

LEMMA CloseWaysKinds == CloseWays \subseteq CloseKinds
BY DEF CloseWays, CloseKinds

LEMMA ActivateStrong == ASSUME ConnectStrong, Activate PROVE ConnectStrong'
<1>1. site \in Sites /\ Sound(Now, OnTheirWay) /\ Now \in Snap /\ Now.conn = conn /\ Now.cst = cst
  BY StrongNow
<1>2. CASE conn.state = "DISCONNECTED" /\ Become(login(ClearCommand(Now)))
  <2> DEFINE c == ClearCommand(Now)
             t == login(c)
  <2>1. /\ Sound(c, OnTheirWay) /\ c.conn = conn /\ c.cst.command = "none"
        /\ c.cst.locked = cst.locked /\ c.cst.loggedin = cst.loggedin
    BY <1>1, ClearSound
  <2>2. Kept(Now, c)
    BY <1>1, KeptFields
  <2>3. ~cst.locked /\ ~cst.loggedin
    BY <1>2 DEF ConnectStrong, Controlled
  <2> HIDE DEF c
  <2>4. Kept(c, t)
    BY <2>2, KeptLogin DEF Kept
  <2>5. t.net.last <= MaxConnectors
    BY <1>1, <1>2, BecomeLast DEF c
  <2>6. Sound(t, OnTheirWay)
    BY <1>2, <2>1, <2>3, <2>5, LoginSound DEF Waits
  <2>7. Become(t)
    BY <1>2 DEF c
  <2> HIDE DEF t
  <2>8. Kept(Now, t)
    BY <2>2, <2>4, KeptTrans
  <2> QED BY <2>6, <2>7, <2>8, BecomeStrong
<1>3. ASSUME NEW work \in Work, conn.state # "DISCONNECTED", Become(handleConnection(Now, work))
      PROVE  ConnectStrong'
  <2> DEFINE t == handleConnection(Now, work)
  <2>1. Sound(t, OnTheirWay) /\ Kept(Now, t)
    BY <1>1, <1>3, WorkSound, KeptHandleConnection
  <2>2. Become(t)
    BY <1>3
  <2> HIDE DEF t
  <2> QED BY <2>1, <2>2, BecomeStrong
<1> QED BY <1>2, <1>3 DEF Activate

LEMMA DisconnectStrong == ASSUME ConnectStrong, Disconnect PROVE ConnectStrong'
<1>1. Sound(Now, OnTheirWay) /\ Now \in Snap
  BY StrongNow
<1>2. ASSUME NEW hard \in BOOLEAN, NEW how \in CloseWays, Become(disconnectConn(Now, hard, how))
      PROVE  ConnectStrong'
  <2> DEFINE t == disconnectConn(Now, hard, how)
  <2>1. how \in CloseKinds
    BY CloseWaysKinds
  <2>2. Sound(t, OnTheirWay) /\ Kept(Now, t)
    BY <1>1, <2>1, DisconnectSound, KeptDisconnectConn
  <2>3. Become(t)
    BY <1>2
  <2> HIDE DEF t
  <2> QED BY <2>2, <2>3, BecomeStrong
<1> QED BY <1>2 DEF Disconnect

LEMMA TransferGoesOnStrong == ASSUME ConnectStrong, TransferGoesOn PROVE ConnectStrong'
<1>1. Sound(Now, OnTheirWay) /\ Now \in Snap /\ Now.conn = conn /\ Now.cst = cst
  BY StrongNow
<1>2. cst.locked /\ ~conn.processing
  BY DEF TransferGoesOn
<1>3. conn.state = "IDLE" /\ ~Waits(cst)
  BY <1>2 DEF ConnectStrong, Controlled, Held
<1>4. CASE Become(ClearCommand(Send(Now, "COMMAND")))
  <2> DEFINE b == Send(Now, "COMMAND")
             t == ClearCommand(b)
  <2>1. "COMMAND" \in ConnStates /\ "IDLE" \in Active
    BY DEF ConnStates, Active
  <2>2. Sound(b, OnTheirWay)
    BY <1>1, <1>2, <1>3, <2>1, SendSound
  <2>3. Kept(Now, b)
    BY <1>1, <2>1, KeptFields
  <2> HIDE DEF b
  <2>4. Sound(t, OnTheirWay)
    BY <2>2, ClearSound
  <2>5. Kept(b, t)
    BY <2>3, KeptFields DEF Kept
  <2>6. Become(t)
    BY <1>4 DEF b
  <2> HIDE DEF t
  <2>7. Kept(Now, t)
    BY <2>3, <2>5, KeptTrans
  <2> QED BY <2>4, <2>6, <2>7, BecomeStrong
<1>5. CASE Become([Now EXCEPT !.cst.locked = FALSE])
  <2> DEFINE t == [Now EXCEPT !.cst.locked = FALSE]
  <2>1. cleanupConnection(Now) = t
    BY DEF cleanupConnection
  <2>2. /\ t \in Snap /\ t.net = Now.net /\ t.conn = Now.conn
        /\ t.cst.command = Now.cst.command /\ t.cst.locked = FALSE
        /\ t.cst.loggedin = Now.cst.loggedin /\ t.cst.early = Now.cst.early
        /\ t.cst.persisting = Now.cst.persisting
    BY <1>1, <2>1, CleanupShape
  <2>3. Kept(Now, t)
    BY <2>2 DEF Kept
  <2>4. Become(t)
    BY <1>5
  <2> HIDE DEF t
  <2>5. Good(t, OnTheirWay)
    BY <1>1, <2>2, MovesGood DEF Moves, Sound
  <2>6. Controlled(t.conn, t.cst)
    BY <1>1, <2>2 DEF Controlled, Held, Waits, Sound
  <2>7. Sound(t, OnTheirWay)
    BY <2>5, <2>6 DEF Sound
  <2> QED BY <2>3, <2>4, <2>7, BecomeStrong
<1> QED BY <1>4, <1>5 DEF TransferGoesOn

LEMMA IdleRequestStrong == ASSUME ConnectStrong, IdleRequest PROVE ConnectStrong'
<1>1. Sound(Now, OnTheirWay) /\ Now \in Snap /\ Now.conn = conn /\ Now.cst = cst
  BY StrongNow
<1>2. cst.loggedin /\ ~cst.locked /\ ~conn.processing
  BY DEF IdleRequest
<1>3. conn.state = "IDLE"
  BY <1>2 DEF ConnectStrong, Controlled
<1> DEFINE c == ClearCommand(Now)
<1>4. /\ Sound(c, OnTheirWay) /\ c.conn = conn /\ c.cst.command = "none"
      /\ c.cst.locked = cst.locked /\ c.cst.loggedin = cst.loggedin
  BY <1>1, ClearSound
<1>5. Kept(Now, c)
  BY <1>1, KeptFields
<1>6. ASSUME NEW work \in Work, NEW command \in {"quit", "antiantiidle"},
             Become(IF handleConnection(c, work).conn.processing THEN handleConnection(c, work)
                    ELSE delayedCommand(handleConnection(c, work), command, FALSE))
      PROVE  ConnectStrong'
  <2> HIDE DEF c
  <2> DEFINE h == handleConnection(c, work)
             d == delayedCommand(h, command, FALSE)
  <2>0. c \in Snap /\ c.conn.state # "DISCONNECTED"
    BY <1>3, <1>4, <1>5 DEF Kept
  <2>1. Sound(h, OnTheirWay) /\ Kept(c, h)
    BY <1>4, <2>0, WorkSound, KeptHandleConnection
  <2>2. h.cst.loggedin /\ (h.conn.processing \/ h.conn = c.conn)
    BY <1>2, <1>4, <2>0, HandleConnectionShape
  <2>3. Become(IF h.conn.processing THEN h ELSE d)
    BY <1>6
  <2> HIDE DEF h
  <2>4. Kept(Now, h) /\ h \in Snap
    BY <1>5, <2>1, KeptTrans DEF Kept
  <2>5. CASE h.conn.processing
    <3>1. Become(h)
      BY <2>3, <2>5
    <3> QED BY <2>1, <2>4, <3>1, BecomeStrong
  <2>6. CASE ~h.conn.processing
    <3>1. Become(d)
      BY <2>3, <2>6
    <3>2. command \in Delayed /\ FALSE \in BOOLEAN
      BY DEF Delayed
    <3>3. /\ d \in Snap /\ d.net = h.net /\ d.conn = h.conn
          /\ d.cst.command = command /\ d.cst.locked = h.cst.locked
          /\ d.cst.loggedin = h.cst.loggedin /\ d.cst.persisting = FALSE
          /\ d.cst.early = (h.cst.locked \/ h.conn.processing)
      BY <2>4, <3>2, DelayedShape
    <3> HIDE DEF d
    <3>4. Good(d, OnTheirWay)
      BY <2>1, <3>3, MovesGood DEF Moves, Sound
    <3>5. Waits(d.cst) => ~d.cst.locked /\ ~d.conn.processing
      BY <2>6, <3>3 DEF Waits
    <3>6. Controlled(d.conn, d.cst)
      BY <2>1, <2>2, <3>3, <3>5 DEF Controlled, Held, Sound
    <3>7. Sound(d, OnTheirWay) /\ Kept(Now, d)
      BY <2>4, <3>3, <3>4, <3>6 DEF Sound, Kept
    <3> QED BY <3>1, <3>7, BecomeStrong
  <2> QED BY <2>5, <2>6
<1> QED BY <1>6 DEF IdleRequest

LEMMA ConnTickStrong == ASSUME ConnectStrong, ConnTick PROVE ConnectStrong'
<1>1. site \in Sites /\ Sound(Now, OnTheirWay) /\ Now \in Snap
  BY StrongNow
<1> DEFINE a == tickIntern(Now)
           t == IF a.conn.state = "CONNECTING" /\ ~a.conn.all THEN connectAllAddresses(a) ELSE a
           r == IF t.conn.list = {} THEN stopPoke(t) ELSE t
<1>2. Become(r)
  BY DEF ConnTick
<1>3. t = (IF tickIntern(Now).conn.state = "CONNECTING" /\ ~tickIntern(Now).conn.all
           THEN connectAllAddresses(tickIntern(Now)) ELSE tickIntern(Now))
  OBVIOUS
<1> HIDE DEF a, t
<1>4. r = (IF t.conn.list = {} THEN stopPoke(t) ELSE t)
  OBVIOUS
<1> HIDE DEF r
<1>5. r.net.last <= MaxConnectors
  BY <1>1, <1>2, BecomeLast
<1>6. Good(r, OnTheirWay)
  BY <1>1, <1>3, <1>4, <1>5, TickGood DEF Sound
<1>7. Controlled(r.conn, r.cst)
  BY <1>1, <1>3, <1>4, TickCtl DEF Sound
<1>8. Kept(Now, r)
  BY <1>1, <1>3, <1>4, KeptTick
<1> QED BY <1>2, <1>6, <1>7, <1>8, BecomeStrong DEF Sound

LEMMA CommandReleasedStrong == ASSUME ConnectStrong, CommandReleased PROVE ConnectStrong'
<1>1. site \in Sites /\ Sound(Now, OnTheirWay) /\ Now \in Snap /\ Now.conn = conn /\ Now.cst = cst
      /\ cst.command \in Delayed
  BY StrongNow DEF Snap, CstRec
<1> DEFINE c == ClearCommand(Now)
<1>2. /\ Sound(c, OnTheirWay) /\ c.conn = conn /\ c.cst.command = "none"
      /\ c.cst.locked = cst.locked /\ c.cst.loggedin = cst.loggedin
  BY <1>1, ClearSound
<1>3. Kept(Now, c) /\ c \in Snap
  BY <1>1, KeptFields DEF Kept
<1>4. Held(conn, cst)
  BY DEF ConnectStrong, Controlled
<1>5. ASSUME NEW work \in Work, NEW how \in CloseWays,
             Become(CASE cst.command = "reconnect" -> login(disconnect(c, how))
                      [] cst.command = "antiantiidle" -> antiAntiIdle(c, work)
                      [] cst.command = "quit" -> disconnectConn(c, FALSE, how))
      PROVE  ConnectStrong'
  <2>0. how \in CloseKinds
    BY CloseWaysKinds
  <2> HIDE DEF c
  <2>1. CASE cst.command = "reconnect"
    <3> DEFINE d == disconnect(c, how)
               t == login(d)
    <3>1. Become(t)
      BY <1>5, <2>1
    <3>2. ~c.cst.locked /\ ~c.cst.loggedin
      BY <1>2, <1>4, <2>1 DEF Held, Waits
    <3>3. Good(d, OnTheirWay) /\ d.cst = c.cst /\ d.conn.state = "DISCONNECTED"
      BY <1>2, <2>0, DisconnectGood DEF Sound
    <3>4. Kept(c, d)
      BY <1>3, <2>0, KeptDisconnect
    <3> HIDE DEF d
    <3>5. Controlled(d.conn, d.cst)
      BY <1>2, <3>2, <3>3 DEF Controlled, Held, Waits
    <3>6. Kept(d, t)
      BY <3>4, KeptLogin DEF Kept
    <3>7. t.net.last <= MaxConnectors
      BY <1>1, <3>1, BecomeLast
    <3>8. Sound(t, OnTheirWay)
      BY <1>2, <3>2, <3>3, <3>5, <3>7, LoginSound DEF Sound, Waits
    <3> HIDE DEF t
    <3>9. Kept(Now, t)
      BY <1>3, <3>4, <3>6, KeptTrans
    <3> QED BY <3>1, <3>8, <3>9, BecomeStrong
  <2>2. CASE cst.command = "antiantiidle"
    <3> DEFINE h == handleConnection(c, work)
               g == handleConnection(h, "command")
               t == antiAntiIdle(c, work)
    <3>1. Become(t) /\ t \in {h, g}
      BY <1>5, <2>2 DEF antiAntiIdle
    <3>2. c.conn.state # "DISCONNECTED"
      BY <1>2, <1>4, <2>2 DEF Held, Controlled, Sound
    <3>3. Sound(h, OnTheirWay) /\ Kept(c, h)
      BY <1>2, <1>3, <3>2, WorkSound, KeptHandleConnection
    <3>4. h.conn.state # "DISCONNECTED"
      BY <1>3, <3>2, HandleConnectionShape
    <3>5. "command" \in Work
      BY DEF Work
    <3> HIDE DEF h
    <3>6. Sound(g, OnTheirWay) /\ Kept(h, g)
      BY <3>3, <3>4, <3>5, WorkSound, KeptHandleConnection DEF Kept
    <3> HIDE DEF g, t
    <3>7. Kept(Now, h) /\ Kept(Now, g)
      BY <1>3, <3>3, <3>6, KeptTrans
    <3>8. Sound(t, OnTheirWay) /\ Kept(Now, t)
      BY <3>1, <3>3, <3>6, <3>7
    <3> QED BY <3>1, <3>8, BecomeStrong
  <2>3. CASE cst.command = "quit"
    <3> DEFINE t == disconnectConn(c, FALSE, how)
    <3>1. Become(t)
      BY <1>5, <2>3
    <3>2. Sound(t, OnTheirWay) /\ Kept(c, t)
      BY <1>2, <1>3, <2>0, DisconnectSound, KeptDisconnectConn
    <3> HIDE DEF t
    <3>3. Kept(Now, t)
      BY <1>3, <3>2, KeptTrans
    <3> QED BY <3>1, <3>2, <3>3, BecomeStrong
  <2>4. cst.command # "none"
    BY DEF CommandReleased
  <2> QED BY <1>1, <2>1, <2>2, <2>3, <2>4 DEF Delayed
<1> QED BY <1>5 DEF CommandReleased

\* What waits in the queue matters to a handler only through the set E.
LEMMA QueueSound ==
  ASSUME NEW s, NEW E, Sound(s, E), NEW Q \in Seq(Event)
  PROVE  LET t == [s EXCEPT !.net.queue = Q]
         IN  Sound(t, E) /\ t.net.queue = Q /\ t.conn = s.conn /\ t.cst = s.cst
<1> DEFINE t == [s EXCEPT !.net.queue = Q]
<1>1. s \in Snap
  BY DEF Sound, Good, Base
<1>2. /\ t \in Snap /\ t.conn = s.conn /\ t.cst = s.cst /\ t.net.queue = Q
      /\ t.net.sock = s.net.sock /\ t.net.owner = s.net.owner /\ t.net.last = s.net.last
      /\ t.net.ctr = s.net.ctr /\ t.net.deaf = s.net.deaf /\ t.net.stale = s.net.stale
  BY <1>1 DEF Snap, NetRec
<1> HIDE DEF t
<1>3. Base(t, E)
  BY <1>2 DEF Sound, Good, Base, NetBase
<1>4. ASSUME ~t.net.stale PROVE Sane(t.conn, t.net, E)
  <2>1. Sane(s.conn, s.net, E)
    BY <1>2, <1>4 DEF Sound, Good
  <2>2. CASE s.conn.state = "CONNECTING"
    <3>1. Attempt(s.net, s.conn.list, E)
      BY <2>1, <2>2 DEF Sane
    <3>2. Attempt(t.net, t.conn.list, E)
      BY <1>2, <3>1 DEF Attempt, Ending
    <3> QED BY <1>2, <2>1, <2>2, <3>2 DEF Sane
  <2>3. CASE s.conn.state # "CONNECTING"
    <3>1. Settled(s.conn, s.net, E)
      BY <2>1, <2>3 DEF Sane
    <3>2. Settled(t.conn, t.net, E)
      BY <1>2, <3>1 DEF Settled
    <3> QED BY <1>2, <2>3, <3>2 DEF Sane
  <2> QED BY <2>2, <2>3
<1> QED BY <1>2, <1>3, <1>4 DEF Sound, Good, t

LEMMA DispatchStrong == ASSUME ConnectStrong, Dispatch PROVE ConnectStrong'
<1>1. site \in Sites /\ Sound(Now, OnTheirWay) /\ Now \in Snap /\ Now.net = net
      /\ net.queue \in Seq(Event)
  BY StrongNow DEF Snap, NetRec
<1> DEFINE e == Head(net.queue)
           Q == Tail(net.queue)
           s == [Now EXCEPT !.net.queue = Q]
           F == OnTheirWay
<1>2. net.queue # << >>
  BY DEF Dispatch
<1>3. Q \in Seq(Event) /\ Len(Q) = Len(net.queue) - 1 /\ Len(net.queue) \in Nat \ {0}
      /\ \A i \in 1..Len(Q) : Q[i] = net.queue[i + 1]
  BY <1>1, <1>2
<1>4. Sound(s, F) /\ s.net.queue = Q
  BY <1>1, <1>3, QueueSound
<1>5. QueueOf(s) = {Q[i] : i \in 1..Len(Q)} /\ F = {net.queue[i] : i \in 1..Len(net.queue)}
  <2>1. DOMAIN net.queue = 1..Len(net.queue) /\ DOMAIN Q = 1..Len(Q)
    BY <1>1, <1>3
  <2> HIDE DEF s, Q
  <2>2. QueueOf(s) = {Q[i] : i \in 1..Len(Q)}
    BY <1>4, <2>1 DEF QueueOf
  <2> QED BY <2>1, <2>2 DEF OnTheirWay
<1>6. QueueOf(s) \subseteq F
  <2>1. \A i \in 1..Len(Q) : i + 1 \in 1..Len(net.queue)
    BY <1>3
  <2> QED BY <1>3, <1>5, <2>1
<1>7. F \subseteq QueueOf(s) \cup {e}
  <2>1. ASSUME NEW i \in 1..Len(net.queue) PROVE net.queue[i] \in QueueOf(s) \cup {e}
    <3>1. CASE i = 1
      BY <1>1, <1>2, <3>1
    <3>2. CASE i # 1
      <4>1. i - 1 \in 1..Len(Q) /\ (i - 1) + 1 = i
        BY <1>3, <3>2
      <4>2. Q[i - 1] = net.queue[i]
        BY <1>3, <4>1
      <4> QED BY <1>5, <4>1, <4>2
    <3> QED BY <3>1, <3>2
  <2> QED BY <1>5, <2>1
<1>8. e \in F
  <2>1. 1 \in 1..Len(net.queue) /\ e = net.queue[1]
    BY <1>1, <1>2, <1>3
  <2> QED BY <1>5, <2>1
<1>9. ASSUME NEW work \in IF e.to = "conn" THEN Work ELSE {"nothing"}, NEW how \in CloseWays,
             Become(Handle(s, e, work, how))
      PROVE  ConnectStrong'
  <2> HIDE DEF s, e, F
  <2> DEFINE t == Handle(s, e, work, how)
             E == QueueOf(s)
  <2>1. work \in Work /\ how \in CloseKinds
    BY CloseWaysKinds DEF Work
  <2>2. Become(t)
    BY <1>9
  <2>3. t.net.last <= MaxConnectors
    BY <1>1, <2>2, BecomeLast
  <2>4. Good(t, E)
    BY <1>1, <1>4, <1>6, <1>7, <1>8, <2>1, <2>3, HandleGood DEF Sound
  <2>5. Controlled(t.conn, t.cst)
    BY <1>1, <1>4, <1>8, <2>1, HandleCtl DEF Sound
  <2>6. Kept(s, t)
    BY <1>1, <1>4, <1>8, <2>1, KeptHandle DEF Sound
  <2> HIDE DEF t
  <2>7. Sound(t, QueueOf(t))
    BY <2>4, <2>5, <2>6 DEF Sound, Kept, QueueOf
  <2> QED BY <1>1, <2>2, <2>7, StrongNext DEF Become
<1>10. [Now EXCEPT !.net.queue = Tail(@)] = s
  BY <1>1
<1> QED BY <1>9, <1>10 DEF Dispatch

\* An event e that socket k sends on its way as it goes from a state to v.
SockStep(old, v, kind) ==
  /\ v \in {"up", "negotiating", "closing", "closed"} /\ old \notin {"none", "closed"}
  /\ v \in Open => old \in Open
  /\ kind \in {"connected", "fail"} => old = "connecting"
  /\ kind \in {"disconnected", "fail"} => v = "closed"
  /\ old = "connecting" => kind = IF v = "closed" THEN "fail" ELSE "connected"
  /\ v \in {"closing", "closed"} => old = v \/ kind \in {"disconnected", "fail"}

LEMMA SockStepGood ==
  ASSUME NEW s, NEW E, Good(s, E), NEW k \in Ids, NEW v, NEW e \in Event, e.sock = k,
         e.to = s.net.owner[k], SockStep(s.net.sock[k], v, e.kind)
  PROVE  LET t == [s EXCEPT !.net.sock[k] = v] IN Good(t, E \cup {e}) /\ t.conn = s.conn /\ t.cst = s.cst
<1> DEFINE t == [s EXCEPT !.net.sock[k] = v]
           G == E \cup {e}
<1>1. s \in Snap /\ s.conn.list \subseteq 1..s.net.last /\ NetBase(s.net, E) /\ v \in SocketState
      /\ s.net.last \in Nat
  BY DEF Good, Base, SockStep, SocketState, Snap, NetRec
<1>2. /\ t \in Snap /\ t.conn = s.conn /\ t.cst = s.cst /\ SameRest(s, t)
      /\ t.net.ctr = s.net.ctr /\ t.net.last = s.net.last
      /\ \A j \in Ids : t.net.sock[j] = IF j = k THEN v ELSE s.net.sock[j]
  BY <1>1, SockUpdate
<1> HIDE DEF t
<1>3. k <= s.net.last
  BY <1>1 DEF NetBase, SockStep, Ids
<1>4. \A f \in E : f \in Event /\ f.sock \in Ids
  BY <1>1 DEF NetBase, Event
<1>5. NetBase(t.net, G)
  <2>1. /\ t.net.last <= MaxConnectors
        /\ \A j \in Ids : j > t.net.last =>
             t.net.sock[j] = "none" /\ t.net.owner[j] = "connector" /\ ~t.net.ctr[j].engaged
    BY <1>1, <1>2, <1>3 DEF NetBase, SameRest, Ids
  <2>2. \A j \in Ids : j <= t.net.last =>
       /\ t.net.sock[j] # "none" /\ t.net.ctr[j].stage # "none"
       /\ t.net.ctr[j].engaged \/ t.net.ctr[j].stage = "direct"
       /\ site.proxy = "none" => t.net.ctr[j].stage = "direct"
    BY <1>1, <1>2 DEF NetBase, SockStep
  <2>3. \A j \in Ids : t.net.owner[j] = "conn" => ~t.net.ctr[j].engaged /\ t.net.sock[j] # "connecting"
    BY <1>1, <1>2 DEF NetBase, SameRest, SockStep
  <2>4. G \subseteq Event
    BY <1>4
  <2>5. ASSUME NEW f \in E
        PROVE  /\ f.sock <= t.net.last /\ t.net.sock[f.sock] # "connecting"
               /\ f.to = "conn" => t.net.owner[f.sock] = "conn" /\ f.kind # "connected"
               /\ f.kind \in {"disconnected", "fail"} => t.net.sock[f.sock] = "closed"
    BY <1>1, <1>2, <1>4 DEF NetBase, SameRest, SockStep
  <2>6. /\ e.sock <= t.net.last /\ t.net.sock[e.sock] # "connecting"
        /\ e.to = "conn" => t.net.owner[e.sock] = "conn" /\ e.kind # "connected"
        /\ e.kind \in {"disconnected", "fail"} => t.net.sock[e.sock] = "closed"
    BY <1>1, <1>2, <1>3 DEF NetBase, SameRest, SockStep
  <2> QED BY <2>1, <2>2, <2>3, <2>4, <2>5, <2>6 DEF NetBase
<1>6. ASSUME ~t.net.stale PROVE Sane(t.conn, t.net, G)
  <2>1. Sane(s.conn, s.net, E)
    BY <1>2, <1>6 DEF Good, SameRest
  <2>2. \A j \in Ids : t.net.sock[j] \in Open => s.net.sock[j] \in Open
    BY <1>2 DEF SockStep
  <2>3. CASE s.conn.state = "CONNECTING"
    <3>1. Attempt(s.net, s.conn.list, E)
      BY <2>1, <2>3 DEF Sane
    <3>2. ASSUME site.proxy = "none", NEW j \in s.conn.list, j \in Ids PROVE Ending(t.net, j, G)
      <4>1. Ending(s.net, j, E)
        BY <3>1, <3>2 DEF Attempt
      <4>2. CASE j # k
        BY <1>2, <3>2, <4>1, <4>2 DEF Ending
      <4>3. CASE j = k /\ e.kind \in {"connected", "disconnected", "fail"}
        BY <1>2, <4>3 DEF Ending, SockStep
      <4>4. CASE j = k /\ e.kind \notin {"connected", "disconnected", "fail"}
        <5>1. s.net.sock[k] # "connecting"
          BY <4>4 DEF SockStep
        <5>2. t.net.sock[k] \in {"up", "negotiating"} <=> s.net.sock[k] \in {"up", "negotiating"}
          BY <1>2, <4>4, <5>1 DEF SockStep, Open
        <5> QED BY <1>2, <4>1, <4>4, <5>1, <5>2 DEF Ending
      <4> QED BY <4>2, <4>3, <4>4
    <3>3. s.conn.list \subseteq Ids
      <4>1. s.net.last <= MaxConnectors /\ MaxConnectors \in Nat
        BY <1>1, ConnectAssumption DEF NetBase
      <4> QED BY <1>1, <4>1 DEF Ids
    <3>4. Attempt(t.net, t.conn.list, G)
      BY <1>2, <2>2, <3>1, <3>2, <3>3 DEF Attempt
    <3> QED BY <1>2, <2>1, <2>3, <3>4 DEF Sane
  <2>4. CASE s.conn.state # "CONNECTING"
    <3>1. Settled(s.conn, s.net, E)
      BY <2>1, <2>4 DEF Sane
    <3>2. ASSUME s.conn.state \in Active, ~t.net.deaf
          PROVE  t.net.sock[s.conn.sock] \in {"up", "negotiating"} \/ \E f \in G : News(s.conn, f)
      <4>1. /\ s.conn.sock \in Ids /\ s.net.owner[s.conn.sock] = "conn"
            /\ s.net.sock[s.conn.sock] \in {"up", "negotiating"} \/ \E f \in E : News(s.conn, f)
        BY <1>2, <3>1, <3>2 DEF Settled, SameRest
      <4>2. s.net.sock[s.conn.sock] # "connecting"
        BY <1>1, <4>1 DEF NetBase
      <4>3. CASE s.conn.sock = k /\ e.kind = "disconnected"
        BY <4>1, <4>3 DEF News
      <4>4. CASE s.conn.sock # k \/ e.kind # "disconnected"
        BY <1>2, <4>1, <4>2, <4>4 DEF SockStep
      <4> QED BY <4>3, <4>4
    <3>3. Settled(t.conn, t.net, G)
      BY <1>2, <2>2, <3>1, <3>2 DEF Settled, SameRest
    <3> QED BY <1>2, <2>4, <3>3 DEF Sane
  <2> QED BY <2>3, <2>4
<1> QED BY <1>1, <1>2, <1>5, <1>6 DEF Good, Base, t

LEMMA LingerGood ==
  ASSUME NEW s, NEW E, Good(s, E), NEW k \in Ids, s.net.sock[k] = "closing"
  PROVE  LET t == [s EXCEPT !.net.sock[k] = "closed"]
         IN  Good(t, E) /\ t.conn = s.conn /\ t.cst = s.cst
<1> DEFINE t == [s EXCEPT !.net.sock[k] = "closed"]
<1>1. s \in Snap /\ s.conn.list \subseteq 1..s.net.last /\ NetBase(s.net, E) /\ "closed" \in SocketState
      /\ s.net.last \in Nat
  BY DEF Good, Base, SocketState, Snap, NetRec
<1>2. /\ t \in Snap /\ t.conn = s.conn /\ t.cst = s.cst /\ SameRest(s, t)
      /\ t.net.ctr = s.net.ctr /\ t.net.last = s.net.last
      /\ \A j \in Ids : t.net.sock[j] = IF j = k THEN "closed" ELSE s.net.sock[j]
  BY <1>1, SockUpdate
<1> HIDE DEF t
<1>3. \A f \in E : f \in Event /\ f.sock \in Ids
  BY <1>1 DEF NetBase, Event
<1>4. NetBase(t.net, E)
  BY <1>1, <1>2, <1>3 DEF NetBase, SameRest
<1>5. ASSUME ~t.net.stale PROVE Sane(t.conn, t.net, E)
  <2>1. Sane(s.conn, s.net, E)
    BY <1>2, <1>5 DEF Good, SameRest
  <2>2. \A j \in Ids : t.net.sock[j] \in Open => s.net.sock[j] \in Open
    BY <1>2 DEF Open
  <2>3. \A j \in Ids : s.net.sock[j] \in {"connecting", "up", "negotiating"} => t.net.sock[j] = s.net.sock[j]
    BY <1>2
  <2>4. CASE s.conn.state = "CONNECTING"
    <3>1. Attempt(s.net, s.conn.list, E)
      BY <2>1, <2>4 DEF Sane
    <3>2. s.conn.list \subseteq Ids
      <4>1. s.net.last <= MaxConnectors /\ MaxConnectors \in Nat
        BY <1>1, ConnectAssumption DEF NetBase
      <4> QED BY <1>1, <4>1 DEF Ids
    <3>3. Attempt(t.net, t.conn.list, E)
      BY <1>2, <2>2, <2>3, <3>1, <3>2 DEF Attempt, Ending
    <3> QED BY <1>2, <2>1, <2>4, <3>3 DEF Sane
  <2>5. CASE s.conn.state # "CONNECTING"
    <3>1. Settled(s.conn, s.net, E)
      BY <2>1, <2>5 DEF Sane
    <3>2. Settled(t.conn, t.net, E)
      BY <1>2, <2>2, <2>3, <3>1 DEF Settled, SameRest
    <3> QED BY <1>2, <2>5, <3>2 DEF Sane
  <2> QED BY <2>4, <2>5
<1> QED BY <1>1, <1>2, <1>4, <1>5 DEF Good, Base, t

LEMMA AppendWay ==
  ASSUME NEW q \in Seq(Event), NEW e \in Event
  PROVE  LET r == Append(q, e)
         IN  r \in Seq(Event) /\ {r[i] : i \in DOMAIN r} = {q[i] : i \in DOMAIN q} \cup {e}
<1> DEFINE r == Append(q, e)
<1>1. r \in Seq(Event) /\ Len(r) = Len(q) + 1 /\ Len(q) \in Nat /\ r[Len(q) + 1] = e
      /\ \A i \in 1..Len(q) : r[i] = q[i]
  OBVIOUS
<1>2. DOMAIN r = 1..(Len(q) + 1) /\ DOMAIN q = 1..Len(q)
  BY <1>1
<1> HIDE DEF r
<1>3. ASSUME NEW i \in DOMAIN r PROVE r[i] \in {q[j] : j \in DOMAIN q} \cup {e}
  <2>1. i = Len(q) + 1 \/ i \in 1..Len(q)
    BY <1>1, <1>2
  <2> QED BY <1>1, <1>2, <2>1
<1>4. ASSUME NEW j \in DOMAIN q PROVE q[j] \in {r[i] : i \in DOMAIN r}
  <2>1. j \in DOMAIN r /\ q[j] = r[j]
    BY <1>1, <1>2
  <2> QED BY <2>1
<1>5. e \in {r[i] : i \in DOMAIN r}
  <2>1. Len(q) + 1 \in DOMAIN r /\ r[Len(q) + 1] = e
    BY <1>1, <1>2
  <2> QED BY <2>1
<1>6. {r[i] : i \in DOMAIN r} = {q[i] : i \in DOMAIN q} \cup {e}
  BY <1>3, <1>4, <1>5
<1> QED BY <1>1, <1>6 DEF r

\* A socket that puts an event on its way.
LEMMA PutStrong ==
  ASSUME ConnectStrong, NEW k \in Ids, NEW v, NEW kind \in {"connected", "data", "fail", "disconnected", "ssl"},
         NEW reply \in Replies, SockStep(net.sock[k], v, kind),
         net' = Put([net EXCEPT !.sock[k] = v], k, kind, reply), UNCHANGED <<site, conn, cst>>
  PROVE  ConnectStrong'
<1>1. site \in Sites /\ Sound(Now, OnTheirWay) /\ Now \in Snap /\ Now.net = net /\ OnTheirWay = QueueOf(Now)
      /\ Now.conn = conn /\ Now.cst = cst
  BY StrongNow
<1> DEFINE e == [kind |-> kind, sock |-> k, to |-> net.owner[k], reply |-> reply]
           s == [Now EXCEPT !.net.sock[k] = v]
           Q == Append(net.queue, e)
           x == [s EXCEPT !.net.queue = Q]
<1>2. net \in NetRec /\ net.owner[k] \in {"connector", "conn"} /\ net.queue \in Seq(Event) /\ v \in SocketState
  BY <1>1 DEF Snap, NetRec, SockStep, SocketState
<1>3. e \in Event /\ e.sock = k /\ e.to = Now.net.owner[k] /\ e.kind = kind
  BY <1>1, <1>2 DEF Event
<1>4. net' = [net EXCEPT !.sock[k] = v, !.queue = Q]
  <2>1. \A y : [[net EXCEPT !.sock[k] = v] EXCEPT !.queue = y] = [net EXCEPT !.sock[k] = v, !.queue = y]
    BY <1>2 DEF NetRec
  <2>2. LET n == [net EXCEPT !.sock[k] = v] IN n.owner = net.owner /\ n.queue = net.queue
    BY <1>2 DEF NetRec
  <2> QED BY <2>1, <2>2 DEF Put
<1>5. s.net.queue = net.queue /\ s.net = [net EXCEPT !.sock[k] = v]
  BY <1>1, <1>2 DEF Snap, NetRec
<1> HIDE DEF e
<1>6. Q \in Seq(Event) /\ {Q[i] : i \in DOMAIN Q} = OnTheirWay \cup {e}
  BY <1>2, <1>3, AppendWay DEF OnTheirWay
<1>7. x.net = net'
  <2>1. s.net \in NetRec
    BY <1>2, <1>5 DEF NetRec
  <2>2. x.net = [s.net EXCEPT !.queue = Q]
    BY <1>1 DEF Snap
  <2> HIDE DEF Q
  <2>3. [[net EXCEPT !.sock[k] = v] EXCEPT !.queue = Q] = [net EXCEPT !.sock[k] = v, !.queue = Q]
    BY <1>2 DEF NetRec
  <2> HIDE DEF x, s
  <2> QED BY <1>4, <1>5, <2>2, <2>3
<1> HIDE DEF Q
<1>8. Good(s, OnTheirWay \cup {e}) /\ s.conn = conn /\ s.cst = cst
  BY <1>1, <1>3, SockStepGood DEF Sound
<1> HIDE DEF s
<1>9. Sound(s, OnTheirWay \cup {e})
  BY <1>1, <1>8 DEF Sound
<1>10. Sound(x, OnTheirWay \cup {e}) /\ x.net.queue = Q /\ x.conn = s.conn /\ x.cst = s.cst
  BY <1>6, <1>9, QueueSound
<1> HIDE DEF x
<1>11. Sound(x, QueueOf(x))
  BY <1>6, <1>10 DEF QueueOf
<1> QED BY <1>1, <1>7, <1>8, <1>10, <1>11, StrongNext

LEMMA SocketsStrong ==
  ASSUME ConnectStrong, NEW k \in Ids, SocketConnects(k) \/ SocketData(k) \/ SocketSecure(k) \/ SocketCloses(k)
  PROVE  ConnectStrong'
<1>1. site \in Sites /\ Sound(Now, OnTheirWay) /\ Now \in Snap /\ Now.net = net /\ OnTheirWay = QueueOf(Now)
      /\ Now.conn = conn /\ Now.cst = cst
  BY StrongNow
<1>2. net \in NetRec /\ net.sock[k] \in SocketState
  BY <1>1 DEF Snap, NetRec
<1>3. CASE SocketConnects(k)
  <2>1. ASSUME net' = Put([net EXCEPT !.sock[k] = "up"], k, "connected", "good") PROVE ConnectStrong'
    <3>1. SockStep(net.sock[k], "up", "connected")
      BY <1>3 DEF SocketConnects, SockStep, Open
    <3> QED BY <1>3, <2>1, <3>1, PutStrong DEF SocketConnects, Replies
  <2>2. ASSUME net' = Put([net EXCEPT !.sock[k] = "closed"], k, "fail", "bad") PROVE ConnectStrong'
    <3>1. SockStep(net.sock[k], "closed", "fail")
      BY <1>3 DEF SocketConnects, SockStep, Open
    <3> QED BY <1>3, <2>2, <3>1, PutStrong DEF SocketConnects, Replies
  <2> QED BY <1>3, <2>1, <2>2 DEF SocketConnects
<1>4. CASE SocketData(k)
  <2>1. PICK reply \in Replies : net' = Put(net, k, "data", reply)
    BY <1>4 DEF SocketData, Replies
  <2> DEFINE v == net.sock[k]
  <2>2. [net EXCEPT !.sock[k] = v] = net
    BY <1>2 DEF NetRec
  <2>3. SockStep(net.sock[k], v, "data")
    BY <1>4 DEF SocketData, SockStep, Open
  <2>4. net' = Put([net EXCEPT !.sock[k] = v], k, "data", reply)
    BY <2>1, <2>2
  <2> HIDE DEF v
  <2> QED BY <1>4, <2>3, <2>4, PutStrong DEF SocketData
<1>5. CASE SocketSecure(k)
  <2>1. SockStep(net.sock[k], "up", "ssl")
    BY <1>5 DEF SocketSecure, SockStep, Open
  <2> QED BY <1>5, <2>1, PutStrong DEF SocketSecure, Replies
<1>6. CASE SocketCloses(k)
  <2>1. ASSUME net.sock[k] \in {"up", "negotiating", "closing"},
               net' = Put([net EXCEPT !.sock[k] = "closed"], k, "disconnected", "bad")
        PROVE  ConnectStrong'
    <3>1. SockStep(net.sock[k], "closed", "disconnected")
      BY <2>1 DEF SockStep, Open
    <3> QED BY <1>6, <2>1, <3>1, PutStrong DEF SocketCloses, Replies
  <2>2. ASSUME net.sock[k] = "closing", net' = [net EXCEPT !.sock[k] = "closed"] PROVE ConnectStrong'
    <3> DEFINE x == [Now EXCEPT !.net.sock[k] = "closed"]
    <3>1. Good(x, OnTheirWay) /\ x.conn = conn /\ x.cst = cst
      BY <1>1, <2>2, LingerGood DEF Sound
    <3>2. x.net = net'
      BY <1>1, <2>2 DEF Snap
    <3> HIDE DEF x
    <3>3. x.net.queue = net.queue
      BY <1>2, <2>2, <3>2 DEF NetRec
    <3>4. Sound(x, QueueOf(x))
      BY <1>1, <3>1, <3>3 DEF Sound, QueueOf
    <3> QED BY <1>1, <1>6, <3>1, <3>2, <3>4, StrongNext DEF SocketCloses
  <2> QED BY <1>6, <2>1, <2>2 DEF SocketCloses
<1> QED BY <1>3, <1>4, <1>5, <1>6

LEMMA ConnectInitStrong == ASSUME ConnectInit PROVE ConnectStrong
<1>1. 0 \in 0..WelcomeTicks /\ MaxConnectors \in Nat
  BY ConnectAssumption
<1>2. Now \in Snap
  <2>1. conn \in ConnRec
    BY DEF ConnectInit, ConnRec, ConnStates
  <2>2. net \in NetRec
    BY <1>1 DEF ConnectInit, NetRec, SocketState, Connector
  <2>3. cst \in CstRec
    BY DEF ConnectInit, CstRec, Delayed
  <2> QED BY <2>1, <2>2, <2>3 DEF Now, Snap
<1>3. OnTheirWay = {}
  BY DEF ConnectInit, OnTheirWay
<1>4. NetBase(net, {})
  BY <1>1 DEF ConnectInit, NetBase, Ids
<1>5. Settled(conn, net, {})
  BY DEF ConnectInit, Settled, Open, Active
<1>6. Controlled(conn, cst)
  BY DEF ConnectInit, Controlled, Held, Waits
<1>7. conn.list \subseteq 1..net.last /\ conn.state # "CONNECTING" /\ site \in Sites
  BY DEF ConnectInit
<1>8. Now.conn = conn /\ Now.net = net
  BY DEF Now
<1> QED BY <1>2, <1>3, <1>4, <1>5, <1>6, <1>7, <1>8 DEF ConnectStrong, Good, Base, Sane

LEMMA ConnectNextStrong == ASSUME ConnectStrong, [ConnectNext]_cvars PROVE ConnectStrong'
<1>1. CASE UNCHANGED cvars
  <2>1. site \in Sites /\ Sound(Now, OnTheirWay) /\ OnTheirWay = QueueOf(Now)
        /\ Now.conn = conn /\ Now.net = net /\ Now.cst = cst
    BY StrongNow
  <2>2. Sound(Now, QueueOf(Now))
    BY <2>1
  <2>3. conn' = Now.conn /\ net' = Now.net /\ cst' = Now.cst /\ UNCHANGED site
    BY <1>1, <2>1 DEF cvars
  <2> QED BY <2>1, <2>2, <2>3, StrongNext
<1>2. CASE \E k \in Ids : SocketConnects(k) \/ SocketData(k) \/ SocketSecure(k) \/ SocketCloses(k)
  BY <1>2, SocketsStrong
<1>3. CASE Dispatch
  BY <1>3, DispatchStrong
<1>4. CASE Activate
  BY <1>4, ActivateStrong
<1>5. CASE Disconnect
  BY <1>5, DisconnectStrong
<1>6. CASE TransferGoesOn
  BY <1>6, TransferGoesOnStrong
<1>7. CASE IdleRequest
  BY <1>7, IdleRequestStrong
<1>8. CASE ConnTick
  BY <1>8, ConnTickStrong
<1>9. CASE CommandReleased
  BY <1>9, CommandReleasedStrong
<1> QED BY <1>1, <1>2, <1>3, <1>4, <1>5, <1>6, <1>7, <1>8, <1>9 DEF ConnectNext

LEMMA StrongInv == ASSUME ConnectStrong PROVE ConnectInv
<1>1. site \in Sites /\ Now \in Snap /\ conn.list \subseteq 1..net.last /\ NetBase(net, OnTheirWay)
      /\ (~net.stale => Sane(conn, net, OnTheirWay)) /\ Controlled(conn, cst)
  BY DEF ConnectStrong, Good, Base, Now
<1>2. conn \in ConnRec /\ net \in NetRec /\ cst \in CstRec
  BY <1>1 DEF Snap, Now
<1>3. conn.list \subseteq Ids
  <2>1. net.last <= MaxConnectors /\ MaxConnectors \in Nat /\ net.last \in Nat
    BY <1>1, <1>2, ConnectAssumption DEF NetBase, NetRec
  <2> QED BY <1>1, <2>1 DEF Ids
<1>4. ConnTypeOK
  BY <1>1, <1>2, <1>3 DEF ConnTypeOK, ConnRec, NetRec, CstRec
<1>5. PokedWhileConnecting
  BY <1>1 DEF PokedWhileConnecting, Sane, Settled
<1>6. NoSocketForgotten
  BY <1>1 DEF NoSocketForgotten, Sane, Settled, Attempt, Open, Active
<1>7. AttemptsKnown
  BY <1>1, <1>3 DEF AttemptsKnown, Sane, Settled, Attempt
<1>8. ReleasedWhenFree
  BY <1>1 DEF ReleasedWhenFree, Controlled, Held, Waits
<1>9. AnswerCanCome
  <2>1. ASSUME conn.state \notin {"DISCONNECTED", "CONNECTING"}, ~net.stale, ~net.deaf
        PROVE  net.sock[conn.sock] \in {"up", "negotiating"} \/ \E e \in OnTheirWay : News(conn, e)
    <3>1. conn.state \in Active
      BY <1>2, <2>1 DEF Active, ConnRec
    <3> QED BY <1>1, <2>1, <3>1 DEF Sane, Settled
  <2> QED BY <2>1 DEF AnswerCanCome, OnTheirWay, News
<1>10. AttemptsEnd
  <2>1. ASSUME conn.state = "CONNECTING", site.proxy = "none", ~net.stale, NEW k \in conn.list
        PROVE  Ending(net, k, OnTheirWay)
    BY <1>1, <2>1 DEF Sane, Attempt
  <2>3. ASSUME conn.state = "CONNECTING", site.proxy = "none", ~net.stale, NEW k \in conn.list
        PROVE  \/ net.sock[k] = "connecting"
               \/ net.sock[k] \in {"up", "negotiating"} /\
                    (net.ctr[k].connected
                     \/ \E i \in DOMAIN net.queue : net.queue[i].sock = k /\ net.queue[i].kind \in {"connected"})
               \/ \E i \in DOMAIN net.queue : net.queue[i].sock = k /\ net.queue[i].kind \in {"fail", "disconnected"}
    <3>1. Ending(net, k, OnTheirWay)
      BY <2>1, <2>3
    <3>2. (\E e \in OnTheirWay : e.sock = k /\ e.kind = "connected")
            => \E i \in DOMAIN net.queue : net.queue[i].sock = k /\ net.queue[i].kind \in {"connected"}
      BY DEF OnTheirWay
    <3>3. (\E e \in OnTheirWay : e.sock = k /\ e.kind \in {"fail", "disconnected"})
            => \E i \in DOMAIN net.queue : net.queue[i].sock = k /\ net.queue[i].kind \in {"fail", "disconnected"}
      BY DEF OnTheirWay
    <3> QED BY <3>1, <3>2, <3>3 DEF Ending
  <2> QED BY <2>3 DEF AttemptsEnd
<1> QED BY <1>4, <1>5, <1>6, <1>7, <1>8, <1>9, <1>10 DEF ConnectInv

\* Through every race of attempts, sockets, connectors, poke and state agree.
THEOREM ConnectCorrect == ConnectSpec => []ConnectInv
<1>1. ConnectInit => ConnectStrong
  BY ConnectInitStrong
<1>2. ConnectStrong /\ [ConnectNext]_cvars => ConnectStrong'
  BY ConnectNextStrong
<1>3. ConnectStrong => ConnectInv
  BY StrongInv
<1> QED BY <1>1, <1>2, <1>3, PTL DEF ConnectSpec

=============================================================================
