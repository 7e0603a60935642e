------------------------------ MODULE RestApi ------------------------------
(***************************************************************************)
(* The HTTPS interface: HTTPServer hands its clients to HTTPConn objects   *)
(* that it uses again, HTTPConn numbers the requests of a client, keeps    *)
(* their answers in order and feeds them to the socket block by block, and *)
(* RestApi answers a request at once or when the sites it asked have       *)
(* answered, or when its time is over.                                     *)
(*                                                                         *)
(* A request is abstracted to how it is answered.  The sites are present   *)
(* as the requests RestApi has put to them: SiteLogic reports each one     *)
(* ready at some time, whether RestApi still waits for it or not.          *)
(***************************************************************************)
EXTENDS Integers, Sequences, FiniteSets, SequencesExt

CONSTANTS
  RestSites,     \* the sites that can be asked
  MaxConns,      \* bound: HTTPConn objects, clients at one time
  MaxClients,    \* bound: clients of a behaviour
  MaxRequests,   \* bound: requests of a behaviour
  MaxTimeout,    \* the time a client allows a request, in ticks
  MaxBlocks,     \* longest answer, in blocks of MAX_SEND_BLOCK
  AsyncRaw       \* bound: whether clients post raw commands with "async"

ASSUME RestAssumption ==
  /\ IsFiniteSet(RestSites) /\ MaxConns \in Nat \ {0} /\ MaxClients \in Nat /\ MaxRequests \in Nat
  /\ MaxTimeout \in Nat /\ MaxBlocks \in Nat \ {0} /\ AsyncRaw \in BOOLEAN

VARIABLES
  hconn,     \* the HTTPConn objects: HTTPServer::conns
  ongoing,   \* RestApi::ongoingrequests, a list in the order of their numbers (api)
  asked,     \* SiteLogic: the requests put to the sites that are not yet finished
  restFlags  \* counters of the bounds, and whether an assert has failed

restVars == <<hconn, ongoing, asked, restFlags>>

RestConns == 1..MaxConns
RestIds == -1..MaxRequests

\* What FDData has put into bodybuffer: the client and the request it came with
Piece == (1..MaxClients) \X RestIds

HTTPConnObject ==
  [open : BOOLEAN, client : 0..MaxClients, next : RestIds, latest : RestIds,
   queue : Seq([id : RestIds, blocks : 1..MaxBlocks]), buffer : 0..MaxBlocks, paused : BOOLEAN,
   body : SUBSET Piece, up : BOOLEAN, lingers : BOOLEAN, lingered : BOOLEAN]

OngoingType == {"RAW_COMMAND", "FILE_LIST", "DOWNLOAD_FILE"}
OngoingRequest ==
  [type : OngoingType, cb : RestConns, id : RestIds, api : RestIds, left : -1..MaxTimeout,
   async : BOOLEAN, waits : SUBSET (RestSites \X RestIds)]

\* The ways in which a request is handled.  "immediate" stands for every handler
\* that answers before it returns, refusals and errors included.
RestRequest ==
  [kind : {"immediate"}] \cup
  [kind : {"filelist", "file"}, site : RestSites, left : {MaxTimeout}] \cup
  [kind : {"raw"}, sites : (SUBSET RestSites) \ {{}}, left : {MaxTimeout},
   async : IF AsyncRaw THEN BOOLEAN ELSE {FALSE}] \cup
  (IF AsyncRaw THEN [kind : {"rawget"}, api : 0..MaxRequests] ELSE {})

\* HTTPConn::HTTPConn, RestApi::RestApi
RestInit ==
  /\ hconn = [c \in RestConns |-> [open |-> FALSE, client |-> 0, next |-> 0, latest |-> -1, queue |-> << >>,
                                   buffer |-> 0, paused |-> FALSE, body |-> {}, up |-> FALSE, lingers |-> FALSE,
                                   lingered |-> FALSE]]
  /\ ongoing = {}
  /\ asked = [waiting |-> {}, ready |-> {}]
  /\ restFlags = [clients |-> 0, requests |-> 0, failed |-> FALSE]

\* The state the handlers pass along
Rest == [conn |-> hconn, ongoing |-> ongoing, asked |-> asked, flags |-> restFlags]
RestBecomes(s) ==
  hconn' = s.conn /\ ongoing' = s.ongoing /\ asked' = s.asked /\ restFlags' = s.flags

-----------------------------------------------------------------------------
\* HTTPConn

\* HTTPConn::sendFromBuffer: sendData accepts the block, and HTTPConn pauses until
\* the socket reports that it has been sent
sendFromBuffer(k) ==
  IF k.paused \/ k.buffer = 0 THEN k ELSE [k EXCEPT !.buffer = @ - 1, !.paused = TRUE]

\* HTTPConn::sendResponse
sendResponse(k) ==
  [sendFromBuffer([k EXCEPT !.buffer = @ + Head(k.queue).blocks, !.queue = Tail(@)]) EXCEPT !.latest = @ + 1]

sendResponsesAny(k) ==
  LET sent == sendFromBuffer(k) IN
  IF ~sent.paused /\ sent.queue # << >> THEN sendResponse(sent) ELSE sent

\* HTTPConn::sendResponses: the loop ends with the first response, which pauses it
sendResponses(k) ==
  LET sent == sendFromBuffer(k) IN
  IF ~sent.paused /\ sent.queue # << >> /\ Head(sent.queue).id = sent.latest + 1 THEN sendResponse(sent) ELSE sent

\* HTTPConn::queueResponse: before the first response with a higher id
queueResponse(k, id, blocks) ==
  LET at == Cardinality({i \in DOMAIN k.queue : \A j \in 1..i : k.queue[j].id <= id}) + 1 IN
  sendResponses([k EXCEPT !.queue = InsertAt(@, at, [id |-> id, blocks |-> blocks])])

\* HTTPConn::requestHandled with its assert
requestHandled(s, c, id, blocks) ==
  [s EXCEPT !.flags.failed = @ \/ ~s.conn[c].open, !.conn[c] = queueResponse(@, id, blocks)]

\* RestApi::cancelOngoingSyncRequests
cancelOngoingSyncRequests(s, c) ==
  [s EXCEPT !.ongoing = {r \in @ : r.cb # c \/ r.async}]

\* HTTPConn::deactivate
deactivate(s, c) ==
  cancelOngoingSyncRequests(
    [s EXCEPT !.conn[c] = [@ EXCEPT !.open = FALSE, !.queue = << >>, !.buffer = 0]], c)

\* HTTPServer::FDNew, HTTPConn::activate: the first object that is not in use, even
\* one whose former socket still has data to send
FDNew(c) ==
  /\ ~hconn[c].open /\ \A d \in 1..(c - 1) : hconn[d].open
  /\ restFlags.clients < MaxClients
  /\ RestBecomes([Rest EXCEPT !.flags.clients = @ + 1,
       !.conn[c] = [@ EXCEPT !.open = TRUE, !.up = TRUE, !.lingers = hconn[c].lingers \/ hconn[c].up,
                             !.client = restFlags.clients + 1, !.next = 0, !.latest = -1, !.paused = FALSE]])

\* HTTPConn::FDDisconnected
FDDisconnectedHTTP(c) ==
  /\ hconn[c].up
  /\ RestBecomes([deactivate(Rest, c) EXCEPT !.conn[c].up = FALSE])

\* HTTPConn::FDSendComplete
FDSendComplete(c) ==
  /\ hconn[c].open /\ hconn[c].paused
  /\ RestBecomes([Rest EXCEPT !.conn[c] = sendResponses([@ EXCEPT !.paused = FALSE])])

\* HTTPConn::FDData with a part of a body, the rest of which has not arrived
BodyArrives(c) ==
  /\ hconn[c].up /\ restFlags.requests < MaxRequests
  /\ RestBecomes([Rest EXCEPT !.conn[c].body = @ \cup {<<hconn[c].client, hconn[c].next>>}])

\* HTTPConn::respondAndClose: a request that cannot be parsed or is too long.  The
\* socket may have data to send, and then still receives.
respondAndClose(c) ==
  /\ hconn[c].open
  /\ \E lingers \in BOOLEAN :
       RestBecomes([deactivate(Rest, c) EXCEPT !.conn[c].up = lingers, !.conn[c].lingered = @ \/ lingers])

-----------------------------------------------------------------------------
\* RestApi

\* SiteLogic::requestFileList, requestDownloadFile and requestRawCommand
Ask(s, sites) ==
  [s EXCEPT !.asked.waiting = @ \cup {<<t, s.flags.requests>> : t \in sites}]

\* The entry of ongoingrequests that a handler adds
Wait(s, type, c, id, left, async, sites) ==
  [Ask(s, sites) EXCEPT
     !.ongoing = @ \cup {[type |-> type, cb |-> c, id |-> id, api |-> s.flags.requests, left |-> left,
                          async |-> async, waits |-> {<<t, s.flags.requests>> : t \in sites}]}]

\* RestApi::handlePathGet and handleFileGet behind their checks of the parameters
handlePathGet(s, c, id, r) ==
  Wait(s, IF r.kind = "file" THEN "DOWNLOAD_FILE" ELSE "FILE_LIST", c, id, r.left, FALSE, {r.site})

\* RestApi::handleRawPost, respondAsynced
handleRawPost(s, c, id, r) ==
  LET started == Wait(s, "RAW_COMMAND", c, id, r.left, r.async, r.sites) IN
  IF r.async THEN requestHandled(started, c, id, 1) ELSE started

\* RestApi::finalize: a raw command reports what has been answered, the other two
\* report the time-out
finalize(s, r, blocks) ==
  requestHandled([s EXCEPT !.ongoing = @ \ {r}], r.cb, r.id, IF r.type = "RAW_COMMAND" THEN blocks ELSE 1)

\* RestApi::handleRawGet
handleRawGet(s, c, id, r, blocks) ==
  LET found == {o \in s.ongoing : o.api = r.api} IN
  IF \E o \in found : o.waits = {}
    THEN finalize(s, CHOOSE o \in found : TRUE, blocks)
    ELSE requestHandled(s, c, id, 1)

\* RestApi::handleRequest: authorization, the choice of the handler, its answer
handleRequest(s, c, id, r, blocks) ==
  CASE r.kind = "immediate" -> requestHandled(s, c, id, blocks)
    [] r.kind \in {"filelist", "file"} -> handlePathGet(s, c, id, r)
    [] r.kind = "raw" -> handleRawPost(s, c, id, r)
    [] r.kind = "rawget" -> handleRawGet(s, c, id, r, blocks)

\* HTTPConn::FDData with the end of a request
FDData(c, r) ==
  /\ hconn[c].up /\ restFlags.requests < MaxRequests
  /\ \E blocks \in 1..MaxBlocks :
       LET s == handleRequest([Rest EXCEPT !.conn[c].next = @ + 1], c, hconn[c].next, r, blocks) IN
       RestBecomes([s EXCEPT !.conn[c].body = {}, !.flags.requests = @ + 1])

\* RestApi::requestReady, called by SiteLogic::setRequestReady: a request nobody
\* waits for any more stays among the ready ones
requestReady(q, status, blocks) ==
  LET ready == [Rest EXCEPT !.asked.waiting = @ \ {q}]
      done  == {r \in ongoing : q \in r.waits}
      r     == CHOOSE o \in done : TRUE
      less  == [r EXCEPT !.waits = @ \ {q}]
      some  == [ready EXCEPT !.ongoing = (@ \ {r}) \cup {less}]
  IN IF done = {} THEN [ready EXCEPT !.asked.ready = @ \cup {q}]
     ELSE IF r.type # "RAW_COMMAND"
       THEN requestHandled([ready EXCEPT !.ongoing = @ \ {r}], r.cb, r.id, IF status THEN blocks ELSE 1)
     ELSE IF less.waits = {} /\ ~r.async THEN finalize(some, less, blocks) ELSE some

SiteAnswers(q) ==
  \E status \in BOOLEAN, blocks \in 1..MaxBlocks : RestBecomes(requestReady(q, status, blocks))

\* One of the requests that tick may find late
finalizeIfLate(s, api, blocks) ==
  LET late == {r \in s.ongoing : r.api = api /\ r.left < 0}
  IN IF late = {} THEN s ELSE finalize(s, CHOOSE r \in late : TRUE, blocks)

\* The late requests are finalized in the order of the list
finalizeLate(s, blocks) ==
  LET Upto[n \in 0..MaxRequests] == IF n = 0 THEN s ELSE finalizeIfLate(Upto[n - 1], n - 1, blocks)
  IN Upto[MaxRequests]

\* RestApi::tick: the time of every request passes
RestTick ==
  /\ ongoing # {}
  /\ \E blocks \in 1..MaxBlocks :
       RestBecomes(finalizeLate([Rest EXCEPT !.ongoing = {[r EXCEPT !.left = @ - 1] : r \in @}], blocks))

\* HTTPConn::FDDisconnected for a socket that the object served before
FDDisconnectedFormer(c) ==
  /\ hconn[c].lingers
  /\ RestBecomes([deactivate(Rest, c) EXCEPT !.conn[c].lingers = FALSE])

Clients ==
  \E c \in RestConns :
    \/ FDNew(c) \/ FDDisconnectedHTTP(c) \/ FDSendComplete(c) \/ BodyArrives(c) \/ respondAndClose(c)
    \/ \E r \in RestRequest : FDData(c, r)
    \/ FDDisconnectedFormer(c)

\* A failed assert ends the program
RestNext ==
  /\ ~restFlags.failed
  /\ Clients \/ (\E q \in asked.waiting : SiteAnswers(q)) \/ RestTick

RestSpec == RestInit /\ [][RestNext]_restVars

-----------------------------------------------------------------------------
\* Type invariant of the connections, the requests and the questions to the sites.
RestTypeOK ==
  /\ \A c \in RestConns : LET k == hconn[c] IN
       /\ k.open \in BOOLEAN /\ k.up \in BOOLEAN /\ k.paused \in BOOLEAN /\ k.lingers \in BOOLEAN /\ k.client \in 0..MaxClients
       /\ k.next \in RestIds /\ k.latest \in RestIds /\ k.buffer \in 0..MaxBlocks /\ k.body \subseteq Piece
       /\ \A i \in DOMAIN k.queue : k.queue[i] \in [id : RestIds, blocks : 1..MaxBlocks]
  /\ ongoing \subseteq OngoingRequest
  /\ asked.waiting \cup asked.ready \subseteq RestSites \X RestIds
  /\ restFlags.requests \in 0..MaxRequests /\ restFlags.failed \in BOOLEAN

\* Who is to answer request id of connection c: the answer is in the queue, or an
\* ongoing request will produce it.
Queued(c, id) == {i \in DOMAIN hconn[c].queue : hconn[c].queue[i].id = id}
Owed(c, id) == {r \in ongoing : r.cb = c /\ r.id = id /\ ~r.async}

\* A connection that serves a client, and did not serve one whose socket lingered
\* after respondAndClose: what such a socket receives is taken for the next client's.
Serves(c) == hconn[c].open /\ ~hconn[c].lingered

\* Every request of a client that is still connected has been answered, or exactly
\* one answer to it is queued or on its way (HTTPConn::queueResponse,
\* RestApi::requestReady, finalize and cancelOngoingSyncRequests).  A request that
\* two answers wait for, or none, blocks all later ones of its connection.
AnsweredOnce ==
  \A c \in RestConns : Serves(c) =>
    /\ \A id \in 0..(hconn[c].next - 1) :
         Cardinality(Queued(c, id)) + Cardinality(Owed(c, id)) = IF id <= hconn[c].latest THEN 0 ELSE 1
    /\ \A i \in DOMAIN hconn[c].queue : hconn[c].queue[i].id \in 0..(hconn[c].next - 1)

\* A client that stays connected never waits for an answer nobody will give:
\* "Get raw command results for an async raw command with id 1".
GetAnswered ==
  \A c \in RestConns : Serves(c) =>
    \A id \in (hconn[c].latest + 1)..(hconn[c].next - 1) : Queued(c, id) \cup Owed(c, id) # {}

\* An answer that is due is held back only while the socket has not reported the
\* last block as sent (HTTPConn::sendResponses, FDSendComplete).
NothingHeldBack ==
  \A c \in RestConns : Serves(c) /\ ~hconn[c].paused =>
    /\ hconn[c].buffer = 0
    /\ \A i \in DOMAIN hconn[c].queue : hconn[c].queue[i].id # hconn[c].latest + 1

\* The assert of HTTPConn::requestHandled: no answer is given to a connection whose
\* client has gone, unless a socket has lingered after respondAndClose: it may still receive, and
\* HTTPConn takes what it receives for its own.
RestNoAssert == restFlags.failed => \E c \in RestConns : hconn[c].lingered

\* What the parser has collected of a body of this client belongs to the request
\* that is being received, never to an earlier one (HTTPConn::resetHttpParser).
BodyOfRequest ==
  \A c \in RestConns : \A p \in hconn[c].body : p[1] = hconn[c].client /\ Serves(c) => p[2] = hconn[c].next

\* An ongoing request waits for sites that have not answered and is never older than
\* the time its client allowed it, so with the ticks it ends; and no answer of a site
\* is waited for twice (RestApi::requestReady, tick).
WaitsForSomeone ==
  /\ \A r \in ongoing : r.waits \subseteq asked.waiting /\ (r.async \/ r.waits # {}) /\ r.left >= 0
  /\ \A r, o \in ongoing : r.waits \cap o.waits # {} => r = o

\* Every request is answered once and in turn, to the client that made it, and
\* none is forgotten, whoever disconnects, times out or answers late.
RestInv ==
  RestTypeOK /\ AnsweredOnce /\ NothingHeldBack /\ RestNoAssert /\ BodyOfRequest /\ WaitsForSomeone
============================================================================
