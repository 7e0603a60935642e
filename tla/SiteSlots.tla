------------------------------ MODULE SiteSlots ------------------------------
(***************************************************************************)
(* The slots of one site: how SiteLogic and ConnStateTracker share the     *)
(* site's connections among file transfers, listings and requests, and     *)
(* keep the counters loggedin, available, slotsdn and slotsup by which the *)
(* engine decides whether another transfer may start.                      *)
(*                                                                         *)
(* The counters are never recomputed: each of the paths on which a lock is *)
(* taken or given back adjusts them by one, so a path that adjusts one too *)
(* few or too many is wrong until the program is restarted.                *)
(***************************************************************************)
EXTENDS Integers, FiniteSets

CONSTANTS
  Conns,       \* the login slots of the site
  MaxDown,     \* the download limit of each TransferOriginType
  MaxUp,       \* the upload limit
  LeaveFree,   \* "leave one slot free"
  UsesLIST,    \* file lists are fetched with LIST instead of STAT
  SameSite     \* transfer jobs copy within the site

OriginTypes == {"REGULAR", "PRE", "COMPLETE", "TRANSFERJOB"}

ASSUME SlotsAssumption ==
  /\ IsFiniteSet(Conns)
  /\ MaxDown \in [OriginTypes -> Nat]
  /\ MaxUp \in Nat
  /\ LeaveFree \in BOOLEAN /\ UsesLIST \in BOOLEAN /\ SameSite \in BOOLEAN

VARIABLES
  conn,        \* the connections and their ConnStateTrackers
  loggedin, available,
  slots,       \* slotsdn and slotsup
  delayed,     \* the returndownloadslot and returnuploadslot commands waiting
  lost,        \* history: transfer locks released without returning the slot
  asserted     \* an assert has failed

vars == <<conn, loggedin, available, slots, delayed, lost, asserted>>

Dirs == {"dn", "up"}

(***************************************************************************)
(* link: "wait" is connected but turned away by a full site, "up" is       *)
(* logged in, "quit" has said QUIT.  busy is isProcessing().  tl is the    *)
(* type of the transfer lock, list the list lock, req the request.  data   *)
(* is what is known of the local data socket of a viewed file or of a      *)
(* requested listing: "live" until it has ended well ("ok") or not ("bad").*)
(***************************************************************************)
ConnStates ==
  [link : {"down", "login", "wait", "up", "quit"}, busy : BOOLEAN,
   tl : {"no"} \cup Dirs, list : BOOLEAN, req : {"none", "plain", "view"},
   data : {"none", "live", "ok", "bad"}]

\* Types of the site's connections and counters.
SlotsTypeOK ==
  /\ conn \in [Conns -> ConnStates]
  /\ loggedin \in Int /\ available \in Int
  /\ slots \in [Dirs -> Int] /\ delayed \in [Dirs -> Nat]
  /\ lost \in [Dirs -> Nat]
  /\ asserted \in BOOLEAN

One(b) == IF b THEN 1 ELSE 0

isListOrTransferLocked(c) == conn[c].list \/ conn[c].tl # "no"

\* Variant: a request does not protect its connection.
isHardLockedButRequest(c) == conn[c].tl # "no" \/ conn[c].link = "quit"

isHardLocked(c) ==
  conn[c].tl # "no" \/ conn[c].req # "none" \/ conn[c].link = "quit"
isLocked(c) == conn[c].list \/ isHardLocked(c)
isConnected(c) == conn[c].link # "down"

\* handleConnection goes past handleLockCheck.
Handles(c) == conn[c].link \in {"up", "wait"} /\ ~conn[c].busy /\ ~isLocked(c)

-----------------------------------------------------------------------------
\* Variant: off by one.
KeepsFreeOffByOne == LeaveFree /\ Cardinality(Conns) > 1
                     /\ slots["dn"] + slots["up"] >= Cardinality(Conns)

(***************************************************************************)
(* The slot checks of the engine, and getSlot.                             *)
(***************************************************************************)
KeepsFree == LeaveFree /\ Cardinality(Conns) > 1
             /\ slots["dn"] + slots["up"] + 1 >= Cardinality(Conns)

downloadSlotAvailable(t) ==
  available # 0 /\ ~KeepsFree /\ available > 0 /\ MaxDown[t] > slots["dn"]

uploadSlotAvailable == available # 0 /\ ~KeepsFree /\ slots["up"] < MaxUp

Limit(d, t) == IF d = "dn" THEN MaxDown[t] ELSE MaxUp
getSlot(d, t) == slots[d] < Limit(d, t)

-----------------------------------------------------------------------------
(***************************************************************************)
(* Logging in and out.                                                     *)
(***************************************************************************)
login(c) ==
  /\ conn[c].link = "down"
  /\ conn' = [conn EXCEPT ![c].link = "login", ![c].busy = TRUE]
  /\ UNCHANGED <<loggedin, available, slots, delayed, lost, asserted>>

LoginSuccess(c) ==
  /\ conn[c].link = "login"
  /\ conn' = [conn EXCEPT ![c].link = "up", ![c].busy = FALSE]
  /\ loggedin' = loggedin + 1
  /\ available' = available + 1
  /\ UNCHANGED <<slots, delayed, lost, asserted>>

userDeniedSiteFull(c) ==
  /\ conn[c].link = "login"
  /\ conn' = [conn EXCEPT ![c].link = "wait", ![c].busy = FALSE]
  /\ UNCHANGED <<loggedin, available, slots, delayed, lost, asserted>>

\* The delayed command "reconnect" of a connection turned away.
reconnect(c) ==
  /\ conn[c].link = "wait" /\ ~conn[c].busy /\ ~isLocked(c)
  /\ conn' = [conn EXCEPT ![c].link = "login", ![c].busy = TRUE]
  /\ UNCHANGED <<loggedin, available, slots, delayed, lost, asserted>>

\* Variant: a request cut off by the disconnect is not made up for.
DropForgetsRequest(c, to) ==
  LET k == conn[c]
  IN /\ conn' = [conn EXCEPT ![c] =
                   [link |-> to, busy |-> to = "quit", tl |-> "no",
                    list |-> FALSE, req |-> "none", data |-> "none"]]
     /\ delayed' = IF k.tl = "no" THEN delayed
                   ELSE [delayed EXCEPT ![k.tl] = @ + 1]
     /\ loggedin' = loggedin - One(k.link = "up")
     /\ available' = available + One(k.tl # "no" /\ k.req = "none")
                     - One(k.link = "up")
     /\ UNCHANGED <<slots, lost, asserted>>

(***************************************************************************)
(* cleanupConnection and what follows it in disconnectConn and in          *)
(* disconnected.  A transfer's slot is returned later, by the tick, and a  *)
(* failed request and a lost transfer make the connection available just   *)
(* before it stops being counted at all.                                   *)
(***************************************************************************)
Drop(c, to) ==
  LET k == conn[c]
  IN /\ conn' = [conn EXCEPT ![c] =
                   [link |-> to, busy |-> to = "quit", tl |-> "no",
                    list |-> FALSE, req |-> "none", data |-> "none"]]
     /\ delayed' = IF k.tl = "no" THEN delayed
                   ELSE [delayed EXCEPT ![k.tl] = @ + 1]
     /\ loggedin' = loggedin - One(k.link = "up")
     /\ available' = available
          + One(k.tl # "no" /\ k.req = "none")   \* transferComplete
          + One(k.req # "none")                  \* setRequestReady
          - One(k.link = "up")
     /\ UNCHANGED <<slots, lost, asserted>>

\* By the user, the idle timeout or a monitor that closes what remains.
disconnectConn(c) ==
  /\ isConnected(c)
  /\ Drop(c, IF conn[c].link \in {"up", "quit"} /\ ~conn[c].busy
             THEN "quit" ELSE "down")

disconnected(c) == isConnected(c) /\ Drop(c, "down")

QUITResponse(c) ==
  /\ conn[c].link = "quit"
  /\ conn' = [conn EXCEPT ![c].link = "down", ![c].busy = FALSE]
  /\ asserted' = (asserted \/ isListOrTransferLocked(c) \/ conn[c].req # "none")
  /\ UNCHANGED <<loggedin, available, slots, delayed, lost>>

-----------------------------------------------------------------------------
(***************************************************************************)
(* Requests.                                                               *)
(***************************************************************************)
\* handleRequest for every request but REQ_DOWNLOAD_FILE_STAGE2.
handleRequest(c) ==
  /\ Handles(c)
  /\ conn' = [conn EXCEPT ![c].req = "plain", ![c].busy = TRUE]
  /\ available' = available - 1
  /\ UNCHANGED <<loggedin, slots, delayed, lost, asserted>>

\* Variant: registerDownloadLock takes the availability a second time.
handleViewRequestTwice(c) ==
  /\ Handles(c) /\ downloadSlotAvailable("REGULAR")
  /\ conn' = [conn EXCEPT ![c].req = "view", ![c].tl = "dn",
                          ![c].data = "live", ![c].busy = TRUE]
  /\ slots' = [slots EXCEPT !["dn"] = @ + 1]
  /\ available' = available - 2
  /\ UNCHANGED <<loggedin, delayed, lost, asserted>>

\* REQ_DOWNLOAD_FILE_STAGE2: the request takes the connection, then
\* registerDownloadLock hands its availability to the transfer.
handleViewRequest(c) ==
  /\ Handles(c) /\ downloadSlotAvailable("REGULAR")
  /\ \E b \in BOOLEAN :
       conn' = [conn EXCEPT ![c].req = "view", ![c].tl = "dn",
                            ![c].data = "live", ![c].busy = b]
  /\ slots' = [slots EXCEPT !["dn"] = @ + One(getSlot("dn", "REGULAR"))]
  /\ available' = available - 1 + 1 - One(getSlot("dn", "REGULAR"))
  /\ asserted' = (asserted \/ ~getSlot("dn", "REGULAR"))
  /\ UNCHANGED <<loggedin, delayed, lost>>

\* setRequestReady: a plain request has got its answer, good or bad.
setRequestReady(c) ==
  /\ conn[c].req = "plain" /\ conn[c].busy /\ ~conn[c].list
  /\ conn' = [conn EXCEPT ![c].req = "none", ![c].busy = FALSE]
  /\ available' = available + One(conn[c].tl = "no")
  /\ UNCHANGED <<loggedin, slots, delayed, lost, asserted>>

-----------------------------------------------------------------------------
(***************************************************************************)
(* Commands of jobs, and listings.                                         *)
(***************************************************************************)
\* doCWD or doSTAT for a spread job or a transfer job.
startCommand(c) ==
  /\ Handles(c)
  /\ conn' = [conn EXCEPT ![c].busy = TRUE]
  /\ UNCHANGED <<loggedin, available, slots, delayed, lost, asserted>>

\* The reply to a command that ends nothing.  The connection of a request is
\* given its next command; that of a transfer may have to wait for its peer.
commandReply(c) ==
  /\ conn[c].link \in {"up", "wait"} /\ conn[c].busy
  /\ conn[c].req # "plain" \/ conn[c].list
  /\ conn' = [conn EXCEPT ![c].busy = FALSE]
  /\ UNCHANGED <<loggedin, available, slots, delayed, lost, asserted>>

\* The peer is ready, or initTransfer goes on: the next command of a transfer
\* or of a listing.
transferCommand(c) ==
  /\ isListOrTransferLocked(c) /\ ~conn[c].busy
  /\ conn' = [conn EXCEPT ![c].busy = TRUE]
  /\ UNCHANGED <<loggedin, available, slots, delayed, lost, asserted>>

\* getFileListConn: for a job, or for a request (at once or after its CWD).
startList(c) ==
  /\ UsesLIST
  /\ \/ Handles(c)
     \/ conn[c].req = "plain" /\ conn[c].busy /\ ~conn[c].list
  /\ conn' = [conn EXCEPT ![c].list = TRUE, ![c].busy = TRUE,
                ![c].data = IF conn[c].req = "plain" THEN "live" ELSE "none"]
  /\ asserted' = (asserted \/ conn[c].tl # "no")
  /\ UNCHANGED <<loggedin, available, slots, delayed, lost>>

\* listRefreshed: the requested listing is ready, or the recursive command
\* that asked for it goes on.
listRefreshed(c) ==
  \/ /\ conn' = [conn EXCEPT ![c].list = FALSE, ![c].busy = FALSE,
                             ![c].req = "none", ![c].data = "none"]
     /\ available' = available + 1
  \/ /\ conn[c].req = "plain"
     /\ conn' = [conn EXCEPT ![c].list = FALSE, ![c].busy = TRUE,
                             ![c].data = "none"]
     /\ UNCHANGED available

\* LIST_COMPLETE.  The listing is refreshed when its data has ended too.
listCompleted(c) ==
  /\ conn[c].list /\ conn[c].busy
  /\ IF conn[c].data = "ok" THEN listRefreshed(c)
     ELSE /\ conn' = [conn EXCEPT ![c].list = FALSE, ![c].busy = FALSE,
                        ![c].data = IF @ = "live" THEN @ ELSE "none"]
          /\ UNCHANGED available
  /\ UNCHANGED <<loggedin, slots, delayed, lost, asserted>>

\* A reply that fails the listing.  The request is told (checkFailListRequest)
\* if it is one for a file list and the command PRET or LIST.
listFailed(c) ==
  /\ conn[c].list /\ conn[c].busy
  /\ \/ /\ conn[c].req = "plain"
        /\ conn' = [conn EXCEPT ![c].list = FALSE, ![c].busy = FALSE,
                                ![c].req = "none", ![c].data = "none"]
        /\ available' = available + 1
     \/ /\ conn' = [conn EXCEPT ![c].list = FALSE, ![c].busy = FALSE,
                                ![c].data = "none"]
        /\ UNCHANGED available
  /\ UNCHANGED <<loggedin, slots, delayed, lost, asserted>>

\* The local data socket of a listing fails while the connection waits for
\* it: returnConn(id, false).
listReturned(c) ==
  /\ conn[c].list /\ ~conn[c].busy
  /\ conn' = [conn EXCEPT ![c].list = FALSE, ![c].data = "none"]
  /\ UNCHANGED <<loggedin, available, slots, delayed, lost, asserted>>

-----------------------------------------------------------------------------
(***************************************************************************)
(* File transfers.                                                         *)
(***************************************************************************)
\* lockTransferConn prefers a connection with nothing to do, else it takes
\* one that finishes its command, or its listing, first.
Ready(c) == conn[c].link = "up" /\ ~conn[c].busy /\ ~isLocked(c)
Lockable(c) == conn[c].link = "up" /\ ~isHardLocked(c)
Candidate(c, among) ==
  c \in among /\ IF \E x \in among : Ready(x) THEN Ready(c) ELSE Lockable(c)

lockTransferConn(c, d, t) ==
  /\ IF d = "dn" THEN downloadSlotAvailable(t) ELSE uploadSlotAvailable
  /\ Candidate(c, Conns) /\ getSlot(d, t)
  /\ \E b \in {TRUE, conn[c].busy} :
       conn' = [conn EXCEPT ![c].tl = d, ![c].busy = b]
  /\ slots' = [slots EXCEPT ![d] = @ + 1]
  /\ available' = available - 1
  /\ asserted' = (asserted \/ conn[c].tl # "no" \/ conn[c].req # "none")
  /\ UNCHANGED <<loggedin, delayed, lost>>

\* engageFXP of a transfer job within the site: the engine makes its checks
\* once, then both locks are taken.
lockSameSite(c, x) ==
  /\ SameSite
  /\ downloadSlotAvailable("TRANSFERJOB") /\ uploadSlotAvailable
  /\ available >= 2
  /\ Candidate(c, Conns) /\ Candidate(x, Conns \ {c})
  /\ getSlot("dn", "TRANSFERJOB") /\ getSlot("up", "TRANSFERJOB")
  /\ conn' = [conn EXCEPT ![c].tl = "dn", ![x].tl = "up"]
  /\ slots' = [d \in Dirs |-> slots[d] + 1]
  /\ available' = available - 2
  /\ UNCHANGED <<loggedin, delayed, lost, asserted>>

\* transferComplete and finishTransfer.
Finish(c) ==
  /\ slots' = [slots EXCEPT ![conn[c].tl] = @ - 1]
  /\ UNCHANGED <<loggedin, delayed, lost, asserted>>

\* Variant: the connection of a request becomes available too early.
transferCompletedEarly(c) ==
  /\ conn[c].tl # "no" /\ ~conn[c].list /\ conn[c].busy
  /\ conn' = [conn EXCEPT ![c].tl = "no", ![c].busy = FALSE,
                ![c].req = IF conn[c].data = "ok" THEN "none" ELSE @,
                ![c].data = IF @ = "live" THEN @ ELSE "none"]
  /\ available' = available + 1
  /\ Finish(c)

\* RETR_COMPLETE or STOR_COMPLETE.  A viewed file is ready when its local
\* data has ended well too.
transferCompleted(c) ==
  /\ conn[c].tl # "no" /\ ~conn[c].list /\ conn[c].busy
  /\ conn' = [conn EXCEPT ![c].tl = "no", ![c].busy = FALSE,
                ![c].req = IF conn[c].data = "ok" THEN "none" ELSE @,
                ![c].data = IF @ = "live" THEN @ ELSE "none"]
  /\ available' = available + One(conn[c].req = "none" \/ conn[c].data = "ok")
  /\ Finish(c)

\* reportTransferErrorAndFinish with any error but TM_ERR_CLEANUP.
transferError(c) ==
  /\ conn[c].tl # "no" /\ ~conn[c].list
  /\ \E b \in BOOLEAN :   \* abortTransferPASV
       conn' = [conn EXCEPT ![c].tl = "no", ![c].busy = b,
                            ![c].req = "none", ![c].data = "none"]
  /\ available' = available + 1
  /\ Finish(c)

\* returnConn(id, true): the monitor gives the connection back.  The type of
\* the transfer is LIST as long as the connection is list locked, and then
\* transferComplete is not called.
returnConn(c) ==
  /\ conn[c].tl # "no"
  /\ conn' = [conn EXCEPT ![c].tl = "no", ![c].data = "none"]
  /\ IF conn[c].list
     THEN /\ lost' = [lost EXCEPT ![conn[c].tl] = @ + 1]
          /\ UNCHANGED <<available, slots, loggedin, delayed, asserted>>
     ELSE /\ available' = available + One(conn[c].req = "none")
          /\ Finish(c)

\* The local data socket of a request ends.  If the connection has completed
\* before, that ends the transfer: downloadCompleted or listCompleted.
localComplete(c) ==
  /\ conn[c].data = "live"
  /\ IF isListOrTransferLocked(c)
     THEN conn' = [conn EXCEPT ![c].data = "ok"] /\ UNCHANGED available
     ELSE listRefreshed(c)
  /\ UNCHANGED <<loggedin, slots, delayed, lost, asserted>>

localError(c) ==
  /\ conn[c].data = "live"
  /\ conn[c].busy \/ ~isListOrTransferLocked(c)   \* else see returnConn
  /\ conn' = [conn EXCEPT ![c].data = IF isListOrTransferLocked(c)
                                      THEN "bad" ELSE "none"]
  /\ UNCHANGED <<loggedin, available, slots, delayed, lost, asserted>>

\* Variant: only upload slots are returned.
returnSlotUpOnly(d) ==
  /\ d = "up" /\ delayed[d] > 0
  /\ delayed' = [delayed EXCEPT ![d] = @ - 1]
  /\ slots' = [slots EXCEPT ![d] = @ - 1]
  /\ UNCHANGED <<conn, loggedin, available, lost, asserted>>

\* SiteLogic::tick releases a delayed slot.
returnSlot(d) ==
  /\ delayed[d] > 0
  /\ delayed' = [delayed EXCEPT ![d] = @ - 1]
  /\ slots' = [slots EXCEPT ![d] = @ - 1]
  /\ UNCHANGED <<conn, loggedin, available, lost, asserted>>

-----------------------------------------------------------------------------
Init ==
  /\ conn = [c \in Conns |-> [link |-> "down", busy |-> FALSE, tl |-> "no",
                              list |-> FALSE, req |-> "none", data |-> "none"]]
  /\ loggedin = 0 /\ available = 0
  /\ slots = [d \in Dirs |-> 0]
  /\ delayed = [d \in Dirs |-> 0]
  /\ lost = [d \in Dirs |-> 0]
  /\ asserted = FALSE

ConnStep(c) ==
  \/ login(c) \/ LoginSuccess(c) \/ userDeniedSiteFull(c) \/ reconnect(c)
  \/ disconnectConn(c) \/ disconnected(c) \/ QUITResponse(c)
  \/ handleRequest(c) \/ handleViewRequest(c) \/ setRequestReady(c)
  \/ startCommand(c) \/ commandReply(c) \/ transferCommand(c)
  \/ startList(c) \/ listCompleted(c) \/ listFailed(c) \/ listReturned(c)
  \/ \E d \in Dirs, t \in OriginTypes : lockTransferConn(c, d, t)
  \/ transferCompleted(c) \/ transferError(c) \/ returnConn(c)
  \/ localComplete(c) \/ localError(c)

Next ==
  \/ \E c \in Conns : ConnStep(c)
  \/ \E c, x \in Conns : lockSameSite(c, x)
  \/ \E d \in Dirs : returnSlot(d)

\* The tick releases what is due.
Spec == Init /\ [][Next]_vars /\ \A d \in Dirs : WF_vars(returnSlot(d))

-----------------------------------------------------------------------------
(***************************************************************************)
(* Properties.                                                             *)
(***************************************************************************)
Up == {c \in Conns : conn[c].link = "up"}
Taken == {c \in Conns : conn[c].tl # "no" \/ conn[c].req # "none"}
Using(d) == {c \in Conns : conn[c].tl = d}

\* The counters say what the connections do: every logged in connection is
\* available unless a transfer or a request has it, and every slot in use
\* belongs to a running transfer or waits for its delayed return.
SlotsExact ==
  /\ loggedin = Cardinality(Up)
  /\ available = Cardinality(Up) - Cardinality(Taken)
  /\ \A d \in Dirs : slots[d] = Cardinality(Using(d)) + delayed[d]

\* The same, but for the transfer locks that returnConn released while the
\* connection was list locked: each of those is missing from then on.
Books ==
  /\ loggedin = Cardinality(Up)
  /\ available = Cardinality(Up) - Cardinality(Taken) - lost["dn"] - lost["up"]
  /\ \A d \in Dirs : slots[d] = Cardinality(Using(d)) + delayed[d] + lost[d]

\* The site never runs more transfers than its limits allow, not even with
\* the connections that dropped out of a transfer a moment ago.
WithinLimits ==
  /\ \E t \in OriginTypes :
       Cardinality(Using("dn")) + delayed["dn"] <= MaxDown[t]
  /\ Cardinality(Using("up")) + delayed["up"] <= MaxUp

\* A slot the engine is told of exists: when connections are available, one
\* of them can be locked, so that engaging a transfer does not come to
\* nothing.
SlotPromise == available > 0 => \E c \in Conns : Lockable(c)

\* "Leave one slot free" does: file transfers never occupy every login.
LeaveFreeKept ==
  LeaveFree /\ Cardinality(Conns) > 1 =>
    Cardinality(Using("dn")) + Cardinality(Using("up")) < Cardinality(Conns)

\* The transfers under way keep to every limit of the site at once: its
\* slots, its logins and the slot to be left free.
SlotLimitsKept == SlotsTypeOK /\ WithinLimits /\ LeaveFreeKept

\* No assert of ConnStateTracker or of registerDownloadLock fails.
SlotsNoAssert == ~asserted

\* A connection that is kept for a request is doing something for it, or
\* waits for local data: otherwise nothing will ever release it.
RequestNotStranded ==
  \A c \in Conns : conn[c].req # "none" =>
    conn[c].busy \/ isListOrTransferLocked(c) \/ conn[c].data = "live"

\* Once all connections are gone for good, so are the slots in use, but for
\* those that returnConn has lost: the delayed returns are all made.
SlotsComeBack ==
  <>[](\A c \in Conns : conn[c].link = "down") =>
    <>[](\A d \in Dirs : slots[d] = lost[d])
=============================================================================
