--------------------------- MODULE TransferMonitor ---------------------------
(***************************************************************************)
(* One TransferMonitor of cbftp and the parties it coordinates: up to two  *)
(* FTP control connections (one per side, source and target) and, for      *)
(* local downloads, uploads and listings, one LocalTransfer data socket.   *)
(*                                                                         *)
(* All of this runs on the single work thread.  A network event (a reply,  *)
(* a closed connection, an accepted data socket) or a tick is handled to   *)
(* completion before the next one, through synchronous calls that cross    *)
(* between FTPConn, SiteLogic, ConnStateTracker and TransferMonitor.  Each *)
(* event is one action; the calls nested in it are operators from a state  *)
(* record to a state record, so their order is the order of the code.      *)
(* What is not determined is which event comes next: the servers answer,   *)
(* fail or vanish in any order, and time passes at any rate.               *)
(***************************************************************************)
CONSTANTS
  Modes,       \* the transfers engaged: <<type, the side that listens>>
  MaxTime      \* is a maximum transfer time configured

Types == {"FXP", "DOWNLOAD", "UPLOAD", "LIST"}
Sides == {"src", "dst"}
Other(x) == IF x = "src" THEN "dst" ELSE "src"

ASSUME ConstantsAssumption ==
  /\ Modes \subseteq Types \X Sides
  /\ MaxTime \in BOOLEAN

VARIABLES
  tm,     \* the monitor's own fields and the TransferStatus it publishes
  conn,   \* the control connection of each side
  lt,     \* the local data socket
  rep     \* history: how each side's part in the current transfer ended

vars == <<tm, conn, lt, rep>>

(***************************************************************************)
(* TM_STATUS_* of transfermonitor.h.  Done(x) is the status in which only  *)
(* side x has completed, Err(x) the one in which only side x has failed.   *)
(***************************************************************************)
Done(x) == IF x = "src" THEN "SOURCE_COMPLETE" ELSE "TARGET_COMPLETE"
Err(x) == IF x = "src" THEN "SOURCE_ERROR" ELSE "TARGET_ERROR"
Awaiting == {"AWAITING_PASSIVE", "AWAITING_ACTIVE"}
Erring == {"SOURCE_ERROR", "TARGET_ERROR"}
Statuses == {"IDLE", "TRANSFERRING"} \cup Awaiting \cup Erring
            \cup {"SOURCE_COMPLETE", "TARGET_COMPLETE"}

(***************************************************************************)
(* What a connection is waiting for.  "none" is !isProcessing().  "prep"   *)
(* stands for PROT, CEPR and SSCN, "pasv" for PASV, EPSV and CPSV, "port"  *)
(* for PORT and EPRT, "xfer" for a RETR, STOR or LIST whose 150 is still   *)
(* to come, "data" for its final 226, "abor" for the PASV that cancels a   *)
(* listening socket, "other" for any command of another job.               *)
(***************************************************************************)
Cmds == {"none", "other", "cwd", "prep", "pret", "pasv", "port",
         "xfer", "data", "abor"}

(***************************************************************************)
(* How far ConnStateTracker has come for this monitor: "locked" after      *)
(* lockForTransfer, "set" after setTransfer or setList, "init" after       *)
(* initializeTransfer.                                                     *)
(***************************************************************************)
Holds == {"free", "locked", "set", "init"}
Links == {"down", "login", "up", "quit"}
LtStates == {"none", "reserved", "listening", "connecting", "open", "closed"}
Results == {"none", "inprogress", "successful", "failed", "dupe", "timeout",
            "aborted"}
Errors == {"OTHER", "RETRSTOR", "DUPE", "CLEANUP"}

\* Types; an idle monitor and an FXP transfer have no local data socket, and
\* a listing publishes no TransferStatus.
TypeOK ==
  /\ tm \in [status : Statuses, type : Types,
             pasv : Sides, error : Errors, timeout : BOOLEAN, ts : Results,
             mark : BOOLEAN, asserted : BOOLEAN]
  /\ conn \in [Sides -> [link : Links, cmd : Cmds, hold : Holds]]
  /\ lt \in LtStates
  /\ rep \in [Sides -> {"none", "ok", "err"}]
  /\ tm.status = "IDLE" \/ tm.type = "FXP" => lt = "none"
  /\ tm.type = "LIST" => tm.ts = "none"

State == [tm |-> tm, conn |-> conn, lt |-> lt, rep |-> rep]
\* (\E r \in {s}: TLC evaluates s once.)
Become(s) == \E r \in {s} : tm' = r.tm /\ conn' = r.conn /\ lt' = r.lt /\ rep' = r.rep

(***************************************************************************)
(* Predicates on a state.                                                  *)
(***************************************************************************)
\* sls (for "src") or sld (for "dst") is set: that side is a site connection.
IsSite(s, x) ==
  CASE s.tm.type = "FXP" -> TRUE
    [] s.tm.type = "UPLOAD" -> x = "dst"
    [] OTHER -> x = "src"

Idle(s) == s.tm.status = "IDLE"
WillFail(s) == s.tm.status \in Erring
Processing(c) == c.link \in {"login", "quit"} \/ c.cmd # "none"

\* A failed assert (or a null dereference) ends the program.
AssertFails(s) == [s EXCEPT !.tm.asserted = TRUE]
Report(s, x, r) ==
  [s EXCEPT !.rep[x] = r,
            !.tm.mark = IF x = "dst" THEN FALSE ELSE @]

(***************************************************************************)
(* SiteLogic::returnConn and ConnStateTracker::finishTransfer.  A command  *)
(* still outstanding is answered later, as a command of no transfer.       *)
(* handleConnection then looks for other work: see TakeWork.               *)
(***************************************************************************)
Return(s, x) ==
  [s EXCEPT !.conn[x].hold = "free",
            !.conn[x].cmd = IF @ = "none" THEN @ ELSE "other"]
Free(s, x) == [s EXCEPT !.conn[x].hold = "free"]
Send(s, x, c) == [s EXCEPT !.conn[x].cmd = c]

(***************************************************************************)
(* The ends of a transfer.                                                 *)
(***************************************************************************)
transferFailed(s, e) ==
  LET dupe == e = "DUPE" \/ (WillFail(s) /\ s.tm.error = "DUPE")
      outcome == IF dupe THEN "dupe"
                 ELSE IF s.tm.timeout THEN "timeout" ELSE "failed"
  IN [s EXCEPT !.tm.status = "IDLE",
               !.tm.ts = IF @ \in {"none", "aborted"} THEN @ ELSE outcome,
               !.lt = "none"]

finish(s) ==
  [s EXCEPT !.tm.status = "IDLE",
            !.tm.ts = IF @ = "none" THEN @ ELSE "successful",
            !.lt = "none"]

(***************************************************************************)
(* sourceError (x = "src") and targetError (x = "dst") up to the point     *)
(* where a DOWNLOAD or an UPLOAD closes what remains.                      *)
(***************************************************************************)
ErrorReport(s, x, e) ==
  LET o == Other(x)
      r == Report(s, x, "err")
      st == s.tm.status
  IN CASE st \notin Awaiting \cup {"TRANSFERRING", Done(o), Err(o)} ->
            AssertFails(s)
       [] st \in Awaiting /\ IsSite(s, o) /\ ~Processing(s.conn[o]) ->
            transferFailed([Return(r, o) EXCEPT !.tm.mark = FALSE], e)
       [] st \in {Done(o), Err(o)} ->
            transferFailed(r, e)
       [] OTHER ->
            [r EXCEPT !.tm.status = Err(x), !.tm.error = e]

\* lt->disconnect(), as closeRemainingConnections calls it: nothing happens
\* unless the LocalTransfer has a socket.
CloseLocal(s) ==
  LET l == IF s.tm.type = "UPLOAD" THEN "src" ELSE "dst"
  IN IF /\ s.tm.status \notin {"IDLE", Err(l), Done(l)}
        /\ s.lt \in {"listening", "connecting", "open"}
     THEN ErrorReport([s EXCEPT !.lt = "closed"], l, "OTHER")
     ELSE s

sideError(s, x, e) ==
  LET r == ErrorReport(s, x, e)
  IN IF /\ r.tm.status = Err(x) /\ ~r.tm.asserted
        /\ s.tm.type = (IF x = "src" THEN "DOWNLOAD" ELSE "UPLOAD")
     THEN CloseLocal(r)
     ELSE r

\* Variant: a completion after the other side's error counts as success.
sideCompleteForgives(s, x) ==
  LET r == Report(s, x, "ok")
  IN IF s.tm.status \in {"TRANSFERRING", "AWAITING_ACTIVE"}
     THEN [r EXCEPT !.tm.status = Done(x)]
     ELSE finish(r)

(***************************************************************************)
(* sourceComplete and targetComplete.                                      *)
(***************************************************************************)
sideComplete(s, x) ==
  LET o == Other(x)
      r == Report(s, x, "ok")
      early == IF x = "dst" THEN {"AWAITING_ACTIVE"} ELSE {}
      st == s.tm.status
  IN CASE st \notin early \cup {"TRANSFERRING", Done(o), Err(o)} -> AssertFails(s)
       [] st \in early \cup {"TRANSFERRING"} ->
            [r EXCEPT !.tm.status = Done(x)]
       [] st = Err(o) -> transferFailed(r, s.tm.error)
       [] OTHER -> finish(r)

(***************************************************************************)
(* SiteLogic::disconnectConn followed by connectConn.  A connection that   *)
(* is not processing says QUIT and is not logged in again until that is    *)
(* answered; any other is cut and logs in anew.                            *)
(***************************************************************************)
disconnectConn(s, x) ==
  LET r == IF s.conn[x].hold = "free" THEN s
           ELSE Free(sideError(s, x, "CLEANUP"), x)
      quits == r.conn[x].link = "up" /\ ~Processing(r.conn[x])
  IN [r EXCEPT !.conn[x].link = IF quits THEN "quit" ELSE "login",
               !.conn[x].cmd = "none"]

CloseSide(s, x) ==
  IF ~IsSite(s, x) \/ s.tm.status \in {"IDLE", Done(x), Err(x)}
  THEN s
  ELSE disconnectConn(s, x)

closeRemainingConnections(s) ==
  CloseLocal(CloseSide(CloseSide(s, "dst"), "src"))

finishTransferGracefullyPrematurely(s) ==
  IF s.conn["src"].hold \notin {"set", "init"} THEN AssertFails(s)
  ELSE disconnectConn(Free(sideComplete(s, "src"), "src"), "src")

(***************************************************************************)
(* SiteLogic::handleTransferFail on side x.                                *)
(***************************************************************************)
handleTransferFail(s, x, e) ==
  LET c == s.conn[x]
      a == IF /\ c.hold = "init" /\ s.tm.pasv = x /\ ~Processing(c)
              /\ e \in {"RETRSTOR", "DUPE"}
           THEN Send(s, x, "abor") ELSE s
  IN IF c.hold = "free" THEN AssertFails(s) ELSE Free(sideError(a, x, e), x)

(***************************************************************************)
(* SiteLogic::handleConnection on side x, through handleLockCheck,         *)
(* initTransfer and handlePreTransfer.  k says what the connection still   *)
(* needs before the transfer command: a CWD (or MKD), a mode command, a    *)
(* PRET, or nothing.                                                       *)
(***************************************************************************)
Needs == {"cwd", "prep", "pret", "nothing"}

initTransfer(s, x, k) ==
  LET r == [s EXCEPT !.conn[x].hold = "init"]
      passive == s.tm.pasv = x
      ready == IF passive THEN "AWAITING_PASSIVE" ELSE "AWAITING_ACTIVE"
  IN IF k = "cwd" /\ s.tm.type # "LIST" THEN Send(r, x, "cwd")
     ELSE IF k = "prep" THEN Send(r, x, "prep")
     ELSE IF s.tm.status # ready THEN r
     ELSE IF k = "pret" /\ passive THEN Send(r, x, "pret")
     ELSE Send(r, x, IF passive THEN "pasv" ELSE "port")

handleConnection(s, x, k) ==
  LET c == s.conn[x]
  IN IF Processing(c) \/ c.hold = "free" THEN s
     ELSE IF WillFail(s) THEN handleTransferFail(s, x, "OTHER")
     ELSE IF c.hold # "locked" THEN initTransfer(s, x, k)
     ELSE IF k = "cwd" THEN Send(s, x, "cwd")
     ELSE s

\* prepare{Passive,Active}{Transfer,List}: setTransfer or setList, then
\* initTransfer.
prepare(s, x, k) ==
  IF s.conn[x].hold # (IF s.tm.type = "LIST" THEN "free" ELSE "locked")
  THEN AssertFails(s)
  ELSE handleConnection([s EXCEPT !.conn[x].hold = "set"], x, k)

\* SiteLogic::download, upload and list.
startCommand(s, x) ==
  IF s.conn[x].hold = "init" THEN Send(s, x, "xfer")
  ELSE handleConnection(s, x, "nothing")

\* Variant: the error is reported but the connection is not returned.
readyTooLateKeepsConn(s) ==
  sideError(s, IF s.tm.status = "TARGET_ERROR" THEN "src" ELSE "dst", "OTHER")

(***************************************************************************)
(* The handshake: passiveReady, activeReady, activeStarted.                *)
(***************************************************************************)
\* The two error branches shared by passiveReady and activeReady.
readyTooLate(s) ==
  LET x == IF s.tm.status = "TARGET_ERROR" THEN "src" ELSE "dst"
  IN IF IsSite(s, x) THEN Return(sideError(s, x, "OTHER"), x) ELSE AssertFails(s)

\* Variant: an address that arrives after the other side failed is unexpected.
passiveReadyStrict(s, k) ==
  LET a == Other(s.tm.pasv)
      r == [s EXCEPT !.tm.status = "AWAITING_ACTIVE"]
  IN IF s.tm.status # "AWAITING_PASSIVE" THEN AssertFails(s)
     ELSE IF IsSite(s, a) THEN prepare(r, a, k)
     ELSE [r EXCEPT !.lt = "connecting"]

passiveReady(s, k) ==
  LET a == Other(s.tm.pasv)
      r == [s EXCEPT !.tm.status = "AWAITING_ACTIVE"]
  IN CASE s.tm.status = "AWAITING_PASSIVE" ->
            IF IsSite(s, a) THEN prepare(r, a, k)
            ELSE [r EXCEPT !.lt = "connecting"]
       [] WillFail(s) -> readyTooLate(s)
       [] OTHER -> AssertFails(s)

activeReady(s) ==
  CASE s.tm.status = "AWAITING_ACTIVE" -> startCommand(s, Other(s.tm.pasv))
    [] WillFail(s) -> readyTooLate(s)
    [] OTHER -> AssertFails(s)

activeStarted(s) ==
  LET r == [s EXCEPT !.tm.status = "TRANSFERRING"]
  IN CASE s.tm.status = "AWAITING_ACTIVE" ->
            IF IsSite(s, s.tm.pasv) THEN startCommand(r, s.tm.pasv) ELSE r
       [] s.tm.status \in Erring \cup {"TARGET_COMPLETE"} -> s
       [] OTHER -> AssertFails(s)

-----------------------------------------------------------------------------
(***************************************************************************)
(* Engaging an idle monitor (TransferManager::getAvailableTransferMonitor  *)
(* hands out any monitor that is idle).                                    *)
(***************************************************************************)
reset(t, p) ==
  [State EXCEPT !.tm = [status |-> "AWAITING_PASSIVE", type |-> t, pasv |-> p,
                        error |-> tm.error, timeout |-> FALSE, ts |-> "none",
                        mark |-> FALSE, asserted |-> tm.asserted],
                !.rep = [x \in Sides |-> "none"],
                !.lt = "none"]

\* lockTransferConn takes a logged in connection that is not hard locked; it
\* may still be busy with another command.
Lockable(x) == conn[x].link = "up" /\ conn[x].hold = "free"
lockTransferConn(s, x, k) ==
  handleConnection([s EXCEPT !.conn[x].hold = "locked"], x, k)

\* The TransferStatus is created and the target file marked as uploading.
announce(s) ==
  [s EXCEPT !.tm.ts = "inprogress",
            !.tm.mark = IF IsSite(s, "dst") THEN TRUE ELSE @]

\* lateFXPFailure, lateDownloadFailure and lateUploadFailure: the sites
\* cannot be combined, or the local file is not there (or is, already).
lateFailure(s, ts) ==
  LET r == [s EXCEPT !.tm.ts = ts, !.tm.status = "IDLE"]
      back(q, x) == IF IsSite(q, x) THEN Return(q, x) ELSE q
  IN back(back(r, "src"), "dst")

engageFXP(p, ks, kd) ==
  /\ <<"FXP", p>> \in Modes
  /\ Idle(State) /\ Lockable("src")
  /\ LET s == lockTransferConn(reset("FXP", p), "src", ks)
         both == announce(lockTransferConn(s, "dst", kd))
     IN \/ \* no upload connection or slot: the download connection goes back
           Become([Return(s, "src") EXCEPT !.tm.status = "IDLE"])
        \/ /\ Lockable("dst")
           /\ \/ Become(lateFailure(both, "failed"))
              \/ Become(prepare(both, p, IF p = "src" THEN ks ELSE kd))

\* A download or an upload between side x's site and this host.  Active mode
\* listens at once and passes the port to the site within the same call.
engageLocal(t, x, p, k) ==
  /\ <<t, p>> \in Modes
  /\ Idle(State) /\ Lockable(x)
  /\ LET s == announce(lockTransferConn(reset(t, p), x, k))
     IN \/ \E ts \in {"failed", "dupe"} : Become(lateFailure(s, ts))
        \/ IF p = x THEN Become([prepare(s, x, k) EXCEPT !.lt = "reserved"])
           ELSE Become([passiveReady(s, k) EXCEPT !.lt = "listening"])

\* A listing runs on the connection that asked for it, which is free.
engageList(p, k) ==
  /\ <<"LIST", p>> \in Modes
  /\ Idle(State) /\ Lockable("src") /\ ~Processing(conn["src"])
  /\ LET s == reset("LIST", p)
     IN IF p = "src" THEN Become([prepare(s, "src", k) EXCEPT !.lt = "reserved"])
        ELSE Become([passiveReady(s, k) EXCEPT !.lt = "listening"])

-----------------------------------------------------------------------------
(***************************************************************************)
(* Replies and events on the control connection of side x.                 *)
(***************************************************************************)
\* handleConnection of a connection this monitor does not hold finds other
\* work for it; so do activateOne and haveConnectedActivate.
TakeWork(x) ==
  /\ Lockable(x) /\ ~Processing(conn[x])
  /\ Become(Send(State, x, "other"))

login(x) ==
  /\ conn[x].link = "down"
  /\ Become([State EXCEPT !.conn[x].link = "login"])

LoginReply(x, ok) ==
  /\ conn[x].link = "login"
  /\ Become([State EXCEPT !.conn[x].link = IF ok THEN "up" ELSE "down"])

QUITResponse(x) ==
  /\ conn[x].link = "quit"
  /\ Become([State EXCEPT !.conn[x].link = "down"])

Pending(x, c) == conn[x].link = "up" /\ conn[x].cmd = c
Answered(x) == Send(State, x, "none")

\* SiteLogic::disconnected: the peer closed the control connection, or an
\* unexpected reply made commandFail drop it (to = "login": reconnect()).
Cut(s, x, to) ==
  [(IF s.conn[x].hold = "free" THEN s
    ELSE Free(sideError(s, x, "CLEANUP"), x))
   EXCEPT !.conn[x].link = to, !.conn[x].cmd = "none"]

FDDisconnected(x) ==
  /\ conn[x].link # "down"
  /\ Become(Cut(State, x, "down"))

\* Variant: the reply to an earlier command does not resume the transfer.
OtherReplyForgets(x, k, ok) ==
  /\ Pending(x, "other")
  /\ Become(IF ok THEN Answered(x) ELSE Cut(Answered(x), x, "login"))

OtherReply(x, k, ok) ==
  /\ Pending(x, "other")
  /\ Become(IF ok THEN handleConnection(Answered(x), x, k)
            ELSE Cut(Answered(x), x, "login"))

\* A failed CWD ends the transfer, unless it only showed that the directory
\* is not there, belongs to a transfer job, or was sent before initTransfer:
\* then the connection tries again.  MKD is a step within "cwd".
CWDReply(x, k, ok) ==
  /\ Pending(x, "cwd")
  /\ \/ Become(handleConnection(Answered(x), x, k))
     \/ /\ ~ok /\ conn[x].hold # "set"
        /\ Become(handleTransferFail(Answered(x), x, "OTHER"))

PrepReply(x, k, ok) ==
  /\ Pending(x, "prep")
  /\ \/ ok /\ Become(handleConnection(Answered(x), x, k))
     \/ ~ok /\ \/ Become(handleTransferFail(Answered(x), x, "OTHER"))
               \/ Become(Cut(Answered(x), x, "login"))

PRETReply(x, ok) ==
  /\ Pending(x, "pret")
  /\ \/ ok /\ Become(Send(State, x, "pasv"))
     \/ ~ok /\ \E e \in {"OTHER"} \cup (IF x = "dst" THEN {"DUPE"} ELSE {}) :
                 Become(handleTransferFail(Answered(x), x, e))

PASVReply(x, k, ok) ==
  /\ Pending(x, "pasv")
  /\ Become(IF ok THEN passiveReady(Answered(x), k)
            ELSE handleTransferFail(Answered(x), x, "OTHER"))

PORTReply(x, ok) ==
  /\ Pending(x, "port")
  /\ Become(IF ok THEN activeReady(Answered(x))
            ELSE handleTransferFail(Answered(x), x, "OTHER"))

\* commandSuccess for RETR, STOR or LIST: the data connection is being opened.
started(s, x) ==
  LET r == Send(s, x, "data")
  IN IF s.tm.pasv = x THEN r ELSE activeStarted(r)

\* commandSuccess for RETR_COMPLETE, STOR_COMPLETE or LIST_COMPLETE.
completed(s, x) ==
  IF s.conn[x].hold # "init" THEN AssertFails(s)
  ELSE Free(sideComplete(Send(s, x, "none"), x), x)

\* RETRResponse and STORResponse: 150, or a 226 that says both at once.
StartReply(x, code) ==
  /\ Pending(x, "xfer")
  /\ LET s == started(State, x)
     IN CASE code = 150 -> Become(s)
          [] code = 226 ->
               Become(IF s.tm.asserted THEN s ELSE completed(s, x))
          [] OTHER ->
               \E e \in {"RETRSTOR"} \cup (IF x = "dst" THEN {"DUPE"} ELSE {}) :
                 Become(handleTransferFail(Answered(x), x, e))

CompleteReply(x, ok) ==
  /\ Pending(x, "data")
  /\ Become(IF ok THEN completed(State, x)
            ELSE handleTransferFail(Answered(x), x, "OTHER"))

PASVAbortResponse(x, k) ==
  /\ Pending(x, "abor")
  /\ Become(handleConnection(Answered(x), x, k))

-----------------------------------------------------------------------------
(***************************************************************************)
(* Events of the local data socket.  A LocalDownload is the target, a      *)
(* LocalUpload the source.                                                 *)
(***************************************************************************)
LocalSide == IF tm.type = "UPLOAD" THEN "src" ELSE "dst"

\* A server opens the data connection when it is told to transfer.
FDInterNew ==
  /\ lt = "listening"
  /\ conn[Other(LocalSide)].cmd \in {"xfer", "data"}
  /\ Become([State EXCEPT !.lt = "open"])

FDInterConnected ==
  /\ lt = "connecting"
  /\ Become(activeStarted([State EXCEPT !.lt = "open"]))

\* The peer closed a download's data connection in good order, or the last
\* chunk of an upload has been sent.
LocalComplete ==
  /\ lt = "open"
  /\ Become(sideComplete([State EXCEPT !.lt = "closed"], LocalSide))

\* FDFail, FDInterDisconnected with an error, a file that cannot be opened,
\* or no one having connected within five seconds.
LocalError ==
  /\ lt \in {"listening", "connecting", "open"}
  /\ Become(sideError([State EXCEPT !.lt = "closed"], LocalSide, "OTHER"))

-----------------------------------------------------------------------------
\* Variant: a target that never completes is waited for without end.
checkErrorsOnly ==
  /\ tm.type = "FXP" /\ tm.status \in Erring
  /\ Become(closeRemainingConnections(State))

(***************************************************************************)
(* The monitor's tick, once per second, and the user's abort.  The waits   *)
(* of MAX_WAIT_ERROR, MAX_WAIT_SOURCE_COMPLETE and of the maximum transfer *)
(* time may run out before or after any reply.                             *)
(***************************************************************************)
checkForDeadFXPTransfers ==
  /\ tm.type = "FXP"
  /\ \/ /\ tm.status \in Erring \cup {"SOURCE_COMPLETE"}
        /\ Become(closeRemainingConnections(State))
     \/ /\ tm.status = "TARGET_COMPLETE"
        /\ Become(finishTransferGracefullyPrematurely(State))

checkMaxTransferTime ==
  /\ MaxTime \/ tm.type = "LIST"
  /\ tm.status \in Awaiting \cup {"TRANSFERRING"}
  /\ Become([closeRemainingConnections(State) EXCEPT !.tm.timeout = TRUE])

abortTransfer ==
  /\ ~Idle(State) /\ tm.type # "LIST"
  /\ Become([closeRemainingConnections(State) EXCEPT !.tm.ts = "aborted"])

-----------------------------------------------------------------------------
Init ==
  /\ tm = [status |-> "IDLE", type |-> "FXP", pasv |-> "src",
           error |-> "OTHER", timeout |-> FALSE, ts |-> "none",
           mark |-> FALSE, asserted |-> FALSE]
  /\ conn = [x \in Sides |-> [link |-> "down", cmd |-> "none", hold |-> "free"]]
  /\ lt = "none"
  /\ rep = [x \in Sides |-> "none"]

Engage ==
  \/ \E p \in Sides, ks, kd \in Needs : engageFXP(p, ks, kd)
  \/ \E p \in Sides, k \in Needs :
       \/ engageLocal("DOWNLOAD", "src", p, k)
       \/ engageLocal("UPLOAD", "dst", p, k)
       \/ engageList(p, k)

ConnEvent(x) ==
  \/ TakeWork(x) \/ login(x) \/ QUITResponse(x) \/ FDDisconnected(x)
  \/ \E ok \in BOOLEAN :
       LoginReply(x, ok) \/ PRETReply(x, ok) \/ PORTReply(x, ok)
       \/ CompleteReply(x, ok)
  \/ \E k \in Needs, ok \in BOOLEAN :
       OtherReply(x, k, ok) \/ CWDReply(x, k, ok) \/ PrepReply(x, k, ok)
       \/ PASVReply(x, k, ok)
  \/ \E code \in {150, 226, 550} : StartReply(x, code)
  \/ \E k \in Needs : PASVAbortResponse(x, k)

LocalEvent == FDInterNew \/ FDInterConnected \/ LocalComplete \/ LocalError

tick == checkForDeadFXPTransfers \/ checkMaxTransferTime

Next ==
  /\ ~tm.asserted
  /\ Engage \/ (\E x \in Sides : ConnEvent(x)) \/ LocalEvent \/ tick
     \/ abortTransfer

\* TickPoke keeps ticking: a check that stays due is made.
Spec == Init /\ [][Next]_vars /\ WF_vars(~tm.asserted /\ tick)
-----------------------------------------------------------------------------
(***************************************************************************)
(* Properties.                                                             *)
(***************************************************************************)
\* No order of replies, closed connections, data socket events and timeouts
\* makes an assert of TransferMonitor, SiteLogic or ConnStateTracker fail.
NoAssertFails == ~tm.asserted

\* The monitor and the connections agree on who takes part: a connection is
\* locked exactly as long as its side has neither completed nor failed.  A
\* connection that stays locked to an idle monitor is lost to the site; one
\* that is given back early is used by two transfers at once.
Ownership ==
  \A x \in Sides :
    /\ conn[x].hold # "free" <=>
         IsSite(State, x) /\ tm.status \notin {"IDLE", Done(x), Err(x)}
    /\ conn[x].hold # "free" => conn[x].link = "up"
    /\ conn[x].cmd \in {"prep", "pret", "pasv", "port", "xfer", "data"} =>
         conn[x].hold = "init"

\* The sides are commanded in the order a data connection needs: the active
\* side learns the address only after the passive side listens, and the
\* passive side is told to transfer only after the active side has started.
HandshakeOrder ==
  \A x \in Sides :
    /\ conn[x].cmd = "port" => tm.pasv # x /\ tm.status # "AWAITING_PASSIVE"
    /\ conn[x].cmd \in {"pret", "pasv"} =>
         tm.pasv = x /\ tm.status \in {"AWAITING_PASSIVE"} \cup Erring
    /\ conn[x].cmd \in {"xfer", "data"} =>
         tm.status \notin {"AWAITING_PASSIVE"}
           \cup (IF tm.pasv = x THEN {"AWAITING_ACTIVE"} ELSE {})

\* The monitor, its two connections and the local socket agree on who holds
\* what and whose turn it is, whatever order their events arrive in.
TransferInv == TypeOK /\ Ownership /\ HandshakeOrder

\* Nobody waits on everybody: before a side has completed or failed there is
\* always an outstanding command or a live data socket whose outcome moves the
\* transfer on, and once it is TRANSFERRING every site has its command.
NoSilentWait ==
  /\ tm.status \in Awaiting =>
       \/ \E x \in Sides : conn[x].hold # "free" /\ conn[x].cmd # "none"
       \/ lt \in {"connecting", "open"}
  /\ tm.status = "TRANSFERRING" =>
       \A x \in Sides : IsSite(State, x) => conn[x].cmd \in {"xfer", "data"}

\* What the published TransferStatus says when the monitor is idle is true:
\* it is not in progress, and it is successful exactly when both sides
\* reported completion (an aborted transfer says nothing); and once a side has
\* reported, the target file is no longer marked as uploading, which would keep
\* the file list of the race from being complete (a late failure, which no side
\* reports, leaves the mark of touchFile where it is).
Verdict ==
  tm.status = "IDLE" =>
    /\ tm.ts # "inprogress"
    /\ (\E x \in Sides : rep[x] # "none") => ~tm.mark
    /\ tm.ts \notin {"none", "aborted"} =>
         (tm.ts = "successful" <=> \A x \in Sides : rep[x] = "ok")

\* Every engaged FXP transfer ends and the monitor is free for the next one,
\* whatever the two sites answer or fail to answer: the ticks see to it.
EventuallyIdle == tm.type = "FXP" /\ tm.status # "IDLE" ~> tm.status = "IDLE"
=============================================================================
