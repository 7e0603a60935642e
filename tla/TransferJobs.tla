---------------------------- MODULE TransferJobs ----------------------------
(***************************************************************************)
(* A transfer job (src/src/transferjob.cpp) and what Engine does with it   *)
(* (engine.cpp): the lists it asks its sites for, the transfers it starts  *)
(* one by one, their ends, the poke that decides when the job is over, the *)
(* user's abort and reset, and the engine's lists of jobs.                 *)
(*                                                                         *)
(* The job moves one item between a source and a destination, of which one *)
(* is the local disk unless the job is an FXP: a file (Where "root") or a  *)
(* directory "d" with a directory "e" in it.  A list is known by its side  *)
(* and subpath.  File names of skiplist rules are a set (Deny); the unique *)
(* and similar rules are left out, and so is the order of pending          *)
(* transfers (sfv and nfo files first): any pending file may be next.      *)
(***************************************************************************)
EXTENDS Integers, FiniteSets

CONSTANTS File,        \* the files of the item
          Where,       \* the subpath of the directory each file is in
          Deny,        \* files in a directory that the skiplist denies
          MaxSlots,    \* TransferJob::slots
          MAX_TRANSFER_ATTEMPTS_BEFORE_SKIP,
          MaxUser      \* bound on the user's aborts and resets

Sub == {"root", "d", "e"}
Side == {"src", "dst"}
Type == {"DOWNLOAD", "UPLOAD", "FXP"}

ASSUME TransferJobAssumption ==
  /\ IsFiniteSet(File) /\ Where \in [File -> Sub] /\ Deny \subseteq File
  /\ MaxSlots \in Nat \ {0} /\ MAX_TRANSFER_ATTEMPTS_BEFORE_SKIP \in Nat \ {0}
  /\ MaxUser \in Nat

VARIABLES
  kind,    \* the job's type and item, the destination's XDUPE, and whether
           \* maxtransferjobshistory has room for the job
  tj,      \* the TransferJob
  lists,   \* srcfilelists and dstfilelists: state, mark and known files
  xfer,    \* transfers by file: the latest, those in flight, late failures
  engine,  \* whether the engine knows the job, and counts the user's acts
  disk     \* files the destination really has

tjvars == <<kind, tj, lists, xfer, engine, disk>>

Status == {"QUEUED", "RUNNING", "DONE", "FAILED", "ABORTED"}
ListState == {"absent", "local", "UNKNOWN", "LISTED", "NONEXISTENT", "LISTFAILED"}
Mark == {"none", "NOW", "OK", "FINAL_NOW", "FINAL_OK"}
Ended == {"SUCCESSFUL", "FAILED", "DUPE", "TIMEOUT", "ABORTED"}

JobTypeOK ==
  /\ kind \in [type : Type, item : {"file", "dir"}, link : BOOLEAN, xdupe : BOOLEAN,
             history : BOOLEAN]
  /\ tj \in [st : Status, almost : BOOLEAN, total : 0..Cardinality(File),
             poke : BOOLEAN, existing : SUBSET File,
             attempts : [File -> Nat]]
  /\ lists \in [Side -> [state : [Sub -> ListState], mark : [Sub -> Mark],
                         known : SUBSET File]]
  /\ xfer \in [last : [File -> Ended \cup {"none", "IN_PROGRESS"}],
               mine : SUBSET File, old : SUBSET File, stuck : SUBSET File]
  /\ \A f \in xfer.mine : xfer.last[f] \in {"IN_PROGRESS", "ABORTED"}
  /\ engine \in [current : BOOLEAN, all : BOOLEAN, user : 0..MaxUser]
  /\ disk \subseteq File

IsDone(j) == j.st \in {"DONE", "FAILED", "ABORTED"}
Remote(sd) == CASE sd = "src" -> kind.type # "UPLOAD"
                [] sd = "dst" -> kind.type # "DOWNLOAD"
RemoteSides == {sd \in Side : Remote(sd)}
Wanted == {f \in File : (Where[f] = "root") <=> (kind.item = "file")}
In(s) == {f \in File : Where[f] = s}
Child(s) == CASE s = "root" -> "d" [] s = "d" -> "e" [] OTHER -> "root"
Dirs == {"d", "e"}
Running == {f \in xfer.mine : xfer.last[f] = "IN_PROGRESS"}

(***************************************************************************)
(* The lists.  A job state is a record of tj, lists and xfer, so that the  *)
(* steps of a handler can follow each other.                               *)
(***************************************************************************)
State == [t |-> tj, l |-> lists, x |-> xfer]

Become(c) == /\ tj' = c.t /\ lists' = c.l /\ xfer' = c.x

getListTargets(c, sd) ==
  {s \in Sub : /\ Remote(sd)
               /\ c.l[sd].state[s] \notin {"absent", "LISTFAILED"}
               /\ \/ c.l[sd].state[s] = "UNKNOWN"
                  \/ c.l[sd].mark[s] \in {"NOW", "FINAL_NOW"}}

anyListNeedsRefreshing(c) ==
  \E sd \in RemoteSides, s \in Sub :
    /\ c.l[sd].state[s] \notin {"absent", "LISTFAILED"}
    /\ c.l[sd].mark[s] \in {"NOW", "FINAL_NOW"}

\* One file at the root is not checked against the skiplist.
Counted == {f \in Wanted : Where[f] = "root" \/ f \notin Deny}

countTotalFiles(c) ==
  [c EXCEPT !.t.total = Cardinality(Counted \cap c.l["src"].known)]

\* The lists of directories join a side's lists unless they are there.
AddLists(l, dirs) ==
  [l EXCEPT !.state = [s \in Sub |-> IF s \in dirs /\ l.state[s] = "absent"
                                     THEN "UNKNOWN" ELSE l.state[s]],
            !.mark = [s \in Sub |-> IF s \in dirs /\ l.state[s] = "absent"
                                    THEN "NOW" ELSE l.mark[s]]]

addSubDirectoryFileLists(c, s) ==
  [c EXCEPT !.l = [sd \in Side |->
     IF Remote(sd) THEN AddLists(c.l[sd], {s} \ {"root"}) ELSE c.l[sd]]]

\* Whether the list of s shows a directory in it; the destination does when
\* it has files there.
ShowsDirectory(sd, s) ==
  /\ kind.item = "dir" /\ s # "e"
  /\ sd = "src" \/ \E f \in disk : Where[f] = Child(s) \/ Where[f] = "e"

\* updateLocalFileLists: the local disk is read at once.  The remote side
\* gets a list for every local directory.
LocalSide == IF kind.type = "DOWNLOAD" THEN "dst" ELSE "src"
LocalDirs == IF kind.type = "UPLOAD"
             THEN IF kind.item = "dir" THEN Dirs ELSE {}
             ELSE {s \in Dirs : \E f \in disk : Where[f] = s \/ (s = "d" /\ Where[f] = "e")}

updateLocalFileLists(c) ==
  IF kind.type = "FXP" THEN c
  ELSE [c EXCEPT !.l = [sd \in Side |->
     IF sd # LocalSide THEN AddLists(c.l[sd], LocalDirs)
     ELSE [c.l[sd] EXCEPT !.known = IF sd = "src" THEN Wanted
                                    ELSE disk \cup c.x.mine \cup c.x.stuck]]]

(***************************************************************************)
(* fileListUpdated: a list of the job has been read, or found missing.     *)
(***************************************************************************)
Refreshed(m) == CASE m = "FINAL_NOW" -> "FINAL_OK"
                  [] m \in {"none", "NOW"} -> "OK"
                  [] OTHER -> m

\* A link in the source's root: the job moves to the link's target.
followLink(c) ==
  [c EXCEPT !.l = [sd \in Side |->
     [state |-> [s \in Sub |-> IF sd = "src" /\ s = "root" THEN "UNKNOWN" ELSE c.l[sd].state[s]],
      mark |-> [s \in Sub |-> IF sd = "src" /\ s = "root" THEN "NOW" ELSE "none"],
      known |-> IF sd = "src" THEN c.l[sd].known \ In("root") ELSE c.l[sd].known]]]

fileListUpdated(c, sd, s, link) ==
  LET c1 == [c EXCEPT !.l[sd].mark[s] = Refreshed(@)]
      c2 == IF anyListNeedsRefreshing(c1) THEN c1 ELSE countTotalFiles(c1)
  IN  CASE link -> followLink(c2)
        [] ~link /\ c2.l[sd].state[s] = "LISTED" /\ ShowsDirectory(sd, s) ->
             addSubDirectoryFileLists(c2, Child(s))
        [] OTHER -> c2

(***************************************************************************)
(* updateStatus: the decision that the job is over.                        *)
(***************************************************************************)
Latest(c, states) == {f \in File : c.x.last[f] \in states}
setDone(j, how) == IF IsDone(j) THEN j ELSE [j EXCEPT !.st = how, !.poke = FALSE]

Accounted(c) ==
  Cardinality(c.t.existing \cup Latest(c, {"SUCCESSFUL"}))
    + Cardinality(Latest(c, {"FAILED", "DUPE"}))

\* Variant: a transfer under way does not keep the job open.
updateStatusImpatient(c) ==
  LET c1 == [c EXCEPT !.t.existing = @ \ Latest(c, {"SUCCESSFUL"})]
  IN  IF c1.t.almost THEN [c1 EXCEPT !.t = setDone(@, "DONE")] ELSE c1

updateStatus(c) ==
  LET c1 == [c EXCEPT !.t.existing = @ \ Latest(c, {"SUCCESSFUL"})]
      over == /\ c1.t.almost
              /\ Latest(c, {"IN_PROGRESS"}) = {}
              /\ Accounted(c1) >= c1.t.total
      verdict == IF Cardinality(Latest(c, {"SUCCESSFUL"})) < Cardinality(Latest(c, {"FAILED"}))
                 THEN "FAILED" ELSE "DONE"
  IN  IF over THEN [c1 EXCEPT !.t = setDone(@, verdict)] ELSE c1

(***************************************************************************)
(* Engine::refreshPendingTransferList                                      *)
(***************************************************************************)
hasFailedTransfer(c, f) ==
  c.t.attempts[f] >= MAX_TRANSFER_ATTEMPTS_BEFORE_SKIP

\* The files both of whose lists have been looked at.
Considered(c) ==
  {f \in Wanted \cap c.l["src"].known :
     \/ kind.type = "DOWNLOAD" /\ ~hasFailedTransfer(c, f)
     \/ kind.type # "DOWNLOAD" /\ c.l["dst"].state[Where[f]] \notin {"absent", "UNKNOWN"}}

Pending(c) == {f \in Considered(c) : /\ f \notin c.l["dst"].known
                                     /\ ~hasFailedTransfer(c, f)
                                     /\ f \in Counted}

refreshPendingTransferList(c) ==
  updateStatus([c EXCEPT !.t.existing =
    {f \in Considered(c) \cap c.l["dst"].known : c.x.last[f] = "none"}])

(***************************************************************************)
(* A job is created from lists the browser has, or from a path.  In a job  *)
(* created from lists the root has been listed already.                    *)
(***************************************************************************)
NoLists == [state |-> [s \in Sub |-> "absent"], mark |-> [s \in Sub |-> "none"],
            known |-> {}]
NewList(sd, listed) ==
  IF ~Remote(sd) THEN [NoLists EXCEPT !.state["root"] = "local"]
  ELSE [NoLists EXCEPT !.state["root"] = IF listed THEN "LISTED" ELSE "UNKNOWN",
                       !.mark["root"] = IF listed THEN "none" ELSE "NOW",
                       !.known = IF ~listed THEN {}
                                 ELSE IF sd = "src" THEN Wanted \cap In("root")
                                 ELSE disk \cap In("root")]
NewJob == [st |-> "QUEUED", almost |-> FALSE, total |-> 0, poke |-> FALSE,
           existing |-> {}, attempts |-> [f \in File |-> 0]]
NoTransfers(old) == [last |-> [f \in File |-> "none"], mine |-> {}, old |-> old, stuck |-> {}]

Created(listed) ==
  LET c0 == updateLocalFileLists(
              [t |-> NewJob, x |-> NoTransfers({}),
               l |-> [sd \in Side |-> NewList(sd, listed)]])
      c1 == IF listed /\ Remote("src") THEN fileListUpdated(c0, "src", "root", FALSE) ELSE c0
  IN  IF listed /\ Remote("dst") THEN fileListUpdated(c1, "dst", "root", FALSE) ELSE c1

JobInit ==
  /\ kind \in [type : Type, item : {"file", "dir"}, link : BOOLEAN, xdupe : BOOLEAN,
             history : BOOLEAN]
  /\ kind.link => kind.type # "UPLOAD" /\ kind.item = "file"
  /\ kind.xdupe => kind.type = "FXP"
  /\ disk \in SUBSET Wanted
  /\ \E listed \in BOOLEAN :
       /\ listed => ~kind.link
       /\ LET c == Created(listed)
          IN  tj = c.t /\ lists = c.l /\ xfer = c.x
  /\ engine = [current |-> TRUE, all |-> TRUE, user |-> 0]

(***************************************************************************)
(* A site lists a target of the job: listRefreshed, or the CWD that fails. *)
(* The answers are those of a directory that is there or not; the source   *)
(* has its directories.                                                    *)
(***************************************************************************)
List(sd, s) ==
  /\ engine.all /\ ~IsDone(tj)
  /\ s \in getListTargets(State, sd)
  /\ LET exists == sd = "src" \/ s = "root" \/ \E f \in disk : Where[f] = s \/ (s = "d" /\ Where[f] = "e")
         there == IF sd = "src" THEN Wanted ELSE disk \cup xfer.mine \cup xfer.stuck
         c1 == [State EXCEPT !.l[sd].state[s] = "LISTED",
                             !.l[sd].known = (@ \ In(s)) \cup (there \cap In(s))]
         c2 == [State EXCEPT !.l[sd].state[s] = IF @ = "UNKNOWN" THEN "NONEXISTENT" ELSE @]
         link == kind.link /\ sd = "src" /\ s = "root"
     IN  /\ Become(refreshPendingTransferList(
              fileListUpdated(IF exists THEN c1 ELSE c2, sd, s, link)))
         /\ kind' = [kind EXCEPT !.link = @ /\ ~link]
  /\ UNCHANGED <<engine, disk>>

\* Listings that keep failing: setPathExists and addListFailure end in FAILED.
ListGivesUp(sd, s) ==
  /\ engine.all /\ ~IsDone(tj)
  /\ s \in getListTargets(State, sd) /\ lists[sd].state[s] = "LISTED" /\ s # "root"
  /\ Become(refreshPendingTransferList(
       fileListUpdated([State EXCEPT !.l[sd].state[s] = "LISTFAILED"], sd, s, FALSE)))
  /\ UNCHANGED <<kind, engine, disk>>

(***************************************************************************)
(* Engine::transferJobActionRequest, by a connection of side sd that has   *)
(* nothing to list.                                                        *)
(***************************************************************************)
start(j) == IF j.st = "QUEUED" THEN [j EXCEPT !.st = "RUNNING", !.poke = TRUE] ELSE j

FinalMark(c, sd, s) ==
  CASE c.l[sd].state[s] = "absent" \/ c.l[sd].mark[s] = "FINAL_OK" -> c.l[sd].mark[s]
    [] s = "root" -> "FINAL_OK"
    [] OTHER -> "FINAL_NOW"

refreshOrAlmostDone(c) ==
  LET marked == {m \in RemoteSides \X Sub : c.l[m[1]].mark[m[2]] # "none"}
      final == {m \in marked : c.l[m[1]].mark[m[2]] = "FINAL_OK"}
      failed == {m \in marked : c.l[m[1]].state[m[2]] = "LISTFAILED"}
  IN  CASE c.t.almost -> c
        [] ~c.t.almost /\ final # {} /\ marked = final \cup failed ->
             [c EXCEPT !.t = start([@ EXCEPT !.almost = TRUE])]
        [] OTHER ->
             updateLocalFileLists(
               [c EXCEPT !.l = [sd \in Side |->
                  IF ~Remote(sd) THEN c.l[sd]
                  ELSE [c.l[sd] EXCEPT !.mark = [s \in Sub |-> FinalMark(c, sd, s)]]]])

clearRefreshLists(c) ==
  [c EXCEPT !.l = [sd \in Side |-> [c.l[sd] EXCEPT !.mark = [s \in Sub |-> "none"]]]]

MayRequest(sd) ==
  /\ engine.all /\ ~IsDone(tj) /\ Remote(sd)
  /\ getListTargets(State, sd) = {}
  /\ Cardinality(Running \cup xfer.old) < MaxSlots
  /\ kind.type = "FXP" => \A o \in Side : getListTargets(State, o) = {}

RequestNothing(c) == Pending(c) = {} /\ Become(refreshOrAlmostDone(c))

\* attempt*: a transfer begins, or fails before it is given its callback.
addTransfer(c, f, late) ==
  [c EXCEPT !.x.last[f] = IF late THEN "FAILED" ELSE "IN_PROGRESS",
            !.x.mine = IF late THEN @ ELSE @ \cup {f},
            !.x.stuck = IF late THEN @ \cup {f} ELSE @,
            !.l["dst"].known = @ \cup {f},
            !.t.existing = IF late THEN @ ELSE @ \ {f}]

RequestStart(c, f, late) ==
  LET c1 == addTransfer(clearRefreshLists(c), f, late)
  IN  Become([c1 EXCEPT !.t = start(@)])

\* No slot, or no connection can be locked.
RequestNoSlot(c) == Pending(c) # {} /\ Become(clearRefreshLists(c))

transferJobActionRequest(sd) ==
  /\ MayRequest(sd)
  /\ \E c \in {refreshPendingTransferList(State)} :
       \/ RequestNothing(c)
       \/ \E f \in Pending(c), late \in BOOLEAN : RequestStart(c, f, late)
       \/ RequestNoSlot(c)
  /\ UNCHANGED <<kind, engine, disk>>

(***************************************************************************)
(* The end of a transfer: TransferManager::transferSuccessful and          *)
(* transferFailed call the job back, which after a reset may be about a    *)
(* transfer of its former life.                                            *)
(***************************************************************************)
addTransferAttempt(c, F, success) ==
  [c EXCEPT !.t.attempts = [f \in File |->
     CASE f \notin F -> @[f]
       [] f \in F /\ success /\ Where[f] = "root" -> MAX_TRANSFER_ATTEMPTS_BEFORE_SKIP
       [] OTHER -> IF @[f] > MAX_TRANSFER_ATTEMPTS_BEFORE_SKIP THEN @[f] ELSE @[f] + 1]]

TransferSucceeds(f) ==
  /\ f \in Running
  /\ Become(addTransferAttempt(
       [State EXCEPT !.x.mine = @ \ {f}, !.x.last[f] = "SUCCESSFUL"], {f}, TRUE))
  /\ disk' = disk \cup {f}
  /\ UNCHANGED <<kind, engine>>

transferFailed(c, F) ==
  addTransferAttempt(
    [c EXCEPT !.l = [sd \in Side |->
       IF Remote(sd) /\ (sd = "src" \/ ~kind.xdupe)
       THEN [c.l[sd] EXCEPT !.mark = [s \in Sub |-> IF s \in {Where[f] : f \in F} THEN "NOW" ELSE @[s]]]
       ELSE c.l[sd]]], F, FALSE)

\* The transfers of F end without success and call the job back.  The list
\* forgets a file when the target reported the error first.
Unsuccessful(c, F, how, forget) ==
  transferFailed(
    [c EXCEPT !.x.mine = @ \ F,
              !.x.last = [f \in File |-> IF f \in F THEN how ELSE @[f]],
              !.l["dst"].known = @ \ forget], F)

\* A part of the file may have reached the disk.
TransferFails(f, how, forget, part) ==
  /\ f \in Running
  /\ forget # {} => kind.type # "DOWNLOAD" /\ how # "DUPE"
  /\ Become(Unsuccessful(State, {f}, how, forget))
  /\ disk' = disk \cup part
  /\ UNCHANGED <<kind, engine>>

FormerTransferEnds(f, success) ==
  /\ f \in xfer.old
  /\ LET c == [State EXCEPT !.x.old = @ \ {f}]
     IN  Become(IF success THEN addTransferAttempt(c, {f}, TRUE) ELSE c)
  /\ disk' = IF success THEN disk \cup {f} ELSE disk
  /\ UNCHANGED <<kind, engine>>

(***************************************************************************)
(* The pokes: the job's own, and the engine's.                             *)
(***************************************************************************)
JobTick ==
  /\ tj.poke
  /\ Become(updateStatus(State))
  /\ UNCHANGED <<kind, engine, disk>>

\* rotateTransferJobsHistory destroys a job that is over and not current.
Rotated(e) == [e EXCEPT !.current = FALSE, !.all = kind.history]

EngineTick ==
  /\ engine.current /\ IsDone(tj)
  /\ engine' = Rotated(engine)
  /\ UNCHANGED <<kind, tj, lists, xfer, disk>>

(***************************************************************************)
(* The user.                                                               *)
(***************************************************************************)
Acts == engine.all /\ engine.user < MaxUser

\* An abort disconnects the sides of the transfer, which ends it at once.  A
\* local side that has no socket yet reports nothing: the transfer never ends.
Hang(c, H) == [c EXCEPT !.x.last = [f \in File |-> IF f \in H THEN "ABORTED" ELSE @[f]]]

AbortTransfer(f) ==
  /\ engine.user < MaxUser /\ f \in Running
  /\ \/ \E forget, part \in SUBSET {f} :
          /\ forget # {} => kind.type # "DOWNLOAD"
          /\ Become(Unsuccessful(State, {f}, "ABORTED", forget))
          /\ disk' = disk \cup part
     \/ /\ kind.type # "FXP"
        /\ Become(Hang(State, {f}))
        /\ UNCHANGED disk
  /\ engine' = [engine EXCEPT !.user = @ + 1]
  /\ UNCHANGED kind

\* Variant: the job is aborted but its transfers go on.
AbortJobOnly ==
  /\ Acts
  /\ tj' = setDone(tj, "ABORTED")
  /\ engine' = [Rotated(engine) EXCEPT !.user = @ + 1]
  /\ UNCHANGED <<kind, lists, xfer, disk>>

\* TransferJob::abort disconnects the connections that are locked for the job.
\* The transfers of F end by it and those of H never do; the local side of the
\* others goes on, as the site's has finished and given its connection back.
AbortUnderWay(F, H, forget, part, old) ==
  /\ kind.type = "FXP" => F = Running /\ old = {}
  /\ forget # {} => kind.type # "DOWNLOAD"
  /\ LET c == Hang(Unsuccessful(State, F, "ABORTED", forget), H)
     IN  Become([c EXCEPT !.t = setDone(@, "ABORTED"), !.x.old = old])
  /\ disk' = disk \cup part

abortTransferJob ==
  /\ Acts
  /\ \/ IsDone(tj) /\ UNCHANGED <<tj, lists, xfer, disk>>
     \/ /\ ~IsDone(tj)
        /\ \E F \in SUBSET Running, old \in SUBSET xfer.old :
             \E H \in SUBSET (Running \ F), forget, part \in SUBSET F :
               AbortUnderWay(F, H, forget, part, old)
  /\ engine' = [Rotated(engine) EXCEPT !.user = @ + 1]
  /\ UNCHANGED kind

resetTransferJob ==
  /\ Acts
  /\ Become(updateLocalFileLists([t |-> NewJob, x |-> NoTransfers(xfer.old \cup Running),
              l |-> [sd \in Side |-> NewList(sd, FALSE)]]))
  /\ engine' = [engine EXCEPT !.current = TRUE, !.user = @ + 1]
  /\ UNCHANGED <<kind, disk>>

JobNext ==
  \/ \E sd \in Side, s \in Sub : List(sd, s) \/ ListGivesUp(sd, s)
  \/ \E sd \in Side : transferJobActionRequest(sd)
  \/ \E f \in File : TransferSucceeds(f)
  \/ \E f \in File, how \in {"FAILED", "DUPE", "TIMEOUT"} :
       \E forget, part \in SUBSET {f} : TransferFails(f, how, forget, part)
  \/ \E f \in File, success \in BOOLEAN : FormerTransferEnds(f, success)
  \/ JobTick
  \/ EngineTick
  \/ \E f \in File : AbortTransfer(f)
  \/ abortTransferJob
  \/ resetTransferJob

JobSpec == JobInit /\ [][JobNext]_tjvars

(***************************************************************************)
(* What must hold.                                                         *)
(***************************************************************************)
\* The poke that ends a job runs exactly while the job runs, and a job that
\* is not over is among those the engine's tick keeps alive
\* (TransferJob::start, setDone, reset; Engine::tick, resetTransferJob).
PokedAndCurrent ==
  /\ tj.poke <=> tj.st = "RUNNING"
  /\ ~IsDone(tj) => engine.current /\ engine.all

\* countTotalFiles looks up the destination's list of every subpath of the
\* source with at(), which throws when there is none (transferjob.cpp).
ListsPaired ==
  kind.type = "FXP" => \A s \in Sub :
    lists["src"].state[s] # "absent" => lists["dst"].state[s] # "absent"

\* A job that ends by itself has brought every file the skiplist lets through
\* to the destination, unless a transfer of the file has failed, and leaves no
\* transfer behind (updateStatus, refreshOrAlmostDone, countTotalFiles).  The
\* exception is a file that is counted as failed and may be tried again: the
\* refreshPendingTransferList that ends the job lists it as pending, and
\* transferJobActionRequest, which does not look at the status again, starts it.
DoneMeansDelivered ==
  [][(~IsDone(tj) /\ tj'.st \in {"DONE", "FAILED"}) =>
       /\ \A f \in xfer'.mine : xfer'.last[f] = "ABORTED" \/ tj.attempts[f] > 0
       /\ \A f \in Counted :
            \/ f \in disk \/ xfer'.last[f] \in Ended
            \/ f \in xfer'.mine /\ tj.attempts[f] > 0]_tjvars

\* A job does not hang: once there is nothing to list, nothing to transfer
\* and nothing under way, its account is complete and the next poke ends it.
\* Two kinds of files are not counted, and a job with such a file does hang:
\* updateStatus overlooks a last transfer that timed out or was aborted, and
\* transferSuccessful charges attempts of the job's life before a reset, which
\* a download then takes for failures.
Uncounted(f) == \/ xfer.last[f] \in {"TIMEOUT", "ABORTED"}
                \/ xfer.last[f] = "none" /\ hasFailedTransfer(State, f)

QuietTransferJobEnds ==
  (/\ tj.almost /\ ~IsDone(tj) /\ xfer.mine = {}
   /\ \A sd \in Side : getListTargets(State, sd) = {}
   /\ Pending(refreshPendingTransferList(State)) = {}
   /\ \A f \in Wanted : ~Uncounted(f))
  => tj.poke /\ IsDone(updateStatus(refreshPendingTransferList(State)).t)

\* The callback of a transfer is a raw pointer to its job, which the history
\* may destroy once the job is over and not current (Engine::abortTransferJob,
\* rotateTransferJobsHistory).  An aborted FXP has no transfer left under way,
\* not even of its life before a reset.  The first transfer of a file keeps the
\* engine's hold on any other job that was not aborted.  Not covered, and called
\* back after the job is gone, are: a retry that began as the job ended, the
\* local half of an aborted download or upload, and, whatever the job's type,
\* the transfers a reset has left behind (xfer.old, FormerTransferEnds), as
\* TransferJob::reset neither ends them nor clears their callback.
CallbackAlive ==
  /\ \A f \in Running : tj.attempts[f] = 0 /\ tj.st # "ABORTED" => engine.all
  /\ tj.st = "ABORTED" /\ kind.type = "FXP" => Running = {} /\ xfer.old = {}

\* A job that runs is poked, listed, has its lists in pairs and ends when there
\* is nothing left to do.  What its abort and its end promise of the transfers
\* that call it back is CallbackAlive, which leaves out those listed there.
JobInv ==
  JobTypeOK /\ PokedAndCurrent /\ ListsPaired /\ QuietTransferJobEnds /\ CallbackAlive
=============================================================================
