--------------------------- MODULE ServicesProofs ---------------------------
(***************************************************************************)
(* Proofs about what is asked of cbftp from the outside.                   *)
(*                                                                         *)
(* TransferJobs: a transfer job's lists, transfers and account agree       *)
(* (JobInv), and a job that ends has delivered (DoneMeansDelivered), for   *)
(* any finite set of files and any bounds.                                 *)
(*                                                                         *)
(* RemoteCommands: a command means the same over UDP as over the REST      *)
(* interface, and what its words say (InterfacesAgree), for any sites,     *)
(* sections and paths.                                                     *)
(*                                                                         *)
(* RestApi: every request is answered once, in turn and to the client that *)
(* made it (RestInv), for any numbers of sites, connections and requests,  *)
(* without the clients that post raw commands with "async".                *)
(***************************************************************************)
EXTENDS TransferJobs, RemoteCommands, RestApi, FiniteSetTheorems, SequenceTheorems, NaturalsInduction,
        WellFoundedInduction, TLAPS

JobRec == [st : Status, almost : BOOLEAN, total : 0..Cardinality(File),
           poke : BOOLEAN, existing : SUBSET File, attempts : [File -> Nat]]
ListsRec == [state : [Sub -> ListState], mark : [Sub -> Mark], known : SUBSET File]
XferRec == [last : [File -> Ended \cup {"none", "IN_PROGRESS"}],
            mine : SUBSET File, old : SUBSET File, stuck : SUBSET File]
StateRec == [t : JobRec, l : [Side -> ListsRec], x : XferRec]

(***************************************************************************)
(* The inductive invariant, of a state of the job and of the files on the  *)
(* destination's disk.                                                     *)
(***************************************************************************)
\* Polled while it runs, and over only after it was almost done or aborted.
StatusGood(t) ==
  /\ t.poke <=> t.st = "RUNNING"
  /\ t.almost => t.st # "QUEUED"
  /\ t.st \in {"DONE", "FAILED"} => t.almost

\* Where the source has been listed, its files are known, and its directory has
\* a list of its own, but for S; the destination has a list wherever a known
\* file is.
SourceGoodBut(l, S) ==
  /\ l["src"].known \subseteq Wanted
  /\ l["src"].state["root"] # "absent" /\ l["dst"].state["root"] # "absent"
  /\ kind.type = "UPLOAD" =>
       /\ l["src"].known = Wanted
       /\ kind.item = "dir" => \A s \in Dirs : l["dst"].state[s] # "absent"
  /\ kind.type # "UPLOAD" =>
       /\ l["src"].state["root"] # "LISTFAILED"
       /\ \A s \in Sub :
            /\ l["src"].state[s] \notin {"NONEXISTENT", "local"}
            /\ l["src"].state[s] \in {"LISTED", "LISTFAILED"} =>
                 /\ Wanted \cap In(s) \subseteq l["src"].known
                 /\ kind.item = "dir" /\ s \notin {"e"} \cup S =>
                      l["src"].state[Child(s)] # "absent"
  /\ kind.type = "FXP" =>
       /\ \A s \in Sub : l["src"].state[s] # "absent" => l["dst"].state[s] # "absent"
       /\ \A f \in l["src"].known : l["src"].state[Where[f]] # "absent"

\* A file the destination's list knows is on disk or was transferred, and the
\* list knows those under way and those that failed late.
TargetGood(l, x, D) ==
  /\ \A f \in l["dst"].known : f \in D \/ x.last[f] # "none"
  /\ x.mine \cup x.stuck \subseteq l["dst"].known
  /\ x.mine \cap x.stuck = {}

\* What the latest transfer of a file says of its attempts.
XferGood(t, x, D) ==
  \A f \in File :
    /\ f \in x.mine => x.last[f] \in {"IN_PROGRESS", "ABORTED"}
    /\ x.last[f] = "IN_PROGRESS" => f \in x.mine
    /\ x.last[f] # "none" => f \in x.mine \/ f \in x.stuck \/ t.attempts[f] > 0
    /\ t.attempts[f] > 0 => f \in D \/ x.last[f] # "none"

\* The total is no more than the files that are known, unless the job has just
\* been moved to a link's target.
TotalGood(t, l) ==
  /\ t.total <= Cardinality(Counted)
  /\ \/ t.total <= Cardinality(Counted \cap l["src"].known)
     \/ kind.item = "file" /\ kind.type # "UPLOAD" /\ l["src"].state["root"] = "UNKNOWN"

\* In a job that is almost done every file has been transferred, or is there.
AlmostGood(t, l, x, D) ==
  t.almost => \A f \in Counted :
    \/ x.last[f] # "none"
    \/ f \in D /\ (f \in l["dst"].known \/ t.attempts[f] > 0)

\* Only retries outlive a job that ends by itself, and nothing an aborted FXP.
OverGood(t, x) ==
  /\ IsDone(t) /\ t.st # "ABORTED" =>
       \A f \in x.mine : x.last[f] = "ABORTED" \/ t.attempts[f] > 0
  /\ t.st = "ABORTED" /\ kind.type = "FXP" =>
       (\A f \in x.mine : x.last[f] = "ABORTED") /\ x.old = {}

GoodBut(c, D, S) ==
  /\ c \in StateRec
  /\ StatusGood(c.t)
  /\ SourceGoodBut(c.l, S)
  /\ TargetGood(c.l, c.x, D)
  /\ XferGood(c.t, c.x, D)
  /\ TotalGood(c.t, c.l)
  /\ AlmostGood(c.t, c.l, c.x, D)
  /\ OverGood(c.t, c.x)

SourceGood(l) == SourceGoodBut(l, {})
Good(c, D) == GoodBut(c, D, {})

\* kind, and the engine, which keeps a job that is not over.
KindGood ==
  /\ kind \in [type : Type, item : {"file", "dir"}, link : BOOLEAN, xdupe : BOOLEAN,
               history : BOOLEAN]
  /\ kind.link => kind.type # "UPLOAD" /\ kind.item = "file"

EngineGood ==
  /\ engine \in [current : BOOLEAN, all : BOOLEAN, user : 0..MaxUser]
  /\ ~IsDone(tj) => engine.current /\ engine.all

JobStrong == KindGood /\ disk \subseteq File /\ Good(State, disk) /\ EngineGood

(***************************************************************************)
(* Facts about finite sets of files and about the fields of a state.       *)
(***************************************************************************)
LEMMA FileSets ==
  ASSUME NEW S \in SUBSET File
  PROVE /\ IsFiniteSet(S) /\ Cardinality(S) \in Nat /\ Cardinality(S) <= Cardinality(File)
        /\ \A R \in SUBSET S : Cardinality(R) <= Cardinality(S)
BY TransferJobAssumption, FS_Subset, FS_CardinalityType DEF TransferJobAssumption

LEMMA FilesWanted ==
  /\ Counted \in SUBSET File /\ Wanted \in SUBSET File /\ Counted \subseteq Wanted
  /\ \A f \in File : Where[f] \in Sub
BY TransferJobAssumption DEF TransferJobAssumption, Counted, Wanted, In

LEMMA StateFields ==
  ASSUME NEW c \in StateRec
  PROVE /\ c = [t |-> c.t, l |-> c.l, x |-> c.x]
        /\ c.t \in JobRec /\ c.l \in [Side -> ListsRec] /\ c.x \in XferRec
        /\ c.l["src"] \in ListsRec /\ c.l["dst"] \in ListsRec
BY DEF StateRec, Side

\* Marks say what is still to be listed, and nothing of what is known.
KeptButMarks(l, l2) ==
  \A sd \in Side : l2[sd].state = l[sd].state /\ l2[sd].known = l[sd].known

LEMMA GoodParts ==
  ASSUME NEW c, NEW D
  PROVE Good(c, D) <=>
          /\ c \in StateRec
          /\ StatusGood(c.t)
          /\ SourceGood(c.l)
          /\ TargetGood(c.l, c.x, D)
          /\ XferGood(c.t, c.x, D)
          /\ TotalGood(c.t, c.l)
          /\ AlmostGood(c.t, c.l, c.x, D)
          /\ OverGood(c.t, c.x)
BY DEF Good, GoodBut, SourceGood

LEMMA GoodMarks ==
  ASSUME NEW D, NEW c, NEW S, GoodBut(c, D, S),
         NEW c2 \in StateRec, c2.t = c.t, c2.x = c.x, KeptButMarks(c.l, c2.l)
  PROVE GoodBut(c2, D, S)
<1>1. /\ c2.l["src"].state = c.l["src"].state /\ c2.l["src"].known = c.l["src"].known
      /\ c2.l["dst"].state = c.l["dst"].state /\ c2.l["dst"].known = c.l["dst"].known
  BY DEF KeptButMarks, Side
<1>2. SourceGoodBut(c2.l, S) BY <1>1 DEF GoodBut, SourceGoodBut
<1>3. TargetGood(c2.l, c2.x, D) BY <1>1 DEF GoodBut, TargetGood
<1>4. TotalGood(c2.t, c2.l) BY <1>1 DEF GoodBut, TotalGood
<1>5. AlmostGood(c2.t, c2.l, c2.x, D) BY <1>1 DEF GoodBut, AlmostGood
<1> QED BY <1>2, <1>3, <1>4, <1>5 DEF GoodBut

\* The status as updateStatus leaves it.
StatusStep(c, t) ==
  /\ t \in JobRec
  /\ t.attempts = c.t.attempts /\ t.total = c.t.total /\ t.almost = c.t.almost
  /\ \/ t.st = c.t.st /\ t.poke = c.t.poke
     \/ /\ ~IsDone(c.t) /\ c.t.almost /\ Latest(c, {"IN_PROGRESS"}) = {}
        /\ t.st \in {"DONE", "FAILED"} /\ t.poke = FALSE

LEMMA GoodStatus ==
  ASSUME NEW D, NEW c, Good(c, D),
         NEW c2 \in StateRec, c2.l = c.l, c2.x = c.x, StatusStep(c, c2.t)
  PROVE Good(c2, D)
<1>1. StatusGood(c2.t) BY GoodParts DEF StatusGood, StatusStep, IsDone
<1>2. XferGood(c2.t, c2.x, D) BY GoodParts DEF XferGood, StatusStep
<1>3. TotalGood(c2.t, c2.l) BY GoodParts DEF TotalGood, StatusStep
<1>4. AlmostGood(c2.t, c2.l, c2.x, D) BY GoodParts DEF AlmostGood, StatusStep
<1>5. OverGood(c2.t, c2.x)
  <2>1. CASE c2.t.st = c.t.st BY <2>1, GoodParts DEF OverGood, StatusStep, IsDone
  <2>2. CASE Latest(c, {"IN_PROGRESS"}) = {} /\ c2.t.st \in {"DONE", "FAILED"}
    <3>1. ASSUME NEW f \in c2.x.mine PROVE c2.x.last[f] = "ABORTED"
      <4>1. f \in File BY <3>1, StateFields DEF XferRec
      <4> QED BY <2>2, <3>1, <4>1, GoodParts DEF XferGood, Latest
    <3> QED BY <2>2, <3>1 DEF OverGood
  <2> QED BY <2>1, <2>2 DEF StatusStep
<1> QED BY <1>1, <1>2, <1>3, <1>4, <1>5, GoodParts

(***************************************************************************)
(* updateStatus and refreshPendingTransferList.                            *)
(***************************************************************************)
LEMMA SetDone ==
  ASSUME NEW t \in JobRec, NEW how \in Status
  PROVE /\ setDone(t, how) \in JobRec
        /\ IsDone(t) => setDone(t, how) = t
        /\ ~IsDone(t) => setDone(t, how).st = how /\ setDone(t, how).poke = FALSE
        /\ setDone(t, how).attempts = t.attempts /\ setDone(t, how).total = t.total
        /\ setDone(t, how).almost = t.almost /\ setDone(t, how).existing = t.existing
BY DEF JobRec, setDone, IsDone

LEMMA UpdateStatus ==
  ASSUME NEW c \in StateRec
  PROVE /\ updateStatus(c) \in StateRec
        /\ updateStatus(c).l = c.l /\ updateStatus(c).x = c.x
        /\ StatusStep(c, updateStatus(c).t)
<1> DEFINE c1 == [c EXCEPT !.t.existing = @ \ Latest(c, {"SUCCESSFUL"})]
           verdict == IF Cardinality(Latest(c, {"SUCCESSFUL"})) < Cardinality(Latest(c, {"FAILED"}))
                      THEN "FAILED" ELSE "DONE"
           over == /\ c1.t.almost
                   /\ Latest(c, {"IN_PROGRESS"}) = {}
                   /\ Accounted(c1) >= c1.t.total
<1>1. /\ c1 \in StateRec /\ c1.l = c.l /\ c1.x = c.x
      /\ c1.t \in JobRec /\ c1.t.st = c.t.st /\ c1.t.poke = c.t.poke
      /\ c1.t.attempts = c.t.attempts /\ c1.t.total = c.t.total /\ c1.t.almost = c.t.almost
  BY StateFields DEF StateRec, JobRec
<1>2. verdict \in {"DONE", "FAILED"} OBVIOUS
<1>3. updateStatus(c) = IF over THEN [c1 EXCEPT !.t = setDone(@, verdict)] ELSE c1
  BY DEF updateStatus
<1>4. over => c.t.almost /\ Latest(c, {"IN_PROGRESS"}) = {} BY <1>1
<1> HIDE DEF c1, verdict, over
<1>5. CASE ~over BY <1>1, <1>3, <1>5 DEF StatusStep
<1>6. CASE over
  <2>1. /\ setDone(c1.t, verdict) \in JobRec
        /\ setDone(c1.t, verdict).attempts = c1.t.attempts
        /\ setDone(c1.t, verdict).total = c1.t.total
        /\ setDone(c1.t, verdict).almost = c1.t.almost
        /\ ~IsDone(c1.t) => /\ setDone(c1.t, verdict).st = verdict
                            /\ setDone(c1.t, verdict).poke = FALSE
        /\ IsDone(c1.t) => setDone(c1.t, verdict) = c1.t
    <3>1. c1.t \in JobRec /\ verdict \in Status BY <1>1, <1>2 DEF Status
    <3> QED BY ONLY <3>1, SetDone
  <2>2. /\ updateStatus(c) \in StateRec
        /\ updateStatus(c).l = c1.l /\ updateStatus(c).x = c1.x
        /\ updateStatus(c).t = setDone(c1.t, verdict)
    BY <1>1, <1>3, <1>6, <2>1 DEF StateRec
  <2> QED BY <1>1, <1>2, <1>4, <1>6, <2>1, <2>2 DEF StatusStep, IsDone
<1> QED BY <1>5, <1>6

LEMMA Refresh ==
  ASSUME NEW c \in StateRec
  PROVE /\ refreshPendingTransferList(c) \in StateRec
        /\ refreshPendingTransferList(c).l = c.l /\ refreshPendingTransferList(c).x = c.x
        /\ StatusStep(c, refreshPendingTransferList(c).t)
<1> DEFINE E == {f \in Considered(c) \cap c.l["dst"].known : c.x.last[f] = "none"}
           c1 == [c EXCEPT !.t.existing = E]
<1>1. E \subseteq File BY StateFields DEF ListsRec
<1> HIDE DEF E
<1>2. /\ c1 \in StateRec /\ c1.l = c.l /\ c1.x = c.x
      /\ c1.t.st = c.t.st /\ c1.t.poke = c.t.poke
      /\ c1.t.attempts = c.t.attempts /\ c1.t.total = c.t.total /\ c1.t.almost = c.t.almost
  BY <1>1, StateFields DEF StateRec, JobRec
<1>3. Latest(c1, {"IN_PROGRESS"}) = Latest(c, {"IN_PROGRESS"}) BY <1>2 DEF Latest
<1>4. refreshPendingTransferList(c) = updateStatus(c1) BY DEF refreshPendingTransferList, E
<1> HIDE DEF c1
<1>5. /\ updateStatus(c1) \in StateRec
      /\ updateStatus(c1).l = c1.l /\ updateStatus(c1).x = c1.x
      /\ StatusStep(c1, updateStatus(c1).t)
  BY <1>2, UpdateStatus
<1>6. StatusStep(c, updateStatus(c1).t) BY <1>2, <1>3, <1>5 DEF StatusStep, IsDone
<1> QED BY <1>2, <1>4, <1>5, <1>6

(***************************************************************************)
(* updateLocalFileLists.                                                   *)
(***************************************************************************)
\* The lists of a side, with new ones for the directories S.
NewFor(S, l, l2) ==
  /\ l2.known = l.known
  /\ \A s \in Sub : l2.state[s] = IF s \in S /\ l.state[s] = "absent" THEN "UNKNOWN"
                                  ELSE l.state[s]

LEMMA AddListsNew ==
  ASSUME NEW l \in ListsRec, NEW S
  PROVE AddLists(l, S) \in ListsRec /\ NewFor(S, l, AddLists(l, S))
BY DEF ListsRec, NewFor, AddLists, ListState, Mark

LEMMA LocalLists ==
  ASSUME KindGood, disk \subseteq File, NEW c \in StateRec, NEW c2, c2 = updateLocalFileLists(c)
  PROVE /\ c2 \in StateRec /\ c2.t = c.t /\ c2.x = c.x
        /\ kind.type = "FXP" => c2 = c
        /\ kind.type = "UPLOAD" =>
             /\ c2.l["src"].known = Wanted /\ c2.l["src"].state = c.l["src"].state
             /\ NewFor(LocalDirs, c.l["dst"], c2.l["dst"])
        /\ kind.type = "DOWNLOAD" =>
             /\ c2.l["dst"].known = disk \cup c.x.mine \cup c.x.stuck
             /\ c2.l["dst"].state = c.l["dst"].state
             /\ NewFor(LocalDirs, c.l["src"], c2.l["src"])
<1>1. kind.type \in Type BY DEF KindGood
<1>2. CASE kind.type = "FXP" BY <1>2 DEF updateLocalFileLists
<1> DEFINE K(sd) == IF sd = "src" THEN Wanted ELSE disk \cup c.x.mine \cup c.x.stuck
           ll == [sd \in Side |-> IF sd # LocalSide THEN AddLists(c.l[sd], LocalDirs)
                                  ELSE [c.l[sd] EXCEPT !.known = K(sd)]]
<1>3. ASSUME NEW sd \in Side
      PROVE /\ AddLists(c.l[sd], LocalDirs) \in ListsRec
            /\ NewFor(LocalDirs, c.l[sd], AddLists(c.l[sd], LocalDirs))
  BY StateFields, AddListsNew
<1>4. ASSUME NEW sd \in Side
      PROVE /\ [c.l[sd] EXCEPT !.known = K(sd)] \in ListsRec
            /\ [c.l[sd] EXCEPT !.known = K(sd)].known = K(sd)
            /\ [c.l[sd] EXCEPT !.known = K(sd)].state = c.l[sd].state
  <2>1. K(sd) \in SUBSET File BY StateFields, FilesWanted DEF XferRec
  <2>2. c.l[sd] \in ListsRec BY StateFields
  <2> HIDE DEF K
  <2> QED BY <2>1, <2>2 DEF ListsRec
<1>5. CASE kind.type # "FXP"
  <2>1. c2 = [c EXCEPT !.l = ll] BY <1>5 DEF updateLocalFileLists
  <2>2. ll \in [Side -> ListsRec] BY <1>3, <1>4
  <2>3. c2 \in StateRec /\ c2.t = c.t /\ c2.x = c.x /\ c2.l = ll
    <3> HIDE DEF ll
    <3> QED BY <2>1, <2>2, StateFields DEF StateRec
  <2>4. "src" \in Side /\ "dst" \in Side BY DEF Side
  <2>5. CASE kind.type = "UPLOAD"
    <3>1. LocalSide = "src" BY <2>5 DEF LocalSide
    <3>2. c2.l["src"] = [c.l["src"] EXCEPT !.known = Wanted]
          /\ c2.l["dst"] = AddLists(c.l["dst"], LocalDirs)
      BY <2>3, <2>4, <3>1
    <3> QED BY <1>3, <1>4, <2>3, <2>4, <2>5, <3>2
  <2>6. CASE kind.type = "DOWNLOAD"
    <3>1. LocalSide = "dst" BY <2>6 DEF LocalSide
    <3>2. c2.l["dst"] = [c.l["dst"] EXCEPT !.known = disk \cup c.x.mine \cup c.x.stuck]
          /\ c2.l["src"] = AddLists(c.l["src"], LocalDirs)
      BY <2>3, <2>4, <3>1
    <3> QED BY <1>3, <1>4, <2>3, <2>4, <2>6, <3>2
  <2> QED BY <1>1, <1>5, <2>5, <2>6 DEF Type
<1> QED BY <1>1, <1>2, <1>5 DEF Type

LEMMA UpdateLocalGood ==
  ASSUME KindGood, disk \subseteq File, NEW c, Good(c, disk),
         NEW c2, c2 = updateLocalFileLists(c)
  PROVE /\ Good(c2, disk) /\ c2.t = c.t /\ c2.x = c.x
        /\ \A s \in Sub : c.l["src"].state[s] # "absent" => c2.l["src"].state[s] # "absent"
<1>1. c \in StateRec BY GoodParts
<1>2. /\ c2 \in StateRec /\ c2.t = c.t /\ c2.x = c.x
      /\ kind.type = "FXP" => c2 = c
      /\ kind.type = "UPLOAD" =>
           /\ c2.l["src"].known = Wanted /\ c2.l["src"].state = c.l["src"].state
           /\ NewFor(LocalDirs, c.l["dst"], c2.l["dst"])
      /\ kind.type = "DOWNLOAD" =>
           /\ c2.l["dst"].known = disk \cup c.x.mine \cup c.x.stuck
           /\ c2.l["dst"].state = c.l["dst"].state
           /\ NewFor(LocalDirs, c.l["src"], c2.l["src"])
  BY <1>1, LocalLists
<1>3. kind.type \in Type BY DEF KindGood
<1>4. CASE kind.type = "FXP" BY <1>2, <1>4
<1>5. CASE kind.type = "UPLOAD"
  <2>1. c2.l["src"].known = c.l["src"].known /\ c2.l["dst"].known = c.l["dst"].known
    BY <1>2, <1>5, GoodParts DEF SourceGood, SourceGoodBut, NewFor
  <2>2. /\ c2.l["src"].state = c.l["src"].state
        /\ \A s \in Sub : c.l["dst"].state[s] # "absent" => c2.l["dst"].state[s] # "absent"
    BY <1>2, <1>5 DEF NewFor
  <2>3. SourceGood(c2.l)
    BY <1>5, <2>1, <2>2, GoodParts DEF SourceGood, SourceGoodBut, Sub, Dirs
  <2>4. TargetGood(c2.l, c2.x, disk) BY <1>2, <2>1, GoodParts DEF TargetGood
  <2>5. TotalGood(c2.t, c2.l) BY <1>2, <1>5, <2>1, GoodParts DEF TotalGood
  <2>6. AlmostGood(c2.t, c2.l, c2.x, disk) BY <1>2, <2>1, GoodParts DEF AlmostGood
  <2> QED BY <1>2, <2>2, <2>3, <2>4, <2>5, <2>6, GoodParts
<1>6. CASE kind.type = "DOWNLOAD"
  <2>1. /\ c2.l["src"].known = c.l["src"].known
        /\ c2.l["dst"].known = disk \cup c.x.mine \cup c.x.stuck
    BY <1>2, <1>6 DEF NewFor
  <2>2. /\ c2.l["dst"].state = c.l["dst"].state
        /\ \A s \in Sub : /\ c.l["src"].state[s] # "absent" =>
                               c2.l["src"].state[s] = c.l["src"].state[s]
                          /\ c.l["src"].state[s] = "absent" =>
                               c2.l["src"].state[s] \in {"absent", "UNKNOWN"}
    BY <1>2, <1>6 DEF NewFor
  <2>3. SourceGood(c2.l)
    <3>1. "root" \in Sub /\ \A s \in Sub : Child(s) \in Sub BY DEF Sub, Child
    <3> QED BY <1>6, <2>1, <2>2, <3>1, GoodParts DEF SourceGood, SourceGoodBut
  <2>4. TargetGood(c2.l, c2.x, disk)
    <3>1. \A f \in c.x.mine \cup c.x.stuck : c.x.last[f] # "none" \/ f \in disk
      BY GoodParts DEF TargetGood
    <3> QED BY <1>2, <2>1, <3>1, GoodParts DEF TargetGood
  <2>5. TotalGood(c2.t, c2.l)
    BY <1>2, <2>1, <2>2, GoodParts DEF TotalGood, SourceGood, SourceGoodBut, Sub
  <2>6. AlmostGood(c2.t, c2.l, c2.x, disk) BY <1>2, <2>1, GoodParts DEF AlmostGood
  <2> QED BY <1>2, <2>2, <2>3, <2>4, <2>5, <2>6, GoodParts
<1> QED BY <1>3, <1>4, <1>5, <1>6 DEF Type

(***************************************************************************)
(* fileListUpdated.                                                        *)
(***************************************************************************)
\* Nothing of the job's status changes but the total.
ButTotal(t, t2) ==
  t2 \in JobRec /\ t2.st = t.st /\ t2.poke = t.poke /\ t2.almost = t.almost
    /\ t2.attempts = t.attempts

LEMMA CountTotal ==
  ASSUME NEW D, NEW c, NEW S, GoodBut(c, D, S), NEW c2, c2 = countTotalFiles(c)
  PROVE /\ GoodBut(c2, D, S) /\ c2.l = c.l /\ c2.x = c.x /\ ButTotal(c.t, c2.t)
<1>1. c \in StateRec BY DEF GoodBut
<1> DEFINE n == Cardinality(Counted \cap c.l["src"].known)
<1>2. n \in 0..Cardinality(File) /\ n <= Cardinality(Counted)
  BY FileSets, FilesWanted
<1>3. c2 = [c EXCEPT !.t.total = n] BY DEF countTotalFiles
<1> HIDE DEF n
<1>4. c2 \in StateRec /\ c2.l = c.l /\ c2.x = c.x /\ c2.t.total = n /\ ButTotal(c.t, c2.t)
  BY <1>1, <1>2, <1>3, StateFields DEF StateRec, JobRec, ButTotal
<1>5. StatusGood(c2.t) BY <1>4 DEF GoodBut, StatusGood, ButTotal
<1>6. TotalGood(c2.t, c2.l) BY <1>2, <1>4 DEF TotalGood, n
<1>7. XferGood(c2.t, c2.x, D) /\ AlmostGood(c2.t, c2.l, c2.x, D)
  BY <1>4 DEF GoodBut, XferGood, AlmostGood, ButTotal
<1>8. OverGood(c2.t, c2.x) BY <1>4 DEF GoodBut, OverGood, ButTotal, IsDone
<1> QED BY <1>4, <1>5, <1>6, <1>7, <1>8 DEF GoodBut

LEMMA FollowLink ==
  ASSUME NEW D, NEW c, NEW S, GoodBut(c, D, S), NEW c2, c2 = followLink(c),
         kind.item = "file", kind.type \in Type \ {"UPLOAD"}
  PROVE Good(c2, D) /\ c2.t = c.t /\ c2.x = c.x
<1>1. c \in StateRec BY DEF GoodBut
<1> DEFINE new(sd) ==
      [state |-> [s \in Sub |-> IF sd = "src" /\ s = "root" THEN "UNKNOWN" ELSE c.l[sd].state[s]],
       mark |-> [s \in Sub |-> IF sd = "src" /\ s = "root" THEN "NOW" ELSE "none"],
       known |-> IF sd = "src" THEN c.l[sd].known \ In("root") ELSE c.l[sd].known]
<1>2. ASSUME NEW sd \in Side
      PROVE /\ new(sd) \in ListsRec
            /\ sd = "dst" => new(sd).known = c.l[sd].known /\ new(sd).state = c.l[sd].state
            /\ sd = "src" => /\ new(sd).known = c.l[sd].known \ In("root")
                             /\ \A s \in Sub : new(sd).state[s] =
                                  IF s = "root" THEN "UNKNOWN" ELSE c.l[sd].state[s]
  <2>1. c.l[sd] \in ListsRec BY <1>1, StateFields
  <2> QED BY <2>1 DEF ListsRec, ListState, Mark
<1>3. c2 = [c EXCEPT !.l = [sd \in Side |-> new(sd)]] BY DEF followLink
<1> HIDE DEF new
<1>4. /\ c2 \in StateRec /\ c2.t = c.t /\ c2.x = c.x
      /\ c2.l["src"] = new("src") /\ c2.l["dst"] = new("dst")
  BY <1>1, <1>2, <1>3, StateFields DEF StateRec, Side
<1>5. /\ c2.l["dst"].known = c.l["dst"].known /\ c2.l["dst"].state = c.l["dst"].state
      /\ c2.l["src"].known = c.l["src"].known \ In("root")
      /\ c2.l["src"].state["root"] = "UNKNOWN"
      /\ \A s \in Sub \ {"root"} : c2.l["src"].state[s] = c.l["src"].state[s]
  BY <1>1, <1>2, <1>4, StateFields DEF Side, ListsRec, Sub
<1>6. SourceGood(c2.l)
  <2>1. ASSUME NEW s \in Sub \ {"root"}, NEW f \in Wanted PROVE f \notin In(s)
    <3>1. Where[f] = "root" BY DEF Wanted
    <3> QED BY <3>1 DEF In
  <2>2. kind.type # "UPLOAD" OBVIOUS
  <2>3. ASSUME NEW s \in Sub, c2.l["src"].state[s] \in {"LISTED", "LISTFAILED"}
        PROVE Wanted \cap In(s) \subseteq c2.l["src"].known
    BY <1>5, <2>1, <2>3
  <2>4. \A f \in c2.l["src"].known : f \in c.l["src"].known /\ f \in Wanted /\ Where[f] # "root"
    BY <1>5, FilesWanted DEF GoodBut, SourceGoodBut, In
  <2>5. \A f \in Wanted : Where[f] = "root" BY DEF Wanted
  <2> QED BY <1>5, <2>2, <2>3, <2>4, <2>5 DEF GoodBut, SourceGood, SourceGoodBut, Sub
<1>7. TargetGood(c2.l, c2.x, D) BY <1>4, <1>5 DEF GoodBut, TargetGood
<1>8. TotalGood(c2.t, c2.l) BY <1>4, <1>5 DEF GoodBut, TotalGood, Type
<1>9. AlmostGood(c2.t, c2.l, c2.x, D) BY <1>4, <1>5 DEF GoodBut, AlmostGood
<1> QED BY <1>4, <1>6, <1>7, <1>8, <1>9 DEF Good, GoodBut, SourceGood

LEMMA AddSubLists ==
  ASSUME NEW D, NEW c, NEW S, GoodBut(c, D, S), NEW s \in Dirs,
         NEW c2, c2 = addSubDirectoryFileLists(c, s), kind.type \in Type
  PROVE /\ GoodBut(c2, D, S) /\ c2.t = c.t /\ c2.x = c.x
        /\ kind.type # "UPLOAD" => c2.l["src"].state[s] # "absent"
<1>1. c \in StateRec BY DEF GoodBut
<1> DEFINE ll == [sd \in Side |-> IF Remote(sd) THEN AddLists(c.l[sd], {s} \ {"root"}) ELSE c.l[sd]]
<1>2. c2 = [c EXCEPT !.l = ll] BY DEF addSubDirectoryFileLists
<1>3. \A sd \in Side : c.l[sd] \in ListsRec BY <1>1, StateFields
<1>4. {s} \ {"root"} = {s} BY DEF Dirs
<1>5. \A sd \in Side : /\ ll[sd] \in ListsRec
                       /\ Remote(sd) => NewFor({s}, c.l[sd], ll[sd])
                       /\ ~Remote(sd) => ll[sd] = c.l[sd]
  BY <1>3, <1>4, AddListsNew
<1>6. ll \in [Side -> ListsRec]
  <2>1. \A sd \in Side : (IF Remote(sd) THEN AddLists(c.l[sd], {s} \ {"root"}) ELSE c.l[sd]) \in ListsRec
    BY <1>5
  <2> QED BY <2>1
<1> HIDE DEF ll
<1>7. c2 \in StateRec /\ c2.t = c.t /\ c2.x = c.x /\ c2.l = ll
  BY <1>1, <1>2, <1>6, StateFields DEF StateRec
<1>8. /\ kind.type # "UPLOAD" => NewFor({s}, c.l["src"], c2.l["src"])
      /\ kind.type = "UPLOAD" => c2.l["src"] = c.l["src"]
      /\ kind.type # "DOWNLOAD" => NewFor({s}, c.l["dst"], c2.l["dst"])
      /\ kind.type = "DOWNLOAD" => c2.l["dst"] = c.l["dst"]
  BY <1>5, <1>7 DEF Side, Remote
<1>9. \A sd \in Side :
        /\ c2.l[sd].known = c.l[sd].known
        /\ \A q \in Sub : /\ c.l[sd].state[q] # "absent" => c2.l[sd].state[q] = c.l[sd].state[q]
                          /\ c.l[sd].state[q] = "absent" =>
                               c2.l[sd].state[q] \in {"absent", "UNKNOWN"}
  BY <1>8 DEF Side, NewFor
<1>10. /\ kind.type # "UPLOAD" =>
            /\ c2.l["src"].state[s] # "absent"
            /\ \A q \in Sub \ {s} : c2.l["src"].state[q] = c.l["src"].state[q]
       /\ kind.type # "DOWNLOAD" => c2.l["dst"].state[s] # "absent"
  BY <1>8 DEF NewFor, Dirs, Sub
<1>11. "root" \in Sub /\ "src" \in Side /\ "dst" \in Side /\ \A q \in Sub : Child(q) \in Sub
  BY DEF Sub, Side, Child
<1>12. SourceGoodBut(c2.l, S)
  <2>1. /\ c2.l["src"].known \subseteq Wanted
        /\ c2.l["src"].state["root"] # "absent" /\ c2.l["dst"].state["root"] # "absent"
    BY <1>9, <1>11 DEF GoodBut, SourceGoodBut
  <2>2. kind.type = "UPLOAD" =>
          /\ c2.l["src"].known = Wanted
          /\ kind.item = "dir" => \A q \in Dirs : c2.l["dst"].state[q] # "absent"
    BY <1>9, <1>11 DEF GoodBut, SourceGoodBut, Dirs, Sub
  <2>3. kind.type # "UPLOAD" =>
          /\ c2.l["src"].state["root"] # "LISTFAILED"
          /\ \A q \in Sub :
               /\ c2.l["src"].state[q] \notin {"NONEXISTENT", "local"}
               /\ c2.l["src"].state[q] \in {"LISTED", "LISTFAILED"} =>
                    /\ Wanted \cap In(q) \subseteq c2.l["src"].known
                    /\ kind.item = "dir" /\ q \notin {"e"} \cup S =>
                         c2.l["src"].state[Child(q)] # "absent"
    BY <1>9, <1>11 DEF GoodBut, SourceGoodBut
  <2>4. kind.type = "FXP" =>
          /\ \A q \in Sub : c2.l["src"].state[q] # "absent" => c2.l["dst"].state[q] # "absent"
          /\ \A f \in c2.l["src"].known : c2.l["src"].state[Where[f]] # "absent"
    <3>1. \A f \in Wanted : Where[f] \in Sub BY FilesWanted
    <3> QED BY <1>9, <1>10, <1>11, <2>1, <3>1 DEF GoodBut, SourceGoodBut
  <2> QED BY <2>1, <2>2, <2>3, <2>4 DEF SourceGoodBut
<1>13. TargetGood(c2.l, c2.x, D) BY <1>7, <1>9, <1>11 DEF GoodBut, TargetGood
<1>14. TotalGood(c2.t, c2.l) BY <1>7, <1>9, <1>11 DEF GoodBut, TotalGood
<1>15. AlmostGood(c2.t, c2.l, c2.x, D) BY <1>7, <1>9, <1>11 DEF GoodBut, AlmostGood
<1> QED BY <1>7, <1>10, <1>12, <1>13, <1>14, <1>15 DEF GoodBut

LEMMA FileListUpdated ==
  ASSUME KindGood, NEW D, NEW c, NEW sd \in Side, NEW s \in Sub, NEW link \in BOOLEAN, NEW S,
         S = IF sd = "src" /\ c.l["src"].state[s] = "LISTED" THEN {s} ELSE {},
         GoodBut(c, D, S), sd = "src" => kind.type # "UPLOAD",
         link => kind.item = "file" /\ kind.type # "UPLOAD",
         NEW c2, c2 = fileListUpdated(c, sd, s, link)
  PROVE Good(c2, D) /\ c2.x = c.x /\ ButTotal(c.t, c2.t)
<1> DEFINE d1 == [c EXCEPT !.l[sd].mark[s] = Refreshed(@)]
           d2 == IF anyListNeedsRefreshing(d1) THEN d1 ELSE countTotalFiles(d1)
<1>1. c \in StateRec BY DEF GoodBut
<1>2. d1 \in StateRec /\ d1.t = c.t /\ d1.x = c.x /\ KeptButMarks(c.l, d1.l)
  <2>1. c.l[sd] \in ListsRec BY <1>1, StateFields
  <2>2. Refreshed(c.l[sd].mark[s]) \in Mark BY <2>1 DEF ListsRec, Mark, Refreshed
  <2> DEFINE r == [c.l[sd] EXCEPT !.mark[s] = Refreshed(@)]
  <2>3. r \in ListsRec /\ r.state = c.l[sd].state /\ r.known = c.l[sd].known
    BY <2>1, <2>2 DEF ListsRec
  <2>4. d1 = [c EXCEPT !.l = [c.l EXCEPT ![sd] = r]] BY <1>1, StateFields DEF StateRec
  <2> HIDE DEF r, d1
  <2>5. [c.l EXCEPT ![sd] = r] \in [Side -> ListsRec] BY <1>1, <2>3, StateFields
  <2>6. \A q \in Side : [c.l EXCEPT ![sd] = r][q] = IF q = sd THEN r ELSE c.l[q]
    BY <1>1, StateFields
  <2> DEFINE ll == [c.l EXCEPT ![sd] = r]
  <2>7. ll \in [Side -> ListsRec] /\ KeptButMarks(c.l, ll)
    BY <2>3, <2>5, <2>6 DEF KeptButMarks
  <2> HIDE DEF ll
  <2>8. d1 = [c EXCEPT !.l = ll] BY <2>4 DEF ll
  <2> QED BY <1>1, <2>7, <2>8, StateFields DEF StateRec
<1>3. c2 = CASE link -> followLink(d2)
             [] ~link /\ d2.l[sd].state[s] = "LISTED" /\ ShowsDirectory(sd, s) ->
                  addSubDirectoryFileLists(d2, Child(s))
             [] OTHER -> d2
  BY Zenon DEF fileListUpdated
<1> HIDE DEF d1
<1>4. GoodBut(d1, D, S) BY <1>2, GoodMarks
<1>5. GoodBut(d2, D, S) /\ d2.l = d1.l /\ d2.x = c.x /\ ButTotal(c.t, d2.t)
  <2>1. d1.t \in JobRec BY <1>2, StateFields
  <2>2. CASE anyListNeedsRefreshing(d1) BY <1>2, <1>4, <2>1, <2>2 DEF ButTotal
  <2>3. CASE ~anyListNeedsRefreshing(d1)
    <3>1. d2 = countTotalFiles(d1) BY <2>3
    <3> HIDE DEF d2
    <3>2. GoodBut(d2, D, S) /\ d2.l = d1.l /\ d2.x = d1.x /\ ButTotal(d1.t, d2.t)
      BY <1>4, <3>1, CountTotal
    <3> QED BY <1>2, <3>2
  <2> QED BY <2>2, <2>3
<1> HIDE DEF d2
<1>6. d2.l[sd].state = c.l[sd].state BY <1>2, <1>5 DEF KeptButMarks
<1>7. kind.type \in Type BY DEF KindGood
<1>8. CASE link
  <2>1. c2 = followLink(d2) BY <1>3, <1>8
  <2>2. Good(c2, D) /\ c2.t = d2.t /\ c2.x = d2.x BY <1>5, <1>7, <1>8, <2>1, FollowLink
  <2> QED BY <1>5, <2>2
<1>9. CASE ~link /\ d2.l[sd].state[s] = "LISTED" /\ ShowsDirectory(sd, s)
  <2>1. c2 = addSubDirectoryFileLists(d2, Child(s)) BY <1>3, <1>9
  <2>2. s # "e" /\ Child(s) \in Dirs BY <1>9 DEF ShowsDirectory, Child, Dirs, Sub
  <2>3. /\ GoodBut(c2, D, S) /\ c2.t = d2.t /\ c2.x = d2.x
        /\ kind.type # "UPLOAD" => c2.l["src"].state[Child(s)] # "absent"
    BY <1>5, <1>7, <2>1, <2>2, AddSubLists
  <2>4. SourceGood(c2.l)
    <3>1. S \subseteq {s} OBVIOUS
    <3> QED BY <2>3, <3>1 DEF GoodBut, SourceGood, SourceGoodBut
  <2> QED BY <1>5, <2>3, <2>4 DEF Good, GoodBut, SourceGood
<1>10. CASE ~link /\ ~(d2.l[sd].state[s] = "LISTED" /\ ShowsDirectory(sd, s))
  <2>1. c2 = d2 BY <1>3, <1>10
  <2>2. SourceGood(d2.l)
    <3>1. CASE S = {} BY <1>5, <3>1 DEF GoodBut, SourceGood
    <3>2. CASE S = {s} /\ sd = "src" /\ c.l["src"].state[s] = "LISTED"
      <4>1. ~ShowsDirectory("src", s) BY <1>6, <1>10, <3>2
      <4>2. kind.item # "dir" \/ s = "e" BY <4>1 DEF ShowsDirectory
      <4> QED BY <1>5, <3>2, <4>2 DEF GoodBut, SourceGood, SourceGoodBut
    <3> QED BY <3>1, <3>2
  <2> QED BY <1>5, <2>1, <2>2 DEF Good, GoodBut, SourceGood
<1> QED BY <1>8, <1>9, <1>10

(***************************************************************************)
(* A list that has been read, found missing, or given up.                  *)
(***************************************************************************)
\* Of the list of s only its state and what is known in s change.
ListChanged(c, c2, sd, s, state, known) ==
  /\ c2 \in StateRec /\ c2.t = c.t /\ c2.x = c.x
  /\ c2.l[sd].known = known
  /\ c2.l[sd].state[s] = state
  /\ \A q \in Sub \ {s} : c2.l[sd].state[q] = c.l[sd].state[q]
  /\ \A o \in Side \ {sd} : c2.l[o] = c.l[o]

LEMMA ChangeList ==
  ASSUME NEW c \in StateRec, NEW sd \in Side, NEW s \in Sub,
         NEW state \in ListState, NEW known \in SUBSET File,
         NEW c2, c2 = [c EXCEPT !.l[sd].state[s] = state, !.l[sd].known = known]
  PROVE ListChanged(c, c2, sd, s, state, known)
<1> DEFINE r == [c.l[sd] EXCEPT !.state[s] = state, !.known = known]
           ll == [c.l EXCEPT ![sd] = r]
<1>1. c.l[sd] \in ListsRec /\ c.l \in [Side -> ListsRec] BY StateFields
<1>2. /\ r \in ListsRec /\ r.known = known /\ r.state[s] = state
      /\ \A q \in Sub \ {s} : r.state[q] = c.l[sd].state[q]
  BY <1>1 DEF ListsRec
<1>3. c2 = [c EXCEPT !.l = ll] BY <1>1, StateFields DEF StateRec
<1> HIDE DEF r
<1>4. /\ ll \in [Side -> ListsRec] /\ ll[sd] = r
      /\ \A o \in Side \ {sd} : ll[o] = c.l[o]
  BY <1>1, <1>2
<1> HIDE DEF ll
<1>5. c2 \in StateRec /\ c2.t = c.t /\ c2.x = c.x /\ c2.l = ll
  BY <1>3, <1>4, StateFields DEF StateRec
<1> QED BY <1>2, <1>4, <1>5 DEF ListChanged

LEMMA SourceListed ==
  ASSUME KindGood, NEW D, NEW c, Good(c, D), NEW s \in Sub, kind.type # "UPLOAD",
         c.l["src"].state[s] # "absent",
         NEW known, known = (c.l["src"].known \ In(s)) \cup (Wanted \cap In(s)),
         NEW c2, ListChanged(c, c2, "src", s, "LISTED", known)
  PROVE GoodBut(c2, D, {s})
<1>1. /\ c2 \in StateRec /\ c2.t = c.t /\ c2.x = c.x
      /\ c2.l["src"].known = known /\ c2.l["src"].state[s] = "LISTED"
      /\ \A q \in Sub \ {s} : c2.l["src"].state[q] = c.l["src"].state[q]
      /\ c2.l["dst"] = c.l["dst"]
  BY DEF ListChanged, Side
<1>2. c.l["src"].known \subseteq Wanted BY GoodParts DEF SourceGood, SourceGoodBut
<1>3. known = c.l["src"].known \cup (Wanted \cap In(s)) BY <1>2
<1>4. "root" \in Sub /\ \A q \in Sub : Child(q) \in Sub BY DEF Sub, Child
<1>5. SourceGoodBut(c2.l, {s})
  <2>1. /\ known \subseteq Wanted
        /\ c2.l["src"].state["root"] # "absent" /\ c2.l["dst"].state["root"] # "absent"
        /\ c2.l["src"].state["root"] # "LISTFAILED"
    BY <1>1, <1>2, <1>3, <1>4, GoodParts DEF SourceGood, SourceGoodBut
  <2>2. \A q \in Sub : q # s => c2.l["src"].state[q] = c.l["src"].state[q]
    BY <1>1
  <2>3. \A q \in Sub : c.l["src"].state[q] # "absent" => c2.l["src"].state[q] # "absent"
    BY <1>1
  <2>4. \A q \in Sub :
          /\ c2.l["src"].state[q] \notin {"NONEXISTENT", "local"}
          /\ c2.l["src"].state[q] \in {"LISTED", "LISTFAILED"} =>
               /\ Wanted \cap In(q) \subseteq known
               /\ kind.item = "dir" /\ q \notin {"e"} \cup {s} =>
                    c2.l["src"].state[Child(q)] # "absent"
    BY <1>1, <1>3, <1>4, <2>2, <2>3, GoodParts DEF SourceGood, SourceGoodBut
  <2>5. kind.type = "FXP" =>
          /\ \A q \in Sub : c2.l["src"].state[q] # "absent" => c2.l["dst"].state[q] # "absent"
          /\ \A f \in known : c2.l["src"].state[Where[f]] # "absent"
    <3>1. \A f \in known : f \in c.l["src"].known \/ Where[f] = s
      BY <1>3 DEF In
    <3>2. \A f \in known : Where[f] \in Sub BY <2>1, FilesWanted
    <3>3. kind.type = "FXP" => /\ \A q \in Sub : c.l["src"].state[q] # "absent" => c.l["dst"].state[q] # "absent"
                               /\ \A f \in c.l["src"].known : c.l["src"].state[Where[f]] # "absent"
      BY GoodParts DEF SourceGood, SourceGoodBut
    <3> QED BY <1>1, <2>3, <3>1, <3>2, <3>3
  <2> QED BY <1>1, <2>1, <2>4, <2>5 DEF SourceGoodBut
<1>6. TargetGood(c2.l, c2.x, D) BY <1>1, GoodParts DEF TargetGood
<1>7. AlmostGood(c2.t, c2.l, c2.x, D) BY <1>1, GoodParts DEF AlmostGood
<1>8. TotalGood(c2.t, c2.l)
  <2>1. c.t.total \in Nat /\ known \subseteq File
    BY <1>1, StateFields, FilesWanted, FileSets DEF JobRec, ListsRec
  <2>2. c.t.total <= Cardinality(Counted) BY GoodParts DEF TotalGood
  <2>3. CASE c.t.total <= Cardinality(Counted \cap c.l["src"].known)
    <3>1. Cardinality(Counted \cap c.l["src"].known) <= Cardinality(Counted \cap known)
      <4>1. Counted \cap c.l["src"].known \in SUBSET (Counted \cap known) BY <1>3
      <4>2. Counted \cap known \in SUBSET File BY FilesWanted
      <4> QED BY <4>1, <4>2, FileSets
    <3>2. /\ Cardinality(Counted \cap c.l["src"].known) \in Nat
          /\ Cardinality(Counted \cap known) \in Nat
      BY FileSets, FilesWanted
    <3> QED BY <1>1, <2>1, <2>2, <2>3, <3>1, <3>2 DEF TotalGood
  <2>4. CASE kind.item = "file" /\ c.l["src"].state["root"] = "UNKNOWN"
    <3>1. CASE s = "root"
      <4>1. Counted \cap known = Counted
        <5>1. \A f \in Counted : f \in Wanted /\ f \in In("root")
          BY <2>4, FilesWanted DEF Wanted, In
        <5> QED BY <1>3, <3>1, <5>1
      <4> QED BY <1>1, <2>2, <4>1 DEF TotalGood
    <3>2. CASE s # "root" BY <1>1, <1>4, <2>2, <2>4, <3>2 DEF TotalGood
    <3> QED BY <3>1, <3>2
  <2> QED BY <2>3, <2>4, GoodParts DEF TotalGood
<1> QED BY <1>1, <1>5, <1>6, <1>7, <1>8, GoodParts DEF GoodBut

LEMMA TargetListed ==
  ASSUME NEW D \in SUBSET File, NEW c, Good(c, D), NEW s \in Sub,
         NEW state, state # "absent", NEW known,
         known \in {c.l["dst"].known,
                    (c.l["dst"].known \ In(s)) \cup ((D \cup c.x.mine \cup c.x.stuck) \cap In(s))},
         NEW c2, ListChanged(c, c2, "dst", s, state, known)
  PROVE Good(c2, D)
<1>1. /\ c2 \in StateRec /\ c2.t = c.t /\ c2.x = c.x
      /\ c2.l["dst"].known = known /\ c2.l["dst"].state[s] = state
      /\ \A q \in Sub \ {s} : c2.l["dst"].state[q] = c.l["dst"].state[q]
      /\ c2.l["src"] = c.l["src"]
  BY DEF ListChanged, Side
<1>2. \A q \in Sub : c.l["dst"].state[q] # "absent" => c2.l["dst"].state[q] # "absent"
  BY <1>1
<1>3. SourceGood(c2.l)
  BY <1>1, <1>2, GoodParts DEF SourceGood, SourceGoodBut, Sub, Dirs
<1>4. /\ \A f \in known : f \in c.l["dst"].known \/ f \in D \cup c.x.mine \cup c.x.stuck
      /\ \A f \in D \cup c.x.mine \cup c.x.stuck : f \in c.l["dst"].known => f \in known
  <2>1. \A f \in D \cup c.x.mine \cup c.x.stuck : f \in File
    <3>1. c \in StateRec BY GoodParts
    <3> QED BY <3>1, StateFields DEF XferRec
  <2> QED BY <2>1 DEF In
<1>5. TargetGood(c2.l, c2.x, D) BY <1>1, <1>4, GoodParts DEF TargetGood
<1>6. TotalGood(c2.t, c2.l) BY <1>1, GoodParts DEF TotalGood
<1>7. AlmostGood(c2.t, c2.l, c2.x, D) BY <1>1, <1>4, GoodParts DEF AlmostGood
<1> QED BY <1>1, <1>3, <1>5, <1>6, <1>7, GoodParts

LEMMA SourceGivenUp ==
  ASSUME NEW D, NEW c, Good(c, D), NEW s \in Sub, kind.type # "UPLOAD",
         c.l["src"].state[s] = "LISTED", s # "root",
         NEW c2, ListChanged(c, c2, "src", s, "LISTFAILED", c.l["src"].known)
  PROVE Good(c2, D)
<1>1. /\ c2 \in StateRec /\ c2.t = c.t /\ c2.x = c.x
      /\ c2.l["src"].known = c.l["src"].known /\ c2.l["src"].state[s] = "LISTFAILED"
      /\ \A q \in Sub \ {s} : c2.l["src"].state[q] = c.l["src"].state[q]
      /\ c2.l["dst"] = c.l["dst"]
  BY DEF ListChanged, Side
<1>2. "root" \in Sub \ {s} /\ \A q \in Sub : Child(q) \in Sub BY DEF Sub, Child
<1>3. \A q \in Sub : /\ c.l["src"].state[q] # "absent" <=> c2.l["src"].state[q] # "absent"
                     /\ c2.l["src"].state[q] \in {"LISTED", "LISTFAILED"} =>
                          c.l["src"].state[q] \in {"LISTED", "LISTFAILED"}
                     /\ c2.l["src"].state[q] \in {"NONEXISTENT", "local"} =>
                          c.l["src"].state[q] \in {"NONEXISTENT", "local"}
  BY <1>1
<1>4. SourceGood(c2.l)
  <2>1. \A f \in c.l["src"].known : Where[f] \in Sub
    BY FilesWanted, GoodParts DEF SourceGood, SourceGoodBut
  <2> QED BY <1>1, <1>2, <1>3, <2>1, GoodParts DEF SourceGood, SourceGoodBut
<1>5. TargetGood(c2.l, c2.x, D) BY <1>1, GoodParts DEF TargetGood
<1>6. TotalGood(c2.t, c2.l) BY <1>1, <1>2, GoodParts DEF TotalGood
<1>7. AlmostGood(c2.t, c2.l, c2.x, D) BY <1>1, GoodParts DEF AlmostGood
<1> QED BY <1>1, <1>4, <1>5, <1>6, <1>7, GoodParts

LEMMA ChangeState ==
  ASSUME NEW c \in StateRec, NEW sd \in Side, NEW s \in Sub, NEW state \in ListState,
         NEW c2, c2 = [c EXCEPT !.l[sd].state[s] = state]
  PROVE ListChanged(c, c2, sd, s, state, c.l[sd].known)
<1>1. c.l[sd] \in ListsRec /\ c.l \in [Side -> ListsRec] /\ c.l[sd].known \in SUBSET File
  BY StateFields DEF ListsRec
<1>2. c2 = [c EXCEPT !.l[sd].state[s] = state, !.l[sd].known = c.l[sd].known]
  BY <1>1, StateFields DEF StateRec, ListsRec
<1> QED BY <1>1, <1>2, ChangeList

(***************************************************************************)
(* A new job, and one that is reset.                                       *)
(***************************************************************************)
LEMMA NewLists ==
  ASSUME KindGood, disk \subseteq File, NEW sd \in Side, NEW listed \in BOOLEAN
  PROVE /\ NewList(sd, listed) \in ListsRec
        /\ ~Remote(sd) => /\ NewList(sd, listed).known = {}
                          /\ NewList(sd, listed).state["root"] = "local"
        /\ Remote(sd) => /\ NewList(sd, listed).state["root"] = IF listed THEN "LISTED" ELSE "UNKNOWN"
                         /\ NewList(sd, listed).known =
                              IF ~listed THEN {}
                              ELSE IF sd = "src" THEN Wanted \cap In("root") ELSE disk \cap In("root")
        /\ \A s \in Dirs : NewList(sd, listed).state[s] = "absent"
<1> DEFINE st == IF listed THEN "LISTED" ELSE "UNKNOWN"
           mk == IF listed THEN "none" ELSE "NOW"
           K == IF ~listed THEN {}
                ELSE IF sd = "src" THEN Wanted \cap In("root") ELSE disk \cap In("root")
<1>1. NoLists \in ListsRec /\ NoLists.known = {} /\ \A s \in Sub : NoLists.state[s] = "absent"
  BY DEF NoLists, ListsRec, ListState, Mark
<1>2. K \in SUBSET File BY FilesWanted
<1>3. st \in ListState /\ mk \in Mark /\ "local" \in ListState BY DEF ListState, Mark
<1>4. "root" \in Sub /\ Dirs = Sub \ {"root"} BY DEF Sub, Dirs
<1>5. NewList(sd, listed) = IF ~Remote(sd) THEN [NoLists EXCEPT !.state["root"] = "local"]
        ELSE [NoLists EXCEPT !.state["root"] = st, !.mark["root"] = mk, !.known = K]
  BY DEF NewList
<1> HIDE DEF st, mk, K
<1>6. /\ [NoLists EXCEPT !.state["root"] = "local"] \in ListsRec
      /\ [NoLists EXCEPT !.state["root"] = "local"].known = {}
      /\ [NoLists EXCEPT !.state["root"] = "local"].state["root"] = "local"
      /\ \A s \in Dirs : [NoLists EXCEPT !.state["root"] = "local"].state[s] = "absent"
  BY <1>1, <1>3, <1>4 DEF ListsRec
<1>7. /\ [NoLists EXCEPT !.state["root"] = st, !.mark["root"] = mk, !.known = K] \in ListsRec
      /\ [NoLists EXCEPT !.state["root"] = st, !.mark["root"] = mk, !.known = K].known = K
      /\ [NoLists EXCEPT !.state["root"] = st, !.mark["root"] = mk, !.known = K].state["root"] = st
      /\ \A s \in Dirs :
           [NoLists EXCEPT !.state["root"] = st, !.mark["root"] = mk, !.known = K].state[s] = "absent"
  BY <1>1, <1>2, <1>3, <1>4 DEF ListsRec
<1>8. CASE ~Remote(sd) BY <1>5, <1>6, <1>8
<1>9. CASE Remote(sd) BY <1>5, <1>7, <1>9 DEF st, K
<1> QED BY <1>8, <1>9

LEMMA FreshGood ==
  ASSUME KindGood, disk \subseteq File, NEW old \in SUBSET File, NEW listed \in BOOLEAN,
         NEW c, c = [t |-> NewJob, x |-> NoTransfers(old),
                     l |-> [sd \in Side |-> NewList(sd, listed)]],
         NEW c2, c2 = updateLocalFileLists(c)
  PROVE /\ c2.t = c.t /\ c2.x = c.x
        /\ ~(listed /\ Remote("src")) => Good(c2, disk)
        /\ listed /\ Remote("src") => GoodBut(c2, disk, {"root"})
        /\ listed /\ Remote("src") => c2.l["src"].state["root"] = "LISTED"
<1>1. NewJob \in JobRec /\ NoTransfers(old) \in XferRec
  <2>1. 0 \in 0..Cardinality(File) BY FileSets
  <2> QED BY <2>1 DEF NewJob, NoTransfers, JobRec, XferRec, Status
<1> DEFINE ll == [sd \in Side |-> NewList(sd, listed)]
<1>2. ll \in [Side -> ListsRec] BY NewLists
<1>3. ll["src"] = NewList("src", listed) /\ ll["dst"] = NewList("dst", listed) BY DEF Side
<1> HIDE DEF ll
<1>4. c \in StateRec /\ c.t = NewJob /\ c.x = NoTransfers(old) /\ c.l = ll
  BY <1>1, <1>2 DEF StateRec, ll
<1>5. /\ c2 \in StateRec /\ c2.t = c.t /\ c2.x = c.x
      /\ kind.type = "FXP" => c2 = c
      /\ kind.type = "UPLOAD" =>
           /\ c2.l["src"].known = Wanted /\ c2.l["src"].state = c.l["src"].state
           /\ NewFor(LocalDirs, c.l["dst"], c2.l["dst"])
      /\ kind.type = "DOWNLOAD" =>
           /\ c2.l["dst"].known = disk \cup c.x.mine \cup c.x.stuck
           /\ c2.l["dst"].state = c.l["dst"].state
           /\ NewFor(LocalDirs, c.l["src"], c2.l["src"])
  BY <1>4, LocalLists
<1>6. kind.type \in Type BY DEF KindGood
<1>7. /\ Remote("src") <=> kind.type # "UPLOAD"
      /\ Remote("dst") <=> kind.type # "DOWNLOAD"
  BY DEF Remote
<1>8. "src" \in Side /\ "dst" \in Side BY DEF Side
<1>9. \A sd \in Side :
        /\ ~Remote(sd) => c.l[sd].known = {} /\ c.l[sd].state["root"] = "local"
        /\ Remote(sd) => /\ c.l[sd].state["root"] = IF listed THEN "LISTED" ELSE "UNKNOWN"
                         /\ c.l[sd].known = IF ~listed THEN {}
                              ELSE IF sd = "src" THEN Wanted \cap In("root") ELSE disk \cap In("root")
        /\ \A s \in Dirs : c.l[sd].state[s] = "absent"
  BY <1>4, NewLists DEF ll
<1> DEFINE S == IF listed /\ Remote("src") THEN {"root"} ELSE {}
<1>10. Sub = {"root"} \cup Dirs BY DEF Sub, Dirs
<1>11. /\ c2.l["src"].state["root"] = c.l["src"].state["root"]
       /\ c2.l["dst"].state["root"] = c.l["dst"].state["root"]
  BY <1>5, <1>6, <1>9, <1>10 DEF NewFor, Type, Side
<1>12. SourceGoodBut(c2.l, S)
  <2>1. CASE kind.type = "FXP"
    <3>1. \A f \in Wanted \cap In("root") : Where[f] = "root" BY DEF In
    <3>2. c2.l["src"].known \subseteq Wanted /\ \A f \in c2.l["src"].known : Where[f] = "root"
      BY <1>5, <1>7, <1>8, <1>9, <2>1, <3>1
    <3>3. \A s \in Dirs : c2.l["src"].state[s] = "absent" BY <1>5, <1>8, <1>9, <2>1
    <3>4. \A s \in Sub : c2.l["src"].state[s] \in {"LISTED", "LISTFAILED"} =>
            s = "root" /\ listed /\ Wanted \cap In(s) \subseteq c2.l["src"].known
      BY <1>5, <1>7, <1>8, <1>9, <1>10, <2>1, <3>3
    <3> QED BY <1>5, <1>7, <1>8, <1>9, <1>10, <2>1, <3>2, <3>3, <3>4 DEF SourceGoodBut
  <2>2. CASE kind.type = "UPLOAD"
    <3>1. kind.item = "dir" => LocalDirs = Dirs BY <2>2 DEF LocalDirs
    <3>2. kind.item = "dir" => \A s \in Dirs : c2.l["dst"].state[s] # "absent"
      <4>1. NewFor(LocalDirs, c.l["dst"], c2.l["dst"]) BY <1>5, <2>2
      <4>2. \A s \in Dirs : s \in Sub /\ c.l["dst"].state[s] = "absent" BY <1>8, <1>9, <1>10
      <4> QED BY <3>1, <4>1, <4>2 DEF NewFor
    <3>3. c2.l["src"].known = Wanted BY <1>5, <2>2
    <3>4. c2.l["src"].state["root"] = "local" BY <1>7, <1>8, <1>9, <1>11, <2>2
    <3>5. c2.l["dst"].state["root"] # "absent" BY <1>7, <1>8, <1>9, <1>11, <2>2
    <3> QED BY <2>2, <3>2, <3>3, <3>4, <3>5 DEF SourceGoodBut
  <2>3. CASE kind.type = "DOWNLOAD"
    <3>4. NewFor(LocalDirs, c.l["src"], c2.l["src"]) BY <1>5, <2>3
    <3>1. \A s \in Dirs : c2.l["src"].state[s] \in {"absent", "UNKNOWN"}
      <4>1. \A s \in Dirs : s \in Sub /\ c.l["src"].state[s] = "absent" BY <1>8, <1>9, <1>10
      <4> QED BY <3>4, <4>1 DEF NewFor
    <3>2. c2.l["src"].known = c.l["src"].known BY <3>4 DEF NewFor
    <3>3. \A s \in Sub : c2.l["src"].state[s] \in {"LISTED", "LISTFAILED"} =>
            s = "root" /\ listed /\ Wanted \cap In(s) \subseteq c2.l["src"].known
      BY <1>7, <1>8, <1>9, <1>10, <1>11, <2>3, <3>1, <3>2
    <3> QED BY <1>7, <1>8, <1>9, <1>10, <1>11, <2>3, <3>1, <3>2, <3>3 DEF SourceGoodBut
  <2> QED BY <1>6, <2>1, <2>2, <2>3 DEF Type
<1>13. /\ c2.t.total = 0 /\ c2.t.almost = FALSE /\ c2.t.st = "QUEUED" /\ c2.t.poke = FALSE
       /\ \A f \in File : c2.t.attempts[f] = 0 /\ c2.x.last[f] = "none"
       /\ c2.x.mine = {} /\ c2.x.stuck = {}
  <2>1. c2.t = NewJob /\ c2.x = NoTransfers(old) BY <1>4, <1>5
  <2> QED BY ONLY <2>1 DEF NewJob, NoTransfers
<1>14. TargetGood(c2.l, c2.x, disk)
  <2>1. c2.l["dst"].known \subseteq disk
    <3>1. c.l["dst"].known \subseteq disk BY <1>7, <1>8, <1>9
    <3> QED BY <1>5, <1>6, <1>13, <3>1 DEF Type, NewFor
  <2> QED BY <1>13, <2>1 DEF TargetGood
<1>15. XferGood(c2.t, c2.x, disk) BY <1>13 DEF XferGood
<1>16. TotalGood(c2.t, c2.l)
  <2>1. Counted \in SUBSET File /\ Counted \cap c2.l["src"].known \in SUBSET File BY FilesWanted
  <2>2. Cardinality(Counted) \in Nat /\ Cardinality(Counted \cap c2.l["src"].known) \in Nat
    BY <2>1, FileSets
  <2> QED BY <1>13, <2>2 DEF TotalGood
<1>17. StatusGood(c2.t) /\ AlmostGood(c2.t, c2.l, c2.x, disk) /\ OverGood(c2.t, c2.x)
  BY <1>13 DEF StatusGood, AlmostGood, OverGood, IsDone
<1>18. GoodBut(c2, disk, S) BY <1>5, <1>12, <1>14, <1>15, <1>16, <1>17 DEF GoodBut
<1> QED BY <1>5, <1>8, <1>9, <1>11, <1>18 DEF Good

(***************************************************************************)
(* The requests.                                                           *)
(***************************************************************************)
\* The lists that the job's action waits for have all been had.
NothingToList(c) == \A sd \in RemoteSides : getListTargets(c, sd) = {}

LEMMA RequestSides ==
  ASSUME KindGood, NEW c, NEW sd \in Side, Remote(sd), getListTargets(c, sd) = {},
         kind.type = "FXP" => \A o \in Side : getListTargets(c, o) = {}
  PROVE NothingToList(c)
<1>1. kind.type \in Type BY DEF KindGood
<1> QED BY <1>1 DEF NothingToList, RemoteSides, Remote, Side, Type

LEMMA NoUnknown ==
  ASSUME NEW c, NothingToList(c), NEW sd \in Side, Remote(sd), NEW s \in Sub
  PROVE c.l[sd].state[s] # "UNKNOWN"
BY DEF NothingToList, RemoteSides, getListTargets

LEMMA PairPresent ==
  ASSUME KindGood, NEW D, NEW c, Good(c, D), kind.type # "DOWNLOAD",
         NEW f \in c.l["src"].known
  PROVE c.l["dst"].state[Where[f]] # "absent"
<1>1. kind.type \in Type /\ kind.item \in {"file", "dir"} BY DEF KindGood
<1>2. f \in Wanted /\ Where[f] \in Sub BY FilesWanted, GoodParts DEF SourceGood, SourceGoodBut
<1>3. CASE kind.type = "FXP" BY <1>2, <1>3, GoodParts DEF SourceGood, SourceGoodBut
<1>4. CASE kind.type = "UPLOAD"
  <2>1. CASE kind.item = "file"
    <3>1. Where[f] = "root" BY <1>2, <2>1 DEF Wanted
    <3> QED BY <3>1, GoodParts DEF SourceGood, SourceGoodBut
  <2>2. CASE kind.item = "dir"
    <3>1. Where[f] \in Dirs BY <1>2, <2>2 DEF Wanted, Sub, Dirs
    <3> QED BY <1>4, <2>2, <3>1, GoodParts DEF SourceGood, SourceGoodBut
  <2> QED BY <1>1, <2>1, <2>2
<1> QED BY <1>1, <1>3, <1>4 DEF Type

\* Once there is nothing to list, all files of the item are known.
LEMMA AllKnown ==
  ASSUME KindGood, NEW D, NEW c, Good(c, D), NothingToList(c)
  PROVE Wanted \subseteq c.l["src"].known
<1>1. kind.type \in Type /\ kind.item \in {"file", "dir"} BY DEF KindGood
<1>2. CASE kind.type = "UPLOAD" BY <1>2, GoodParts DEF SourceGood, SourceGoodBut
<1>3. CASE kind.type # "UPLOAD"
  <2>1. "src" \in Side /\ Remote("src") BY <1>3 DEF Side, Remote
  <2>2. c.l["src"].state \in [Sub -> ListState] BY GoodParts, StateFields DEF ListsRec
  <2>3. \A s \in Sub : c.l["src"].state[s] # "absent" =>
          c.l["src"].state[s] \in {"LISTED", "LISTFAILED"}
    BY <1>3, <2>1, <2>2, NoUnknown, GoodParts DEF SourceGood, SourceGoodBut, ListState
  <2>4. c.l["src"].state["root"] # "absent" BY GoodParts DEF SourceGood, SourceGoodBut
  <2>5. "root" \in Sub /\ "d" \in Sub /\ "e" \in Sub /\ Sub = {"root", "d", "e"} BY DEF Sub
  <2>6. \A s \in Sub : c.l["src"].state[s] # "absent" => Wanted \cap In(s) \subseteq c.l["src"].known
    BY <1>3, <2>3, GoodParts DEF SourceGood, SourceGoodBut
  <2>7. kind.item = "dir" => \A s \in {"root", "d"} :
          c.l["src"].state[s] # "absent" => c.l["src"].state[Child(s)] # "absent"
    BY <1>3, <2>3, <2>5, GoodParts DEF SourceGood, SourceGoodBut
  <2>8. Child("root") = "d" /\ Child("d") = "e" BY DEF Child
  <2>9. ASSUME NEW f \in Wanted PROVE f \in c.l["src"].known
    <3>1. f \in In(Where[f]) /\ Where[f] \in Sub BY <2>9, FilesWanted DEF In
    <3>2. kind.item = "file" => Where[f] = "root" BY <2>9 DEF Wanted
    <3>3. c.l["src"].state[Where[f]] # "absent"
      BY <1>1, <2>4, <2>5, <2>7, <2>8, <3>1, <3>2
    <3> QED BY <2>6, <2>9, <3>1, <3>3
  <2> QED BY <2>9
<1> QED BY <1>2, <1>3

\* Then the files that are not pending have been transferred or are there.
LEMMA NotPending ==
  ASSUME KindGood, NEW D, NEW c, Good(c, D), NothingToList(c),
         NEW f \in Counted, f \notin Pending(c)
  PROVE f \in Considered(c) \cap c.l["dst"].known \/ hasFailedTransfer(c, f)
<1>1. f \in Wanted \cap c.l["src"].known BY AllKnown, FilesWanted
<1>2. CASE f \in Considered(c) BY <1>2 DEF Pending
<1>3. CASE f \notin Considered(c) /\ kind.type = "DOWNLOAD" BY <1>1, <1>3 DEF Considered
<1>4. CASE f \notin Considered(c) /\ kind.type # "DOWNLOAD"
  <2>1. c.l["dst"].state[Where[f]] \in {"absent", "UNKNOWN"} BY <1>1, <1>4 DEF Considered
  <2>2. c.l["dst"].state[Where[f]] # "absent" BY <1>1, <1>4, PairPresent
  <2>3. Remote("dst") /\ "dst" \in Side /\ Where[f] \in Sub
    BY <1>1, <1>4, FilesWanted DEF Remote, Side
  <2> QED BY <2>1, <2>2, <2>3, NoUnknown
<1> QED BY <1>2, <1>3, <1>4

LEMMA HasFailed ==
  ASSUME NEW c \in StateRec, NEW f \in File, hasFailedTransfer(c, f)
  PROVE c.t.attempts[f] > 0
<1>1. c.t.attempts[f] \in Nat BY StateFields DEF JobRec
<1> QED BY <1>1, TransferJobAssumption DEF TransferJobAssumption, hasFailedTransfer

LEMMA StartedJob ==
  ASSUME NEW t \in JobRec
  PROVE /\ start(t) \in JobRec
        /\ start(t).almost = t.almost /\ start(t).attempts = t.attempts
        /\ start(t).total = t.total /\ start(t).existing = t.existing
        /\ start(t).st = IF t.st = "QUEUED" THEN "RUNNING" ELSE t.st
        /\ start(t).poke = IF t.st = "QUEUED" THEN TRUE ELSE t.poke
BY DEF JobRec, Status, start

\* No request ends a job but through updateStatus, or changes the attempts.
StatusKept(t, t2) ==
  /\ t2.attempts = t.attempts
  /\ t2.st \in {"DONE", "FAILED"} => t.st = t2.st

LEMMA RefreshOrAlmost ==
  ASSUME KindGood, disk \subseteq File, NEW c, Good(c, disk), NothingToList(c), Pending(c) = {},
         NEW c2, c2 = refreshOrAlmostDone(c)
  PROVE Good(c2, disk) /\ c2.x = c.x /\ StatusKept(c.t, c2.t)
<1> DEFINE marked == {m \in RemoteSides \X Sub : c.l[m[1]].mark[m[2]] # "none"}
           final == {m \in marked : c.l[m[1]].mark[m[2]] = "FINAL_OK"}
           failed == {m \in marked : c.l[m[1]].state[m[2]] = "LISTFAILED"}
           allfinal == final # {} /\ marked = final \cup failed
           ll == [sd \in Side |->
                   IF ~Remote(sd) THEN c.l[sd]
                   ELSE [c.l[sd] EXCEPT !.mark = [s \in Sub |-> FinalMark(c, sd, s)]]]
           t2 == start([c.t EXCEPT !.almost = TRUE])
<1>1. c2 = CASE c.t.almost -> c
             [] ~c.t.almost /\ allfinal -> [c EXCEPT !.t = t2]
             [] OTHER -> updateLocalFileLists([c EXCEPT !.l = ll])
  BY Zenon DEF refreshOrAlmostDone
<1>2. c \in StateRec /\ c.t \in JobRec BY GoodParts, StateFields
<1> HIDE DEF allfinal
<1>3. CASE c.t.almost BY <1>1, <1>3 DEF StatusKept
<1>4. CASE ~c.t.almost /\ allfinal
  <2>1. [c.t EXCEPT !.almost = TRUE] \in JobRec BY <1>2 DEF JobRec
  <2>2. /\ t2 \in JobRec /\ t2.almost = TRUE /\ t2.attempts = c.t.attempts /\ t2.total = c.t.total
        /\ t2.st = IF c.t.st = "QUEUED" THEN "RUNNING" ELSE c.t.st
        /\ t2.poke = IF c.t.st = "QUEUED" THEN TRUE ELSE c.t.poke
    BY <1>2, <2>1, StartedJob DEF JobRec
  <2> HIDE DEF t2
  <2>3. c2 \in StateRec /\ c2.t = t2 /\ c2.l = c.l /\ c2.x = c.x
    BY <1>1, <1>2, <1>4, <2>2, StateFields DEF StateRec
  <2>4. AlmostGood(c2.t, c2.l, c2.x, disk)
    <3>1. ASSUME NEW f \in Counted
          PROVE \/ c.x.last[f] # "none"
                \/ f \in disk /\ (f \in c.l["dst"].known \/ c.t.attempts[f] > 0)
      <4>1. f \in c.l["dst"].known \/ hasFailedTransfer(c, f) BY <3>1, NotPending
      <4>2. CASE f \in c.l["dst"].known BY <4>2, GoodParts DEF TargetGood
      <4>3. CASE hasFailedTransfer(c, f)
        <5>1. f \in File BY <3>1, FilesWanted
        <5>2. c.t.attempts[f] > 0 BY <1>2, <4>3, <5>1, HasFailed
        <5> QED BY <5>1, <5>2, GoodParts DEF XferGood
      <4> QED BY <4>1, <4>2, <4>3
    <3> QED BY <2>2, <2>3, <3>1 DEF AlmostGood
  <2>5. StatusGood(c2.t) BY <2>2, <2>3, GoodParts DEF StatusGood
  <2>6. XferGood(c2.t, c2.x, disk) BY <2>2, <2>3, GoodParts DEF XferGood
  <2>7. TotalGood(c2.t, c2.l) BY <2>2, <2>3, GoodParts DEF TotalGood
  <2>8. OverGood(c2.t, c2.x) BY <2>2, <2>3, GoodParts DEF OverGood, IsDone
  <2> QED BY <2>2, <2>3, <2>4, <2>5, <2>6, <2>7, <2>8, GoodParts DEF StatusKept
<1>5. CASE ~c.t.almost /\ ~allfinal
  <2>1. c2 = updateLocalFileLists([c EXCEPT !.l = ll]) BY <1>1, <1>5
  <2>2. \A sd \in Side, s \in Sub : FinalMark(c, sd, s) \in Mark
    <3>1. \A sd \in Side, s \in Sub : c.l[sd].mark[s] \in Mark BY <1>2, StateFields DEF ListsRec
    <3> QED BY <3>1 DEF FinalMark, Mark
  <2>3. ASSUME NEW sd \in Side
        PROVE ll[sd] \in ListsRec /\ ll[sd].state = c.l[sd].state /\ ll[sd].known = c.l[sd].known
    <3>1. c.l[sd] \in ListsRec BY <1>2, StateFields
    <3>2. [s \in Sub |-> FinalMark(c, sd, s)] \in [Sub -> Mark] BY <2>2
    <3> DEFINE m == [s \in Sub |-> FinalMark(c, sd, s)]
    <3>3. ll[sd] = IF ~Remote(sd) THEN c.l[sd] ELSE [c.l[sd] EXCEPT !.mark = m] OBVIOUS
    <3> HIDE DEF m, ll
    <3>4. m \in [Sub -> Mark] BY <3>2 DEF m
    <3> QED BY <3>1, <3>3, <3>4 DEF ListsRec
  <2>4. ll \in [Side -> ListsRec]
    <3>1. ll = [sd \in Side |-> ll[sd]] OBVIOUS
    <3> HIDE DEF ll
    <3> QED BY <2>3, <3>1
  <2> HIDE DEF ll
  <2> DEFINE c1 == [c EXCEPT !.l = ll]
  <2>5. c1 \in StateRec /\ c1.t = c.t /\ c1.x = c.x /\ c1.l = ll
    BY <1>2, <2>4, StateFields DEF StateRec
  <2> HIDE DEF c1
  <2>6. KeptButMarks(c.l, c1.l) BY <2>3, <2>5 DEF KeptButMarks
  <2>7. Good(c1, disk) BY <2>5, <2>6, GoodMarks DEF Good
  <2>8. c2 = updateLocalFileLists(c1) BY <2>1 DEF c1
  <2>9. Good(c2, disk) /\ c2.t = c1.t /\ c2.x = c1.x BY <2>7, <2>8, UpdateLocalGood
  <2> QED BY <2>5, <2>9 DEF StatusKept
<1> QED BY <1>3, <1>4, <1>5

LEMMA ClearMarks ==
  ASSUME NEW D, NEW c, Good(c, D), NEW c2, c2 = clearRefreshLists(c)
  PROVE Good(c2, D) /\ c2.t = c.t /\ c2.x = c.x /\ KeptButMarks(c.l, c2.l)
<1>1. c \in StateRec BY GoodParts
<1> DEFINE m == [s \in Sub |-> "none"]
           ll == [sd \in Side |-> [c.l[sd] EXCEPT !.mark = m]]
<1>2. m \in [Sub -> Mark] BY DEF Mark
<1>3. c2 = [c EXCEPT !.l = ll] BY DEF clearRefreshLists
<1> HIDE DEF m
<1>4. \A sd \in Side : /\ ll[sd] \in ListsRec
                       /\ ll[sd].state = c.l[sd].state /\ ll[sd].known = c.l[sd].known
  <2>1. \A sd \in Side : c.l[sd] \in ListsRec BY <1>1, StateFields
  <2> QED BY <1>2, <2>1 DEF ListsRec
<1>5. ll = [sd \in Side |-> ll[sd]] OBVIOUS
<1> HIDE DEF ll
<1>6. ll \in [Side -> ListsRec] BY <1>4, <1>5
<1>7. c2 \in StateRec /\ c2.t = c.t /\ c2.x = c.x /\ c2.l = ll
  BY <1>1, <1>3, <1>6, StateFields DEF StateRec
<1>8. KeptButMarks(c.l, c2.l) BY <1>4, <1>7 DEF KeptButMarks
<1> QED BY <1>7, <1>8, GoodMarks DEF Good

\* A transfer is started for a file that the destination's list does not know;
\* if the job is over by then, it is a retry.
LEMMA StartTransfer ==
  ASSUME NEW D, NEW c, Good(c, D), NEW f \in Counted, f \notin c.l["dst"].known,
         c.t.st # "ABORTED", NEW late \in BOOLEAN, NEW c1, c1 = addTransfer(c, f, late),
         NEW c2, c2 = [c1 EXCEPT !.t = start(@)]
  PROVE Good(c2, D) /\ StatusKept(c.t, c2.t)
<1>1. c \in StateRec /\ f \in File BY GoodParts, FilesWanted
<1>2. /\ c.t \in JobRec /\ c.x \in XferRec /\ c.l \in [Side -> ListsRec]
      /\ c.l["dst"] \in ListsRec /\ c.l["src"] \in ListsRec
  BY <1>1, StateFields
<1> DEFINE x2 == [c.x EXCEPT !.last[f] = IF late THEN "FAILED" ELSE "IN_PROGRESS",
                             !.mine = IF late THEN @ ELSE @ \cup {f},
                             !.stuck = IF late THEN @ \cup {f} ELSE @]
           r == [c.l["dst"] EXCEPT !.known = @ \cup {f}]
           ll == [c.l EXCEPT !["dst"] = r]
           t1 == [c.t EXCEPT !.existing = IF late THEN @ ELSE @ \ {f}]
<1>3. c1 = [t |-> t1, l |-> ll, x |-> x2]
  BY <1>1, <1>2, StateFields DEF addTransfer, StateRec
<1>4. /\ x2 \in XferRec
      /\ x2.last[f] = IF late THEN "FAILED" ELSE "IN_PROGRESS"
      /\ \A g \in File \ {f} : x2.last[g] = c.x.last[g]
      /\ x2.mine = (IF late THEN c.x.mine ELSE c.x.mine \cup {f})
      /\ x2.stuck = (IF late THEN c.x.stuck \cup {f} ELSE c.x.stuck)
  BY <1>1, <1>2 DEF XferRec, Ended
<1>5. r \in ListsRec /\ r.known = c.l["dst"].known \cup {f} /\ r.state = c.l["dst"].state
  BY <1>1, <1>2 DEF ListsRec
<1>6. /\ t1 \in JobRec /\ t1.st = c.t.st /\ t1.poke = c.t.poke /\ t1.almost = c.t.almost
      /\ t1.total = c.t.total /\ t1.attempts = c.t.attempts
  BY <1>1, <1>2 DEF JobRec
<1> HIDE DEF x2, r, t1
<1>7. ll \in [Side -> ListsRec] /\ ll["dst"] = r /\ ll["src"] = c.l["src"]
  BY <1>2, <1>5 DEF Side
<1> HIDE DEF ll
<1>8. /\ start(t1) \in JobRec
      /\ start(t1).almost = t1.almost /\ start(t1).attempts = t1.attempts
      /\ start(t1).total = t1.total
      /\ start(t1).st = (IF t1.st = "QUEUED" THEN "RUNNING" ELSE t1.st)
      /\ start(t1).poke = (IF t1.st = "QUEUED" THEN TRUE ELSE t1.poke)
  BY <1>6, StartedJob
<1>9. c2 \in StateRec /\ c2.t = start(t1) /\ c2.l = ll /\ c2.x = x2
  BY <1>3, <1>4, <1>7, <1>8 DEF StateRec
<1>10. f \notin c.x.mine /\ f \notin c.x.stuck BY GoodParts DEF TargetGood
<1>11. StatusGood(c2.t) BY <1>6, <1>8, <1>9, GoodParts DEF StatusGood
<1>12. SourceGood(c2.l) BY <1>5, <1>7, <1>9, GoodParts DEF SourceGood, SourceGoodBut
<1>13. c.x.mine \subseteq File /\ c.x.stuck \subseteq File /\ c.l["dst"].known \subseteq File
  BY <1>2 DEF XferRec, ListsRec
<1>14. TargetGood(c2.l, c2.x, D)
  <2>1. \A g \in c2.l["dst"].known : g \in D \/ c2.x.last[g] # "none"
    BY <1>4, <1>5, <1>7, <1>9, <1>13, GoodParts DEF TargetGood
  <2>2. c2.x.mine \cup c2.x.stuck \subseteq c2.l["dst"].known
    BY <1>4, <1>5, <1>7, <1>9, GoodParts DEF TargetGood
  <2>3. c2.x.mine \cap c2.x.stuck = {} BY <1>4, <1>9, <1>10, GoodParts DEF TargetGood
  <2> QED BY <2>1, <2>2, <2>3 DEF TargetGood
<1>15. XferGood(c2.t, c2.x, D)
  BY <1>4, <1>6, <1>8, <1>9, <1>10, GoodParts DEF XferGood
<1>16. TotalGood(c2.t, c2.l) BY <1>6, <1>7, <1>8, <1>9, GoodParts DEF TotalGood
<1>17. AlmostGood(c2.t, c2.l, c2.x, D)
  <2>1. SUFFICES ASSUME c2.t.almost, NEW g \in Counted
                 PROVE \/ c2.x.last[g] # "none"
                       \/ g \in D /\ (g \in c2.l["dst"].known \/ c2.t.attempts[g] > 0)
    BY DEF AlmostGood
  <2>2. c.t.almost /\ c2.t.attempts = c.t.attempts BY <1>6, <1>8, <1>9, <2>1
  <2>3. c2.l["dst"].known = c.l["dst"].known \cup {f} BY <1>5, <1>7, <1>9
  <2>4. g \in File BY FilesWanted
  <2>5. CASE g = f BY <1>4, <1>9, <2>5
  <2>6. CASE g # f
    <3>1. c2.x.last[g] = c.x.last[g] BY <1>4, <1>9, <2>4, <2>6
    <3> QED BY <2>2, <2>3, <3>1, GoodParts DEF AlmostGood
  <2> QED BY <2>5, <2>6
<1>18. OverGood(c2.t, c2.x)
  <2>0. c2.t.st # "ABORTED" BY <1>6, <1>8, <1>9
  <2>1. SUFFICES ASSUME IsDone(c2.t), NEW g \in c2.x.mine
                 PROVE c2.x.last[g] = "ABORTED" \/ c2.t.attempts[g] > 0
    BY <2>0 DEF OverGood
  <2>2. IsDone(c.t) /\ c.t.st = c2.t.st BY <1>6, <1>8, <1>9, <2>1 DEF IsDone
  <2>3. CASE g # f
    <3>1. g \in c.x.mine /\ g \in File BY <1>4, <1>9, <1>13, <2>1, <2>3
    <3> QED BY <1>4, <1>6, <1>8, <1>9, <2>2, <2>3, <3>1, GoodParts DEF OverGood
  <2>4. CASE g = f
    <3>1. CASE c.t.almost
      <4>1. c.x.last[f] # "none" \/ c.t.attempts[f] > 0 BY <3>1, GoodParts DEF AlmostGood
      <4>2. c.t.attempts[f] > 0 BY <1>1, <1>10, <4>1, GoodParts DEF XferGood
      <4> QED BY <1>6, <1>8, <1>9, <2>4, <4>2
    <3>2. CASE ~c.t.almost
      <4> QED BY <2>2, <3>2, GoodParts DEF StatusGood, IsDone
    <3> QED BY <3>1, <3>2
  <2> QED BY <2>3, <2>4
<1>19. StatusKept(c.t, c2.t) BY <1>6, <1>8, <1>9 DEF StatusKept
<1> QED BY <1>9, <1>11, <1>12, <1>14, <1>15, <1>16, <1>17, <1>18, <1>19, GoodParts

(***************************************************************************)
(* The ends of transfers.                                                  *)
(***************************************************************************)
\* Another attempt for each file of F has been counted; the status is as it was.
Attempted(t, t2, F) ==
  /\ t2 \in JobRec /\ t2.st = t.st /\ t2.poke = t.poke /\ t2.almost = t.almost
  /\ t2.total = t.total
  /\ \A f \in F : t2.attempts[f] > 0
  /\ \A f \in File \ F : t2.attempts[f] = t.attempts[f]

LEMMA Attempt ==
  ASSUME NEW c \in StateRec, NEW F \in SUBSET File, NEW success \in BOOLEAN,
         NEW c2, c2 = addTransferAttempt(c, F, success)
  PROVE /\ c2 \in StateRec /\ c2.l = c.l /\ c2.x = c.x
        /\ Attempted(c.t, c2.t, F)
<1> DEFINE n(f) == CASE f \notin F -> c.t.attempts[f]
                     [] f \in F /\ success /\ Where[f] = "root" -> MAX_TRANSFER_ATTEMPTS_BEFORE_SKIP
                     [] OTHER -> IF c.t.attempts[f] > MAX_TRANSFER_ATTEMPTS_BEFORE_SKIP
                                 THEN c.t.attempts[f] ELSE c.t.attempts[f] + 1
           a2 == [f \in File |-> n(f)]
           t2 == [c.t EXCEPT !.attempts = a2]
<1>1. c.t \in JobRec /\ c.t.attempts \in [File -> Nat] BY StateFields DEF JobRec
<1>2. ASSUME NEW f \in File
      PROVE /\ n(f) \in Nat /\ (f \in F => n(f) > 0)
            /\ f \notin F => n(f) = c.t.attempts[f]
  BY <1>1, TransferJobAssumption DEF TransferJobAssumption
<1>3. c2 = [c EXCEPT !.t = t2] BY <1>1, StateFields DEF addTransferAttempt, StateRec, JobRec
<1> HIDE DEF n
<1>4. /\ a2 \in [File -> Nat] /\ \A f \in F : a2[f] > 0
      /\ \A f \in File \ F : a2[f] = c.t.attempts[f]
  BY <1>2
<1> HIDE DEF a2
<1>5. t2 \in JobRec /\ Attempted(c.t, t2, F) BY <1>1, <1>4 DEF JobRec, Attempted
<1> HIDE DEF t2
<1> QED BY <1>3, <1>5, StateFields DEF StateRec

\* The transfers of F end; the destination's list may forget files of F.
Ending(c, c2, F) ==
  /\ F \subseteq c.x.mine /\ c2 \in StateRec /\ Attempted(c.t, c2.t, F)
  /\ c2.x.mine = c.x.mine \ F /\ c2.x.stuck = c.x.stuck /\ c2.x.old = c.x.old
  /\ \A f \in F : c2.x.last[f] \in Ended
  /\ \A g \in File \ F : c2.x.last[g] = c.x.last[g]
  /\ c2.l["src"].state = c.l["src"].state /\ c2.l["src"].known = c.l["src"].known
  /\ c2.l["dst"].state = c.l["dst"].state
  /\ c2.l["dst"].known \subseteq c.l["dst"].known
  /\ c.l["dst"].known \ F \subseteq c2.l["dst"].known

LEMMA GoodEnd ==
  ASSUME NEW D, NEW D2, NEW c, Good(c, D), D \subseteq D2,
         NEW F, NEW c2, Ending(c, c2, F)
  PROVE Good(c2, D2)
<1> USE DEF Ending
<1>1. /\ c.x.mine \subseteq File /\ c.x.stuck \subseteq File /\ c.l["dst"].known \subseteq File
      /\ c.t \in JobRec /\ c2.t \in JobRec
  <2>1. c \in StateRec BY GoodParts
  <2> QED BY <2>1, StateFields DEF XferRec, ListsRec
<1>2. F \subseteq File /\ F \cap c.x.stuck = {} BY <1>1, GoodParts DEF TargetGood
<1>3. \A f \in F : c2.x.last[f] # "none" /\ c2.x.last[f] # "IN_PROGRESS" BY DEF Ended
<1>4. StatusGood(c2.t) BY GoodParts DEF StatusGood, Attempted
<1>5. SourceGood(c2.l) BY GoodParts DEF SourceGood, SourceGoodBut
<1>6. TargetGood(c2.l, c2.x, D2)
  <2>1. \A g \in c2.l["dst"].known : g \in D2 \/ c2.x.last[g] # "none"
    BY <1>1, <1>3, GoodParts DEF TargetGood
  <2>2. c2.x.mine \cup c2.x.stuck \subseteq c2.l["dst"].known
    BY <1>2, GoodParts DEF TargetGood
  <2>3. c2.x.mine \cap c2.x.stuck = {} BY GoodParts DEF TargetGood
  <2> QED BY <2>1, <2>2, <2>3 DEF TargetGood
<1>7. XferGood(c2.t, c2.x, D2)
  <2>1. SUFFICES ASSUME NEW g \in File
        PROVE /\ g \in c2.x.mine => c2.x.last[g] \in {"IN_PROGRESS", "ABORTED"}
              /\ c2.x.last[g] = "IN_PROGRESS" => g \in c2.x.mine
              /\ c2.x.last[g] # "none" => g \in c2.x.mine \/ g \in c2.x.stuck \/ c2.t.attempts[g] > 0
              /\ c2.t.attempts[g] > 0 => g \in D2 \/ c2.x.last[g] # "none"
    BY DEF XferGood
  <2>2. CASE g \in F BY <1>3, <2>2 DEF Attempted
  <2>3. CASE g \notin F BY <2>3, GoodParts DEF XferGood, Attempted
  <2> QED BY <2>2, <2>3
<1>8. TotalGood(c2.t, c2.l) BY GoodParts DEF TotalGood, Attempted
<1>9. AlmostGood(c2.t, c2.l, c2.x, D2)
  <2>1. SUFFICES ASSUME c2.t.almost, NEW g \in Counted
                 PROVE \/ c2.x.last[g] # "none"
                       \/ g \in D2 /\ (g \in c2.l["dst"].known \/ c2.t.attempts[g] > 0)
    BY DEF AlmostGood
  <2>2. c.t.almost /\ g \in File BY <2>1, FilesWanted DEF Attempted
  <2>3. CASE g \in F BY <1>3, <2>3
  <2>4. CASE g \notin F
    <3>1. g \in c.l["dst"].known => g \in c2.l["dst"].known BY <2>4
    <3> QED BY <2>2, <2>4, <3>1, GoodParts DEF AlmostGood, Attempted
  <2> QED BY <2>3, <2>4
<1>10. OverGood(c2.t, c2.x) BY <1>1, GoodParts DEF OverGood, Attempted, IsDone
<1> QED BY <1>4, <1>5, <1>6, <1>7, <1>8, <1>9, <1>10, GoodParts

LEMMA GoodFormer ==
  ASSUME NEW D, NEW c, Good(c, D), NEW f \in File,
         NEW c2 \in StateRec, Attempted(c.t, c2.t, {f}), c2.l = c.l,
         c2.x.mine = c.x.mine, c2.x.stuck = c.x.stuck, c2.x.last = c.x.last,
         c2.x.old \subseteq c.x.old
  PROVE Good(c2, D \cup {f})
<1>1. StatusGood(c2.t) BY GoodParts DEF StatusGood, Attempted
<1>2. TargetGood(c2.l, c2.x, D \cup {f}) BY GoodParts DEF TargetGood
<1>3. XferGood(c2.t, c2.x, D \cup {f})
  <2>1. SUFFICES ASSUME NEW g \in File
        PROVE /\ g \in c2.x.mine => c2.x.last[g] \in {"IN_PROGRESS", "ABORTED"}
              /\ c2.x.last[g] = "IN_PROGRESS" => g \in c2.x.mine
              /\ c2.x.last[g] # "none" => g \in c2.x.mine \/ g \in c2.x.stuck \/ c2.t.attempts[g] > 0
              /\ c2.t.attempts[g] > 0 => g \in D \cup {f} \/ c2.x.last[g] # "none"
    BY DEF XferGood
  <2>2. CASE g = f BY <2>2, GoodParts DEF XferGood, Attempted
  <2>3. CASE g # f BY <2>3, GoodParts DEF XferGood, Attempted
  <2> QED BY <2>2, <2>3
<1>4. TotalGood(c2.t, c2.l) BY GoodParts DEF TotalGood, Attempted
<1>5. AlmostGood(c2.t, c2.l, c2.x, D \cup {f})
  <2>1. SUFFICES ASSUME c2.t.almost, NEW g \in Counted
                 PROVE \/ c2.x.last[g] # "none"
                       \/ g \in D \cup {f} /\ (g \in c2.l["dst"].known \/ c2.t.attempts[g] > 0)
    BY DEF AlmostGood
  <2>2. c.t.almost /\ g \in File BY <2>1, FilesWanted DEF Attempted
  <2>3. CASE g = f BY <2>3 DEF Attempted
  <2>4. CASE g # f BY <2>2, <2>4, GoodParts DEF AlmostGood, Attempted
  <2> QED BY <2>3, <2>4
<1>6. OverGood(c2.t, c2.x)
  <2>1. c.x.mine \subseteq File
    <3>1. c \in StateRec BY GoodParts
    <3> QED BY <3>1, StateFields DEF XferRec
  <2> QED BY <2>1, GoodParts DEF OverGood, Attempted, IsDone
<1> QED BY <1>1, <1>2, <1>3, <1>4, <1>5, <1>6, GoodParts

\* Some transfers under way are aborted and never end, and perhaps the job is
\* aborted with them.
LEMMA GoodAbort ==
  ASSUME NEW D, NEW c, Good(c, D), NEW H \in SUBSET c.x.mine,
         NEW c2 \in StateRec, c2.l = c.l,
         c2.x.mine = c.x.mine, c2.x.stuck = c.x.stuck,
         c2.x.last = [f \in File |-> IF f \in H THEN "ABORTED" ELSE c.x.last[f]],
         c2.t \in {c.t, setDone(c.t, "ABORTED")}, OverGood(c2.t, c2.x)
  PROVE Good(c2, D)
<1>1. c \in StateRec /\ c.t \in JobRec /\ c.x \in XferRec BY GoodParts, StateFields
<1>2. \A f \in File : c2.x.last[f] = IF f \in H THEN "ABORTED" ELSE c.x.last[f]
  OBVIOUS
<1>3. c.x.mine \subseteq File /\ c.l["dst"].known \subseteq File
  BY <1>1, StateFields DEF XferRec, ListsRec
<1>4. /\ c2.t.attempts = c.t.attempts /\ c2.t.almost = c.t.almost /\ c2.t.total = c.t.total
      /\ \/ c2.t = c.t
         \/ c2.t.st = "ABORTED" /\ c2.t.poke = FALSE
  <2>1. "ABORTED" \in Status BY DEF Status
  <2> DEFINE t2 == setDone(c.t, "ABORTED")
  <2>2. /\ IsDone(c.t) => t2 = c.t
        /\ ~IsDone(c.t) => t2.st = "ABORTED" /\ t2.poke = FALSE
        /\ t2.attempts = c.t.attempts /\ t2.almost = c.t.almost /\ t2.total = c.t.total
    BY ONLY <1>1, <2>1, SetDone
  <2> HIDE DEF t2
  <2>3. c2.t = c.t \/ c2.t = t2 BY DEF t2
  <2> QED BY ONLY <2>2, <2>3
<1>5. StatusGood(c2.t) BY <1>4, GoodParts DEF StatusGood
<1>6. TargetGood(c2.l, c2.x, D) BY <1>2, <1>3, GoodParts DEF TargetGood
<1>7. XferGood(c2.t, c2.x, D) BY <1>2, <1>4, GoodParts DEF XferGood
<1>8. TotalGood(c2.t, c2.l) BY <1>4, GoodParts DEF TotalGood
<1>9. AlmostGood(c2.t, c2.l, c2.x, D)
  BY <1>2, <1>4, FilesWanted, GoodParts DEF AlmostGood
<1> QED BY <1>5, <1>6, <1>7, <1>8, <1>9, GoodParts

(***************************************************************************)
(* The steps.                                                              *)
(***************************************************************************)
LEMMA NextGood ==
  ASSUME NEW STATE c, NEW STATE D, Good(c, D), Become(c), disk' = D,
         kind'.type = kind.type, kind'.item = kind.item
  PROVE Good(State, disk)'
<1>1. c \in StateRec /\ State' = c
  <2>1. c \in StateRec BY GoodParts
  <2> QED BY <2>1, StateFields DEF State, Become
<1>2. State' \in StateRec BY <1>1
<1>3. Wanted' = Wanted BY DEF Wanted
<1>4. Counted' = Counted BY <1>3 DEF Counted
<1>5. StatusGood(State.t)' BY <1>1, GoodParts DEF StatusGood
<1>6. SourceGoodBut(State.l, {})'
  BY <1>1, <1>3, GoodParts DEF SourceGood, SourceGoodBut
<1>7. TargetGood(State.l, State.x, disk)' BY <1>1, GoodParts DEF TargetGood
<1>8. XferGood(State.t, State.x, disk)' BY <1>1, GoodParts DEF XferGood
<1>9. TotalGood(State.t, State.l)' BY <1>1, <1>4, GoodParts DEF TotalGood
<1>10. AlmostGood(State.t, State.l, State.x, disk)' BY <1>1, <1>4, GoodParts DEF AlmostGood
<1>11. OverGood(State.t, State.x)' BY <1>1, GoodParts DEF OverGood, IsDone
<1> QED BY <1>2, <1>5, <1>6, <1>7, <1>8, <1>9, <1>10, <1>11 DEF Good, GoodBut

\* A step that ends the job leaves the attempts and the disk alone.
EndsQuietly ==
  (~IsDone(tj) /\ tj'.st \in {"DONE", "FAILED"}) =>
    tj'.attempts = tj.attempts /\ disk' = disk

\* A step of the job that leaves the engine and the user out.
JobStepGood ==
  /\ Good(State, disk)' /\ KindGood' /\ (disk \subseteq File)' /\ UNCHANGED engine
  /\ EndsQuietly
  /\ tj.st = "ABORTED" => tj'.st = "ABORTED"
  /\ IsDone(tj) => IsDone(tj')

LEMMA StateIs == State.t = tj /\ State.l = lists /\ State.x = xfer
BY DEF State

\* Of a good state and the status it has, one more updateStatus.
LEMMA RefreshGood ==
  ASSUME NEW D, NEW c, Good(c, D),
         NEW c2 \in {updateStatus(c), refreshPendingTransferList(c)}
  PROVE /\ Good(c2, D) /\ c2.l = c.l /\ c2.x = c.x /\ StatusStep(c, c2.t)
<1>1. c \in StateRec BY GoodParts
<1>2. /\ c2 \in StateRec
      /\ c2.l = c.l /\ c2.x = c.x /\ StatusStep(c, c2.t)
  BY <1>1, UpdateStatus, Refresh
<1> QED BY <1>2, GoodStatus

\* How the handlers end: whatever was done to the lists, updateStatus comes last.
LEMMA ListStepGood ==
  ASSUME JobStrong, NEW STATE c, Good(c, disk), ButTotal(tj, c.t), ~IsDone(tj),
         Become(refreshPendingTransferList(c)),
         UNCHANGED <<engine, disk>>, KindGood',
         kind'.type = kind.type, kind'.item = kind.item
  PROVE JobStepGood
<1>1. /\ Good(refreshPendingTransferList(c), disk)
      /\ StatusStep(c, refreshPendingTransferList(c).t)
  BY RefreshGood
<1> DEFINE r == refreshPendingTransferList(c)
<1> HIDE DEF r
<1>2. Good(r, disk) /\ StatusStep(c, r.t) /\ Become(r) BY <1>1 DEF r
<1>3. Good(State, disk)' BY <1>2, NextGood
<1>4. tj' = r.t BY <1>2 DEF Become
<1>5. tj'.attempts = tj.attempts BY <1>2, <1>4 DEF StatusStep, ButTotal
<1> QED BY <1>3, <1>5 DEF JobStepGood, EndsQuietly, JobStrong, IsDone

LEMMA ListGood ==
  ASSUME JobStrong, NEW sd \in Side, NEW s \in Sub, List(sd, s)
  PROVE JobStepGood
<1> DEFINE exists == sd = "src" \/ s = "root" \/ \E f \in disk : Where[f] = s \/ (s = "d" /\ Where[f] = "e")
           there == IF sd = "src" THEN Wanted ELSE disk \cup xfer.mine \cup xfer.stuck
           known == (lists[sd].known \ In(s)) \cup (there \cap In(s))
           c1 == [State EXCEPT !.l[sd].state[s] = "LISTED", !.l[sd].known = known]
           lost == IF lists[sd].state[s] = "UNKNOWN" THEN "NONEXISTENT" ELSE lists[sd].state[s]
           c2 == [State EXCEPT !.l[sd].state[s] = lost]
           link == kind.link /\ sd = "src" /\ s = "root"
           c3 == IF exists THEN c1 ELSE c2
           c4 == fileListUpdated(c3, sd, s, link)
<1>1. Good(State, disk) /\ KindGood /\ disk \subseteq File BY DEF JobStrong
<1>2. State \in StateRec BY <1>1, GoodParts
<1>3. ~IsDone(tj) /\ s \in getListTargets(State, sd) /\ UNCHANGED <<engine, disk>>
      /\ kind' = [kind EXCEPT !.link = kind.link /\ ~link]
  BY Zenon DEF List
<1>4. Become(refreshPendingTransferList(c4))
  <2>1. /\ State.l[sd].known = lists[sd].known /\ State.l[sd].state[s] = lists[sd].state[s]
    BY StateIs
  <2>2. Become(refreshPendingTransferList(fileListUpdated(
          IF exists
          THEN [State EXCEPT !.l[sd].state[s] = "LISTED",
                             !.l[sd].known = (@ \ In(s)) \cup (there \cap In(s))]
          ELSE [State EXCEPT !.l[sd].state[s] = IF @ = "UNKNOWN" THEN "NONEXISTENT" ELSE @],
          sd, s, link)))
    BY Zenon DEF List
  <2>3. c1 = [State EXCEPT !.l[sd].state[s] = "LISTED",
                           !.l[sd].known = (@ \ In(s)) \cup (there \cap In(s))]
    BY <1>2, <2>1, StateFields DEF StateRec, ListsRec
  <2>4. c2 = [State EXCEPT !.l[sd].state[s] = IF @ = "UNKNOWN" THEN "NONEXISTENT" ELSE @]
    BY <1>2, <2>1, StateFields DEF StateRec, ListsRec
  <2> QED BY <2>2, <2>3, <2>4, Zenon
<1>5. KindGood' /\ kind'.type = kind.type /\ kind'.item = kind.item
  BY <1>1, <1>3 DEF KindGood
<1>6. Remote(sd) /\ State.l[sd].state[s] # "absent" BY <1>3 DEF getListTargets
<1>7. sd = "src" => kind.type # "UPLOAD" BY <1>6 DEF Remote
<1>8. link \in BOOLEAN /\ (link => kind.item = "file" /\ kind.type # "UPLOAD")
  BY <1>1 DEF KindGood
<1>9. /\ State.l[sd].known = lists[sd].known /\ State.l[sd].state[s] = lists[sd].state[s]
      /\ State.x = xfer /\ State.t = tj
      /\ lists[sd] \in ListsRec /\ xfer \in XferRec
  BY <1>2, StateIs, StateFields
<1>10. known \in SUBSET File /\ lost \in ListState
  <2>1. lists[sd].known \subseteq File /\ there \subseteq File
    BY <1>1, <1>9, FilesWanted DEF ListsRec, XferRec
  <2>2. lists[sd].state[s] \in ListState BY <1>9 DEF ListsRec
  <2> HIDE DEF there
  <2> QED BY <2>1, <2>2 DEF ListState
<1> DEFINE S == IF sd = "src" /\ c3.l["src"].state[s] = "LISTED" THEN {s} ELSE {}
<1>11. GoodBut(c3, disk, S) /\ c3.t = tj
  <2>1. CASE exists /\ sd = "src"
    <3>1. c3 = c1 BY <2>1
    <3>2. ListChanged(State, c1, "src", s, "LISTED", known)
      <4>1. "LISTED" \in ListState BY DEF ListState
      <4> HIDE DEF known
      <4> QED BY <1>2, <1>10, <2>1, <4>1, ChangeList
    <3>3. known = (State.l["src"].known \ In(s)) \cup (Wanted \cap In(s)) BY <1>9, <2>1
    <3> HIDE DEF known, c1, c3
    <3>4. GoodBut(c1, disk, {s}) BY <1>1, <1>6, <1>7, <2>1, <3>2, <3>3, SourceListed
    <3>5. c1.l["src"].state[s] = "LISTED" /\ c1.t = tj BY <1>9, <3>2 DEF ListChanged
    <3> QED BY <2>1, <3>1, <3>4, <3>5
  <2>2. CASE exists /\ sd = "dst"
    <3>1. c3 = c1 /\ S = {} BY <2>2
    <3>2. ListChanged(State, c1, "dst", s, "LISTED", known)
      <4>1. "LISTED" \in ListState BY DEF ListState
      <4> HIDE DEF known
      <4> QED BY <1>2, <1>10, <2>2, <4>1, ChangeList
    <3>3. known = (State.l["dst"].known \ In(s))
                    \cup ((disk \cup State.x.mine \cup State.x.stuck) \cap In(s))
      BY <1>9, <2>2
    <3> HIDE DEF known, c1, c3
    <3>4. Good(c1, disk) BY <1>1, <3>2, <3>3, TargetListed
    <3>5. c1.t = tj BY <1>9, <3>2 DEF ListChanged
    <3> QED BY <3>1, <3>4, <3>5 DEF Good
  <2>3. CASE ~exists
    <3>1. c3 = c2 /\ sd = "dst" BY <2>3 DEF Side
    <3>2. ListChanged(State, c2, "dst", s, lost, State.l["dst"].known)
      <4> HIDE DEF lost
      <4> QED BY <1>2, <1>10, <3>1, ChangeState
    <3>3. lost # "absent" BY <1>6, <1>9
    <3> HIDE DEF c2, c3, lost
    <3>4. Good(c2, disk) BY <1>1, <3>2, <3>3, TargetListed
    <3>5. c2.t = tj /\ S = {} BY <1>9, <3>1, <3>2 DEF ListChanged
    <3> QED BY <3>1, <3>4, <3>5 DEF Good
  <2> QED BY <2>1, <2>2, <2>3 DEF Side
<1> HIDE DEF c3, link
<1>12. Good(c4, disk) /\ ButTotal(tj, c4.t)
  <2>1. Good(c4, disk) /\ ButTotal(c3.t, c4.t)
    BY <1>1, <1>7, <1>8, <1>11, FileListUpdated
  <2> QED BY <1>11, <2>1
<1> HIDE DEF c4
<1> QED BY <1>3, <1>4, <1>5, <1>12, ListStepGood

LEMMA ListGivesUpGood ==
  ASSUME JobStrong, NEW sd \in Side, NEW s \in Sub, ListGivesUp(sd, s)
  PROVE JobStepGood
<1> DEFINE c1 == [State EXCEPT !.l[sd].state[s] = "LISTFAILED"]
           c2 == fileListUpdated(c1, sd, s, FALSE)
<1>1. Good(State, disk) /\ KindGood /\ disk \subseteq File BY DEF JobStrong
<1>2. State \in StateRec BY <1>1, GoodParts
<1>3. /\ ~IsDone(tj) /\ s \in getListTargets(State, sd) /\ UNCHANGED <<kind, engine, disk>>
      /\ lists[sd].state[s] = "LISTED" /\ s # "root"
      /\ Become(refreshPendingTransferList(c2))
  BY DEF ListGivesUp
<1>4. sd = "src" => kind.type # "UPLOAD" BY <1>3 DEF getListTargets, Remote
<1>5. State.l[sd].state[s] = "LISTED" /\ State.t = tj BY <1>3, StateIs
<1>6. "LISTFAILED" \in ListState BY DEF ListState
<1>7. ListChanged(State, c1, sd, s, "LISTFAILED", State.l[sd].known)
  BY <1>2, <1>6, ChangeState
<1> HIDE DEF c1
<1>8. Good(c1, disk)
  <2>1. CASE sd = "src" BY <1>1, <1>3, <1>4, <1>5, <1>7, <2>1, SourceGivenUp
  <2>2. CASE sd = "dst"
    <3>1. ListChanged(State, c1, "dst", s, "LISTFAILED", State.l["dst"].known) BY <1>7, <2>2
    <3> QED BY <1>1, <3>1, TargetListed
  <2> QED BY <2>1, <2>2 DEF Side
<1>9. c1.l[sd].state[s] = "LISTFAILED" /\ c1.t = tj BY <1>5, <1>7 DEF ListChanged
<1> DEFINE S == IF sd = "src" /\ c1.l["src"].state[s] = "LISTED" THEN {s} ELSE {}
<1>10. GoodBut(c1, disk, S)
  <2>1. S = {} BY <1>9
  <2> QED BY <1>8, <2>1 DEF Good
<1>11. Good(c2, disk) /\ ButTotal(tj, c2.t)
  <2>1. Good(c2, disk) /\ ButTotal(c1.t, c2.t)
    BY <1>1, <1>4, <1>10, FileListUpdated
  <2> QED BY <1>9, <2>1
<1> HIDE DEF c2
<1>12. KindGood' BY <1>1, <1>3 DEF KindGood
<1> QED BY <1>3, <1>11, <1>12, ListStepGood

\* What a request finds, after the pending transfers have been gone through.
LEMMA RequestRefresh ==
  ASSUME JobStrong, NEW sd \in Side, MayRequest(sd),
         NEW c, c = refreshPendingTransferList(State)
  PROVE /\ Good(c, disk) /\ NothingToList(c)
        /\ c.t.attempts = tj.attempts /\ c.t.st # "ABORTED"
<1>1. Good(State, disk) /\ KindGood BY DEF JobStrong
<1>2. Good(c, disk) /\ c.l = State.l /\ c.x = State.x /\ StatusStep(State, c.t)
  BY <1>1, RefreshGood
<1>3. NothingToList(State) BY <1>1, RequestSides DEF MayRequest
<1>4. NothingToList(c) BY <1>2, <1>3 DEF NothingToList, getListTargets
<1>5. c.t.attempts = tj.attempts /\ c.t.st # "ABORTED"
  BY <1>2, StateIs DEF StatusStep, MayRequest, IsDone
<1> QED BY <1>2, <1>4, <1>5

LEMMA RequestStepGood ==
  ASSUME JobStrong, NEW sd \in Side, MayRequest(sd),
         NEW STATE r, Good(r, disk), Become(r), r.t.attempts = tj.attempts,
         UNCHANGED <<kind, engine, disk>>
  PROVE JobStepGood
<1>1. Good(State, disk)' BY NextGood
<1>2. tj' = r.t BY DEF Become
<1>3. ~IsDone(tj) BY DEF MayRequest
<1>4. KindGood' BY DEF KindGood, JobStrong
<1> QED BY <1>1, <1>2, <1>3, <1>4 DEF JobStepGood, EndsQuietly, JobStrong, IsDone

LEMMA RequestNothingGood ==
  ASSUME JobStrong, NEW sd \in Side, MayRequest(sd),
         NEW STATE c, c = refreshPendingTransferList(State), RequestNothing(c),
         UNCHANGED <<kind, engine, disk>>
  PROVE JobStepGood
<1> DEFINE r == refreshOrAlmostDone(c)
<1>1. Pending(c) = {} /\ Become(r) BY DEF RequestNothing
<1>2. Good(c, disk) /\ NothingToList(c) /\ c.t.attempts = tj.attempts BY RequestRefresh
<1>3. KindGood /\ disk \subseteq File BY DEF JobStrong
<1>4. Good(r, disk) /\ StatusKept(c.t, r.t) BY <1>1, <1>2, <1>3, RefreshOrAlmost
<1> HIDE DEF r
<1>5. r.t.attempts = tj.attempts BY <1>2, <1>4 DEF StatusKept
<1> QED BY <1>1, <1>4, <1>5, RequestStepGood

LEMMA RequestNoSlotGood ==
  ASSUME JobStrong, NEW sd \in Side, MayRequest(sd),
         NEW STATE c, c = refreshPendingTransferList(State), RequestNoSlot(c),
         UNCHANGED <<kind, engine, disk>>
  PROVE JobStepGood
<1> DEFINE r == clearRefreshLists(c)
<1>1. Become(r) BY DEF RequestNoSlot
<1>2. Good(c, disk) /\ c.t.attempts = tj.attempts BY RequestRefresh
<1>3. Good(r, disk) /\ r.t = c.t BY <1>2, ClearMarks
<1> HIDE DEF r
<1> QED BY <1>1, <1>2, <1>3, RequestStepGood

LEMMA RequestStartGood ==
  ASSUME JobStrong, NEW sd \in Side, MayRequest(sd),
         NEW STATE c, c = refreshPendingTransferList(State),
         NEW f \in Pending(c), NEW late \in BOOLEAN, RequestStart(c, f, late),
         UNCHANGED <<kind, engine, disk>>
  PROVE JobStepGood
<1> DEFINE c0 == clearRefreshLists(c)
           c1 == addTransfer(c0, f, late)
           r == [c1 EXCEPT !.t = start(@)]
<1>1. Become(r) BY DEF RequestStart
<1>2. Good(c, disk) /\ c.t.attempts = tj.attempts /\ c.t.st # "ABORTED"
  BY RequestRefresh
<1>3. Good(c0, disk) /\ c0.t = c.t /\ KeptButMarks(c.l, c0.l) BY <1>2, ClearMarks
<1> HIDE DEF c0
<1>4. f \in File /\ f \in Counted /\ f \notin c0.l["dst"].known
  BY <1>3 DEF Pending, Considered, Wanted, KeptButMarks, Side
<1>5. Good(r, disk) /\ StatusKept(c0.t, r.t) BY <1>2, <1>3, <1>4, StartTransfer
<1> HIDE DEF r
<1>6. r.t.attempts = tj.attempts BY <1>2, <1>3, <1>5 DEF StatusKept
<1> QED BY <1>1, <1>5, <1>6, RequestStepGood

LEMMA RequestGood ==
  ASSUME JobStrong, NEW sd \in Side, transferJobActionRequest(sd)
  PROVE JobStepGood
<1> DEFINE c == refreshPendingTransferList(State)
<1>1. /\ MayRequest(sd) /\ UNCHANGED <<kind, engine, disk>>
      /\ \/ RequestNothing(c)
         \/ \E f \in Pending(c), late \in BOOLEAN : RequestStart(c, f, late)
         \/ RequestNoSlot(c)
  BY DEF transferJobActionRequest
<1>2. c = refreshPendingTransferList(State) OBVIOUS
<1> HIDE DEF c
<1>3. CASE RequestNothing(c) BY <1>1, <1>2, <1>3, RequestNothingGood
<1>4. ASSUME NEW f \in Pending(c), NEW late \in BOOLEAN, RequestStart(c, f, late)
      PROVE JobStepGood
  BY <1>1, <1>2, <1>4, RequestStartGood
<1>5. CASE RequestNoSlot(c) BY <1>1, <1>2, <1>5, RequestNoSlotGood
<1> QED BY <1>1, <1>3, <1>4, <1>5

\* The end of a transfer does not touch the status of the job.
LEMMA EndStepGood ==
  ASSUME JobStrong, NEW STATE r, NEW STATE D, Good(r, D), Become(r), disk' = D,
         D \subseteq File, r.t.st = tj.st, UNCHANGED <<kind, engine>>
  PROVE JobStepGood
<1>1. Good(State, disk)' BY NextGood
<1>2. tj' = r.t BY DEF Become
<1>3. KindGood' BY DEF KindGood, JobStrong
<1> QED BY <1>1, <1>2, <1>3 DEF JobStepGood, EndsQuietly, IsDone

LEMMA TransferSucceedsGood ==
  ASSUME JobStrong, NEW f \in File, TransferSucceeds(f)
  PROVE JobStepGood
<1> DEFINE c1 == [State EXCEPT !.x.mine = @ \ {f}, !.x.last[f] = "SUCCESSFUL"]
           r == addTransferAttempt(c1, {f}, TRUE)
           F == {f}
<1>1. /\ f \in xfer.mine /\ Become(r) /\ disk' = disk \cup {f} /\ UNCHANGED <<kind, engine>>
  BY DEF TransferSucceeds, Running
<1>2. Good(State, disk) /\ disk \subseteq File BY DEF JobStrong
<1>3. State \in StateRec /\ State.x \in XferRec BY <1>2, GoodParts, StateFields
<1>4. /\ c1 \in StateRec /\ c1.t = State.t /\ c1.l = State.l
      /\ c1.x.mine = State.x.mine \ {f} /\ c1.x.stuck = State.x.stuck /\ c1.x.old = State.x.old
      /\ c1.x.last[f] \in Ended /\ \A g \in File \ {f} : c1.x.last[g] = State.x.last[g]
  BY <1>3, StateFields DEF StateRec, XferRec, Ended
<1> HIDE DEF c1
<1>5. /\ r \in StateRec /\ r.l = c1.l /\ r.x = c1.x
      /\ Attempted(c1.t, r.t, F)
  BY <1>4, Attempt
<1> HIDE DEF r
<1>6. /\ F \in SUBSET State.x.mine /\ r.x.mine = State.x.mine \ F
      /\ \A g \in F : r.x.last[g] \in Ended
      /\ \A g \in File \ F : r.x.last[g] = State.x.last[g]
  BY <1>1, <1>4, <1>5, StateIs
<1> DEFINE D == disk \cup {f}
<1>7. /\ r.l = State.l /\ disk \subseteq D /\ r.x.stuck = State.x.stuck /\ r.x.old = State.x.old
      /\ Attempted(State.t, r.t, F)
  BY <1>4, <1>5
<1> HIDE DEF F, D
<1>8. Good(r, D)
  <2>1. Ending(State, r, F) BY <1>5, <1>6, <1>7 DEF Ending
  <2> QED BY ONLY <1>2, <1>7, <2>1, GoodEnd
<1>9. r.t.st = tj.st BY <1>4, <1>5, StateIs DEF Attempted
<1>10. D \subseteq File /\ disk' = D BY <1>1, <1>2 DEF D
<1> QED BY <1>1, <1>2, <1>8, <1>9, <1>10, EndStepGood

\* What transferFailed and its caller leave.
UnsuccessfulEnd(c, r, F, how, forget) ==
  /\ r \in StateRec /\ Attempted(c.t, r.t, F)
  /\ r.x.mine = c.x.mine \ F /\ r.x.stuck = c.x.stuck /\ r.x.old = c.x.old
  /\ \A f \in File : r.x.last[f] = IF f \in F THEN how ELSE c.x.last[f]
  /\ r.l["src"].state = c.l["src"].state /\ r.l["src"].known = c.l["src"].known
  /\ r.l["dst"].state = c.l["dst"].state
  /\ r.l["dst"].known = c.l["dst"].known \ forget

LEMMA EndedUnsuccessful ==
  ASSUME NEW c, NEW F, NEW how, NEW forget, c \in StateRec, F \subseteq File, how \in Ended
  PROVE UnsuccessfulEnd(c, Unsuccessful(c, F, how, forget), F, how, forget)
<1> DEFINE latest == [f \in File |-> IF f \in F THEN how ELSE c.x.last[f]]
           x2 == [c.x EXCEPT !.mine = @ \ F, !.last = latest]
           d2 == [c.l["dst"] EXCEPT !.known = @ \ forget]
           l2 == [c.l EXCEPT !["dst"] = d2]
           c1 == [t |-> c.t, l |-> l2, x |-> x2]
           mark(sd) == [s \in Sub |-> IF s \in {Where[f] : f \in F} THEN "NOW"
                                      ELSE c1.l[sd].mark[s]]
           marked(sd) == IF Remote(sd) /\ (sd = "src" \/ ~kind.xdupe)
                         THEN [c1.l[sd] EXCEPT !.mark = mark(sd)] ELSE c1.l[sd]
           c2 == [c1 EXCEPT !.l = [sd \in Side |-> marked(sd)]]
           r == Unsuccessful(c, F, how, forget)
<1>1. /\ c.t \in JobRec /\ c.x \in XferRec /\ c.l \in [Side -> ListsRec]
      /\ c.l["dst"] \in ListsRec /\ c = [t |-> c.t, l |-> c.l, x |-> c.x]
  BY StateFields
<1>2. latest \in [File -> Ended \cup {"none", "IN_PROGRESS"}] BY <1>1 DEF XferRec
<1>3. r = addTransferAttempt(c2, F, FALSE)
  <2>1. c1 = [c EXCEPT !.x.mine = @ \ F,
                       !.x.last = [f \in File |-> IF f \in F THEN how ELSE @[f]],
                       !.l["dst"].known = @ \ forget]
    <3> DEFINE E == [c EXCEPT !.x.mine = @ \ F,
                              !.x.last = [f \in File |-> IF f \in F THEN how ELSE @[f]],
                              !.l["dst"].known = @ \ forget]
    <3>1. E \in [t : {E.t}, l : {E.l}, x : {E.x}] BY <1>1 DEF StateRec
    <3>2. E.t = c.t BY <1>1 DEF StateRec
    <3>3. E.l = l2 BY <1>1 DEF StateRec
    <3>4. E.x = x2 BY <1>1 DEF StateRec, XferRec
    <3>5. c1 = E
      <4> HIDE DEF E, l2, x2
      <4> QED BY <3>1, <3>2, <3>3, <3>4
    <3> QED BY <3>5 DEF E
  <2>2. r = transferFailed(c1, F) BY <2>1, Zenon DEF Unsuccessful
  <2> HIDE DEF c1
  <2>3. transferFailed(c1, F) = addTransferAttempt(c2, F, FALSE) BY DEF transferFailed
  <2> QED BY <2>2, <2>3
<1>4. x2 \in XferRec /\ x2.mine = c.x.mine \ F /\ x2.stuck = c.x.stuck /\ x2.old = c.x.old
      /\ x2.last = latest
  <2> HIDE DEF latest
  <2> QED BY <1>1, <1>2 DEF XferRec
<1>5. d2 \in ListsRec /\ d2.state = c.l["dst"].state /\ d2.known = c.l["dst"].known \ forget
  BY <1>1 DEF ListsRec
<1> HIDE DEF x2, d2, r
<1>6. l2 \in [Side -> ListsRec] /\ l2["src"] = c.l["src"] /\ l2["dst"] = d2
  BY <1>1, <1>5 DEF Side
<1> HIDE DEF l2
<1>7. c1 \in StateRec /\ c1.t = c.t /\ c1.l = l2 /\ c1.x = x2
  BY ONLY <1>1, <1>4, <1>6 DEF StateRec
<1> HIDE DEF c1
<1>8. ASSUME NEW sd \in Side
      PROVE /\ marked(sd) \in ListsRec /\ marked(sd).state = c1.l[sd].state
            /\ marked(sd).known = c1.l[sd].known
  <2>1. c1.l[sd] \in ListsRec BY <1>7, StateFields
  <2>2. mark(sd) \in [Sub -> Mark] BY <2>1 DEF ListsRec, Mark
  <2> HIDE DEF mark
  <2> QED BY <2>1, <2>2 DEF ListsRec
<1> HIDE DEF marked
<1>9. /\ c2 \in StateRec /\ c2.t = c1.t /\ c2.x = c1.x
      /\ c2.l["src"] = marked("src") /\ c2.l["dst"] = marked("dst")
  BY <1>7, <1>8, StateFields DEF StateRec, Side
<1> HIDE DEF c2
<1>10. r \in StateRec /\ r.l = c2.l /\ r.x = c2.x /\ Attempted(c2.t, r.t, F)
  BY <1>3, <1>9, Attempt
<1>11. /\ r.l["src"].state = c.l["src"].state /\ r.l["src"].known = c.l["src"].known
       /\ r.l["dst"].state = c.l["dst"].state /\ r.l["dst"].known = c.l["dst"].known \ forget
  BY <1>5, <1>6, <1>7, <1>8, <1>9, <1>10 DEF Side
<1>12. Attempted(c.t, r.t, F) BY <1>7, <1>9, <1>10
<1>13. r.x = x2 BY <1>7, <1>9, <1>10
<1>14. UnsuccessfulEnd(c, r, F, how, forget)
  BY <1>4, <1>10, <1>11, <1>12, <1>13 DEF UnsuccessfulEnd
<1> QED BY <1>14 DEF r

LEMMA UnsuccessfulGood ==
  ASSUME NEW c, NEW D, Good(c, D), NEW F, F \subseteq c.x.mine, NEW how, how \in Ended,
         NEW forget, forget \subseteq F, NEW D2, D \subseteq D2
  PROVE /\ Good(Unsuccessful(c, F, how, forget), D2)
        /\ UnsuccessfulEnd(c, Unsuccessful(c, F, how, forget), F, how, forget)
<1> DEFINE r == Unsuccessful(c, F, how, forget)
<1>1. c \in StateRec /\ F \subseteq File
  <2>1. c \in StateRec BY GoodParts
  <2> QED BY <2>1, StateFields DEF XferRec
<1>2. UnsuccessfulEnd(c, r, F, how, forget) BY <1>1, EndedUnsuccessful, Zenon
<1> HIDE DEF r
<1>3. Ending(c, r, F) BY <1>1, <1>2 DEF Ending, UnsuccessfulEnd
<1>4. Good(r, D2) BY <1>3, GoodEnd
<1> QED BY <1>2, <1>4 DEF r

LEMMA TransferFailsGood ==
  ASSUME JobStrong, NEW f \in File, NEW how \in {"FAILED", "DUPE", "TIMEOUT"},
         NEW forget \in SUBSET {f}, NEW part \in SUBSET {f}, TransferFails(f, how, forget, part)
  PROVE JobStepGood
<1> DEFINE F == {f}
           D == disk \cup part
           r == Unsuccessful(State, F, how, forget)
<1>1. f \in xfer.mine /\ Become(r) /\ disk' = D /\ UNCHANGED <<kind, engine>>
  BY DEF TransferFails, Running
<1>2. Good(State, disk) /\ disk \subseteq File BY DEF JobStrong
<1>3. /\ F \subseteq State.x.mine /\ forget \subseteq F
      /\ disk \subseteq D /\ D \subseteq File /\ how \in Ended
  BY <1>1, <1>2, StateIs DEF Ended
<1> HIDE DEF D, F
<1>4. Good(r, D) /\ UnsuccessfulEnd(State, r, F, how, forget)
  BY <1>2, <1>3, UnsuccessfulGood, Zenon
<1> HIDE DEF r
<1>5. Good(r, D) /\ r.t.st = tj.st BY <1>4, StateIs DEF UnsuccessfulEnd, Attempted
<1> QED BY <1>1, <1>3, <1>5, EndStepGood

LEMMA FormerTransferEndsGood ==
  ASSUME JobStrong, NEW f \in File, NEW success \in BOOLEAN, FormerTransferEnds(f, success)
  PROVE JobStepGood
<1> DEFINE c == [State EXCEPT !.x.old = @ \ {f}]
           r == addTransferAttempt(c, {f}, TRUE)
<1>1. Good(State, disk) /\ disk \subseteq File BY DEF JobStrong
<1>2. State \in StateRec /\ State.x \in XferRec BY <1>1, GoodParts, StateFields
<1>3. /\ c \in StateRec /\ c.t = State.t /\ c.l = State.l
      /\ c.x.mine = State.x.mine /\ c.x.stuck = State.x.stuck /\ c.x.last = State.x.last
      /\ c.x.old \subseteq State.x.old
  BY <1>2, StateFields DEF StateRec, XferRec
<1>4. /\ Become(IF success THEN r ELSE c)
      /\ disk' = (IF success THEN disk \cup {f} ELSE disk) /\ UNCHANGED <<kind, engine>>
  BY DEF FormerTransferEnds
<1> HIDE DEF c
<1>5. CASE success
  <2>1. r \in StateRec /\ r.l = c.l /\ r.x = c.x /\ Attempted(c.t, r.t, {f})
    BY <1>3, Attempt
  <2>2. Become(r) /\ disk' = disk \cup {f} BY <1>4, <1>5
  <2> HIDE DEF r
  <2>3. Good(r, disk \cup {f}) BY <1>1, <1>3, <2>1, GoodFormer
  <2>4. r.t.st = tj.st BY <1>3, <2>1, StateIs DEF Attempted
  <2> QED BY <1>1, <1>4, <2>2, <2>3, <2>4, EndStepGood
<1>6. CASE ~success
  <2>1. Become(c) /\ disk' = disk BY <1>4, <1>6
  <2>2. Good(c, disk)
    BY <1>1, <1>3, GoodParts DEF TargetGood, XferGood, AlmostGood, OverGood
  <2>3. c.t.st = tj.st BY <1>3, StateIs
  <2> QED BY <1>1, <1>4, <2>1, <2>2, <2>3, EndStepGood
<1> QED BY <1>5, <1>6

LEMMA JobTickGood ==
  ASSUME JobStrong, JobTick
  PROVE JobStepGood
<1> DEFINE r == updateStatus(State)
<1>1. tj.poke /\ Become(r) /\ UNCHANGED <<kind, engine, disk>> BY DEF JobTick
<1>2. Good(State, disk) /\ disk \subseteq File BY DEF JobStrong
<1>3. Good(r, disk) /\ StatusStep(State, r.t) BY <1>2, RefreshGood
<1> HIDE DEF r
<1>4. Good(State, disk)' BY <1>1, <1>3, NextGood
<1>5. tj' = r.t /\ State.t = tj BY <1>1, StateIs DEF Become
<1>6. KindGood' BY <1>1 DEF KindGood, JobStrong
<1>7. tj.st = "RUNNING" BY <1>1, <1>2, <1>5, GoodParts DEF StatusGood
<1> QED BY <1>1, <1>2, <1>3, <1>4, <1>5, <1>6, <1>7
        DEF JobStepGood, EndsQuietly, StatusStep, IsDone

LEMMA EngineTickGood ==
  ASSUME JobStrong, EngineTick
  PROVE JobStrong' /\ UNCHANGED tj
<1>1. /\ IsDone(tj) /\ engine' = Rotated(engine)
      /\ UNCHANGED <<kind, tj, lists, xfer, disk>>
  BY DEF EngineTick
<1>2. KindGood' /\ (disk \subseteq File)' BY <1>1 DEF KindGood, JobStrong
<1>3. Good(State, disk)'
  <2>1. Good(State, disk) /\ Become(State) BY <1>1, StateIs DEF JobStrong, Become
  <2> QED BY <1>1, <2>1, NextGood
<1>4. EngineGood' BY <1>1 DEF EngineGood, Rotated, IsDone, KindGood, JobStrong
<1> QED BY <1>1, <1>2, <1>3, <1>4 DEF JobStrong

\* What the user's abort of a transfer or of the whole job leaves.
LEMMA AbortStepGood ==
  ASSUME JobStrong, NEW STATE r, NEW STATE D, Good(r, D), Become(r), disk' = D, D \subseteq File,
         r.t.st = tj.st \/ r.t.st = "ABORTED", UNCHANGED kind, EngineGood'
  PROVE JobStrong' /\ EndsQuietly
<1>1. Good(State, disk)' BY NextGood
<1>2. tj' = r.t BY DEF Become
<1>3. KindGood' BY DEF KindGood, JobStrong
<1> QED BY <1>1, <1>2, <1>3 DEF JobStrong, EndsQuietly, IsDone

\* The transfers of H are aborted and never end.
LEMMA Hangs ==
  ASSUME NEW c \in StateRec, NEW H, NEW c2, c2 = Hang(c, H)
  PROVE /\ c2 \in StateRec /\ c2.t = c.t /\ c2.l = c.l
        /\ c2.x.mine = c.x.mine /\ c2.x.stuck = c.x.stuck /\ c2.x.old = c.x.old
        /\ c2.x.last = [f \in File |-> IF f \in H THEN "ABORTED" ELSE c.x.last[f]]
<1> DEFINE latest == [f \in File |-> IF f \in H THEN "ABORTED" ELSE c.x.last[f]]
           x2 == [c.x EXCEPT !.last = latest]
<1>1. c.t \in JobRec /\ c.x \in XferRec /\ c.l \in [Side -> ListsRec] BY StateFields
<1>2. latest \in [File -> Ended \cup {"none", "IN_PROGRESS"}] BY <1>1 DEF XferRec, Ended
<1>3. c2 = [c EXCEPT !.x = x2] BY StateFields DEF Hang, StateRec, XferRec
<1> HIDE DEF latest
<1>4. /\ x2 \in XferRec /\ x2.mine = c.x.mine /\ x2.stuck = c.x.stuck /\ x2.old = c.x.old
      /\ x2.last = latest
  BY <1>1, <1>2 DEF XferRec
<1> HIDE DEF x2
<1>5. c2 \in StateRec /\ c2.t = c.t /\ c2.l = c.l /\ c2.x = x2 BY <1>1, <1>3, <1>4 DEF StateRec
<1> QED BY <1>4, <1>5 DEF latest

LEMMA AbortTransferGood ==
  ASSUME JobStrong, NEW f \in File, AbortTransfer(f)
  PROVE JobStrong' /\ EndsQuietly
<1> DEFINE F == {f}
<1>1. /\ engine.user < MaxUser /\ f \in xfer.mine /\ UNCHANGED kind
      /\ engine' = [engine EXCEPT !.user = @ + 1]
      /\ \/ \E forget, part \in SUBSET F :
              Become(Unsuccessful(State, F, "ABORTED", forget)) /\ disk' = disk \cup part
         \/ kind.type # "FXP" /\ Become(Hang(State, F)) /\ disk' = disk
  BY DEF AbortTransfer, Running
<1>2. Good(State, disk) /\ disk \subseteq File /\ State \in StateRec BY GoodParts DEF JobStrong
<1>3. EngineGood'
  <2>1. /\ engine \in [current : BOOLEAN, all : BOOLEAN, user : 0..MaxUser]
        /\ ~IsDone(tj) => engine.current /\ engine.all
    BY DEF JobStrong, EngineGood
  <2>2. engine.user + 1 \in 0..MaxUser
    BY <1>1, <2>1, TransferJobAssumption DEF TransferJobAssumption
  <2>3. engine' = [current |-> engine.current, all |-> engine.all, user |-> engine.user + 1]
    BY <1>1, <2>1
  <2>4. tj'.st = tj.st
    <3>1. ASSUME NEW forget \in SUBSET F, Become(Unsuccessful(State, F, "ABORTED", forget))
          PROVE tj'.st = tj.st
      <4>1. F \subseteq File /\ "ABORTED" \in Ended BY DEF Ended
      <4> DEFINE r == Unsuccessful(State, F, "ABORTED", forget)
      <4>2. UnsuccessfulEnd(State, r, F, "ABORTED", forget)
        BY <1>2, <4>1, EndedUnsuccessful, Zenon
      <4>3. tj' = r.t BY <3>1, Zenon DEF Become
      <4> HIDE DEF r
      <4> QED BY <4>2, <4>3, StateIs DEF UnsuccessfulEnd, Attempted
    <3>2. ASSUME Become(Hang(State, F)) PROVE tj'.st = tj.st
      <4> DEFINE r == Hang(State, F)
      <4>1. r = Hang(State, F) /\ tj' = r.t BY <3>2, Zenon DEF Become
      <4>2. r.t = State.t BY <1>2 DEF Hang, StateRec
      <4> HIDE DEF r
      <4> QED BY <4>1, <4>2, StateIs
    <3> QED BY <1>1, <3>1, <3>2
  <2> QED BY <2>1, <2>2, <2>3, <2>4 DEF EngineGood, IsDone
<1>4. ASSUME NEW forget \in SUBSET F, NEW part \in SUBSET F,
             Become(Unsuccessful(State, F, "ABORTED", forget)), disk' = disk \cup part
      PROVE JobStrong' /\ EndsQuietly
  <2> DEFINE r == Unsuccessful(State, F, "ABORTED", forget)
             D == disk \cup part
  <2>1. Become(r) /\ disk' = D BY <1>4
  <2>2. /\ F \subseteq State.x.mine /\ forget \subseteq F
        /\ disk \subseteq D /\ D \subseteq File /\ "ABORTED" \in Ended
    BY <1>1, <1>2, StateIs DEF Ended
  <2> HIDE DEF D, F
  <2>3. Good(r, D) /\ UnsuccessfulEnd(State, r, F, "ABORTED", forget)
    BY <1>2, <2>2, UnsuccessfulGood, Zenon
  <2> HIDE DEF r
  <2>4. r.t.st = tj.st BY <2>3, StateIs DEF UnsuccessfulEnd, Attempted
  <2> QED BY <1>1, <1>3, <2>1, <2>2, <2>3, <2>4, AbortStepGood
<1>5. CASE kind.type # "FXP" /\ Become(Hang(State, F)) /\ disk' = disk
  <2> DEFINE r == Hang(State, F)
  <2>1. F \in SUBSET State.x.mine BY <1>1, StateIs
  <2>2. /\ r \in StateRec /\ r.t = State.t /\ r.l = State.l
        /\ r.x.mine = State.x.mine /\ r.x.stuck = State.x.stuck /\ r.x.old = State.x.old
        /\ r.x.last = [g \in File |-> IF g \in F THEN "ABORTED" ELSE State.x.last[g]]
    BY <1>2, Hangs
  <2>3. Become(r) BY <1>5
  <2> HIDE DEF r, F
  <2>4. State.x.mine \subseteq File BY <1>2, StateFields DEF XferRec
  <2>5. OverGood(r.t, r.x) BY <1>2, <1>5, <2>2, <2>4, GoodParts DEF OverGood
  <2>6. Good(r, disk) BY <1>2, <2>1, <2>2, <2>5, GoodAbort
  <2> QED BY <1>1, <1>2, <1>3, <1>5, <2>2, <2>3, <2>6, StateIs, AbortStepGood
<1> QED BY <1>1, <1>4, <1>5

LEMMA AbortUnderWayGood ==
  ASSUME JobStrong, ~IsDone(tj), NEW F \in SUBSET Running, NEW H \in SUBSET (Running \ F),
         NEW forget \in SUBSET F, NEW part \in SUBSET F, NEW old \in SUBSET xfer.old,
         AbortUnderWay(F, H, forget, part, old), UNCHANGED kind, EngineGood'
  PROVE JobStrong' /\ EndsQuietly
<1> DEFINE D == disk \cup part
           c == Unsuccessful(State, F, "ABORTED", forget)
           h == Hang(c, H)
           r == [h EXCEPT !.t = setDone(@, "ABORTED"), !.x.old = old]
<1>1. /\ kind.type = "FXP" => F = Running /\ old = {}
      /\ Become(r) /\ disk' = D
  BY DEF AbortUnderWay
<1>2. Good(State, disk) /\ disk \subseteq File /\ State \in StateRec /\ State.x \in XferRec
  BY GoodParts, StateFields DEF JobStrong
<1>3. /\ Running = {f \in State.x.mine : State.x.last[f] = "IN_PROGRESS"}
      /\ old \in SUBSET State.x.old /\ State.t = tj
  BY StateIs DEF Running
<1>4. /\ State.x.mine \subseteq File /\ F \in SUBSET State.x.mine /\ "ABORTED" \in Ended
      /\ disk \subseteq D /\ D \subseteq File /\ "ABORTED" \in Status
  BY <1>2, <1>3 DEF XferRec, Ended, Status
<1> HIDE DEF D
<1>5. Good(c, D) /\ UnsuccessfulEnd(State, c, F, "ABORTED", forget)
  <2>1. F \subseteq State.x.mine /\ forget \subseteq F BY <1>4
  <2> QED BY <1>2, <1>4, <2>1, UnsuccessfulGood, Zenon
<1> HIDE DEF c
<1>6. /\ Good(c, D) /\ c.t.st = State.t.st
      /\ c.x.mine = State.x.mine \ F /\ c.x.old = State.x.old
      /\ \A f \in File : c.x.last[f] = IF f \in F THEN "ABORTED" ELSE State.x.last[f]
  BY <1>5 DEF UnsuccessfulEnd, Attempted
<1>7. c \in StateRec /\ c.t \in JobRec BY <1>6, GoodParts, StateFields
<1>8. /\ h \in StateRec /\ h.t = c.t /\ h.l = c.l
      /\ h.x.mine = c.x.mine /\ h.x.stuck = c.x.stuck
      /\ h.x.last = [f \in File |-> IF f \in H THEN "ABORTED" ELSE c.x.last[f]]
  BY <1>7, Hangs
<1> HIDE DEF h
<1>9. setDone(c.t, "ABORTED") \in JobRec /\ setDone(c.t, "ABORTED").st = "ABORTED"
  BY <1>3, <1>4, <1>6, <1>7, SetDone DEF IsDone
<1>10. /\ r \in StateRec /\ r.t = setDone(c.t, "ABORTED") /\ r.l = c.l
       /\ r.x.mine = c.x.mine /\ r.x.stuck = c.x.stuck /\ r.x.old = old
       /\ r.x.last = [f \in File |-> IF f \in H THEN "ABORTED" ELSE c.x.last[f]]
  <2>1. h.x \in XferRec /\ h = [t |-> h.t, l |-> h.l, x |-> h.x] BY <1>8, StateFields
  <2>2. old \in SUBSET File BY <1>2, <1>3 DEF XferRec
  <2> DEFINE t2 == setDone(h.t, "ABORTED")
             x2 == [h.x EXCEPT !.old = old]
  <2>3. r = [t |-> t2, l |-> h.l, x |-> x2]
    <3>1. /\ r \in [t : {r.t}, l : {r.l}, x : {r.x}]
          /\ r.t = setDone(h.t, "ABORTED") /\ r.l = h.l /\ r.x = x2
      BY <1>8 DEF StateRec
    <3> HIDE DEF r, x2
    <3> QED BY <3>1
  <2>4. x2 \in XferRec /\ x2.mine = h.x.mine /\ x2.stuck = h.x.stuck /\ x2.old = old
        /\ x2.last = h.x.last
    BY <2>1, <2>2 DEF XferRec
  <2>5. t2 \in JobRec /\ t2 = setDone(c.t, "ABORTED") BY <1>8, <1>9
  <2>6. h.l \in [Side -> ListsRec] BY <1>8, StateFields
  <2> HIDE DEF t2, x2, r
  <2>7. r \in StateRec /\ r.t = t2 /\ r.l = h.l /\ r.x = x2
    BY <2>3, <2>4, <2>5, <2>6 DEF StateRec
  <2> QED BY <1>8, <2>4, <2>5, <2>7
<1> HIDE DEF r
<1>11. OverGood(r.t, r.x)
  <2>1. r.t.st = "ABORTED" BY <1>9, <1>10
  <2>2. kind.type = "FXP" => (\A f \in r.x.mine : r.x.last[f] = "ABORTED") /\ r.x.old = {}
    <3>1. SUFFICES ASSUME kind.type = "FXP", NEW f \in State.x.mine \ F PROVE r.x.last[f] = "ABORTED"
      BY <1>1, <1>6, <1>10
    <3>2. f \in File /\ f \notin Running BY <1>1, <1>4, <3>1
    <3>3. State.x.last[f] = "ABORTED"
      BY <1>2, <1>3, <3>1, <3>2, GoodParts DEF XferGood
    <3> QED BY <1>6, <1>10, <3>1, <3>2, <3>3
  <2> QED BY <2>1, <2>2 DEF OverGood
<1>12. H \in SUBSET c.x.mine BY <1>3, <1>6
<1>13. Good(r, D) BY <1>6, <1>10, <1>11, <1>12, GoodAbort
<1>14. r.t.st = "ABORTED" BY <1>9, <1>10
<1> QED BY <1>1, <1>4, <1>13, <1>14, AbortStepGood

LEMMA AbortJobGood ==
  ASSUME JobStrong, abortTransferJob
  PROVE JobStrong' /\ EndsQuietly
<1>1. /\ Acts /\ engine' = [Rotated(engine) EXCEPT !.user = @ + 1] /\ UNCHANGED kind
      /\ \/ IsDone(tj) /\ UNCHANGED <<tj, lists, xfer, disk>>
         \/ /\ ~IsDone(tj)
            /\ \E F \in SUBSET Running, old \in SUBSET xfer.old :
                 \E H \in SUBSET (Running \ F), forget, part \in SUBSET F :
                   AbortUnderWay(F, H, forget, part, old)
  BY DEF abortTransferJob
<1>2. /\ engine' \in [current : BOOLEAN, all : BOOLEAN, user : 0..MaxUser]
  <2>1. /\ engine \in [current : BOOLEAN, all : BOOLEAN, user : 0..MaxUser]
        /\ kind.history \in BOOLEAN /\ engine.user < MaxUser
    BY <1>1 DEF JobStrong, EngineGood, KindGood, Acts
  <2>2. engine' = [current |-> FALSE, all |-> kind.history, user |-> engine.user + 1]
    BY <1>1, <2>1 DEF Rotated
  <2>3. engine.user + 1 \in 0..MaxUser
    BY <2>1, TransferJobAssumption DEF TransferJobAssumption
  <2> QED BY ONLY <2>1, <2>2, <2>3
<1>3. CASE IsDone(tj) /\ UNCHANGED <<tj, lists, xfer, disk>>
  <2>1. Good(State, disk) /\ disk \subseteq File /\ Become(State)
    BY <1>3, StateIs DEF JobStrong, Become
  <2>2. EngineGood' BY <1>2, <1>3 DEF EngineGood, IsDone
  <2> QED BY <1>1, <1>3, <2>1, <2>2, StateIs, AbortStepGood
<1>4. ASSUME ~IsDone(tj), NEW F \in SUBSET Running, NEW old \in SUBSET xfer.old,
             NEW H \in SUBSET (Running \ F), NEW forget \in SUBSET F, NEW part \in SUBSET F,
             AbortUnderWay(F, H, forget, part, old)
      PROVE JobStrong' /\ EndsQuietly
  <2>1. IsDone(tj)'
    <3> DEFINE c == Unsuccessful(State, F, "ABORTED", forget)
               h == Hang(c, H)
               r == [h EXCEPT !.t = setDone(@, "ABORTED"), !.x.old = old]
    <3>1. tj' = r.t BY <1>4 DEF AbortUnderWay, Become
    <3>2. State \in StateRec /\ F \in SUBSET File /\ "ABORTED" \in Ended /\ "ABORTED" \in Status
      <4>1. State \in StateRec BY GoodParts DEF JobStrong
      <4>2. xfer.mine \subseteq File BY <4>1, StateFields, StateIs DEF XferRec
      <4> QED BY <4>1, <4>2 DEF Running, Ended, Status
    <3>3. c \in StateRec
      <4>1. UnsuccessfulEnd(State, c, F, "ABORTED", forget) BY <3>2, EndedUnsuccessful, Zenon
      <4> QED BY <4>1 DEF UnsuccessfulEnd
    <3> HIDE DEF c
    <3>4. h \in StateRec BY <3>3, Hangs
    <3> HIDE DEF h
    <3>5. r.t = setDone(h.t, "ABORTED") /\ h.t \in JobRec BY <3>4, StateFields DEF StateRec
    <3> DEFINE t2 == setDone(h.t, "ABORTED")
    <3>6. (IsDone(h.t) => t2 = h.t) /\ (~IsDone(h.t) => t2.st = "ABORTED")
      BY <3>2, <3>5, SetDone
    <3>7. tj' = t2 BY <3>1, <3>5
    <3> HIDE DEF r, t2
    <3> QED BY <3>6, <3>7 DEF IsDone
  <2>2. EngineGood' BY <1>2, <2>1 DEF EngineGood
  <2> QED BY <1>1, <1>4, <2>2, AbortUnderWayGood
<1> QED BY <1>1, <1>3, <1>4

LEMMA ResetJobGood ==
  ASSUME JobStrong, resetTransferJob
  PROVE JobStrong' /\ EndsQuietly
<1> DEFINE old == xfer.old \cup Running
           c == [t |-> NewJob, x |-> NoTransfers(old),
                 l |-> [sd \in Side |-> NewList(sd, FALSE)]]
           r == updateLocalFileLists(c)
<1>1. /\ Acts /\ Become(r) /\ engine' = [engine EXCEPT !.current = TRUE, !.user = @ + 1]
      /\ UNCHANGED <<kind, disk>>
  BY DEF resetTransferJob
<1>2. KindGood /\ disk \subseteq File BY DEF JobStrong
<1>3. old \in SUBSET File
  BY GoodParts, StateFields, StateIs DEF JobStrong, XferRec, Running
<1> HIDE DEF old
<1>4. Good(r, disk) /\ r.t = c.t
  BY <1>2, <1>3, FreshGood
<1>5. r.t.st = "QUEUED" BY <1>4 DEF NewJob
<1> HIDE DEF r, c
<1>6. Good(State, disk)' BY <1>1, <1>4, NextGood
<1>7. tj'.st = "QUEUED" BY <1>1, <1>5 DEF Become
<1>8. KindGood' /\ (disk \subseteq File)' BY <1>1, <1>2 DEF KindGood
<1>9. EngineGood'
  <2>1. /\ engine \in [current : BOOLEAN, all : BOOLEAN, user : 0..MaxUser]
        /\ engine.all /\ engine.user < MaxUser
    BY <1>1 DEF JobStrong, EngineGood, Acts
  <2>2. engine' = [current |-> TRUE, all |-> engine.all, user |-> engine.user + 1]
    BY <1>1, <2>1
  <2>3. engine.user + 1 \in 0..MaxUser
    BY <2>1, TransferJobAssumption DEF TransferJobAssumption
  <2> QED BY ONLY <2>1, <2>2, <2>3 DEF EngineGood
<1> QED BY <1>6, <1>7, <1>8, <1>9 DEF JobStrong, EndsQuietly

(***************************************************************************)
(* The invariant.                                                          *)
(***************************************************************************)
\* What the type and the item of a job are never changes.
LEMMA SameItem ==
  ASSUME KindGood, [JobNext]_tjvars
  PROVE kind'.type = kind.type /\ kind'.item = kind.item
<1>1. CASE UNCHANGED tjvars BY <1>1 DEF tjvars
<1>2. ASSUME NEW sd \in Side, NEW s \in Sub, List(sd, s)
      PROVE kind'.type = kind.type /\ kind'.item = kind.item
  BY <1>2 DEF List, KindGood
<1>3. CASE ~(\E sd \in Side, s \in Sub : List(sd, s)) /\ JobNext
  BY <1>3 DEF JobNext, ListGivesUp, transferJobActionRequest,
       TransferSucceeds, TransferFails, FormerTransferEnds, JobTick, EngineTick,
       AbortTransfer, abortTransferJob, AbortUnderWay, resetTransferJob
<1> QED BY <1>1, <1>2, <1>3

LEMMA JobStepStrong ==
  ASSUME JobStrong, JobStepGood
  PROVE JobStrong' /\ EndsQuietly
BY DEF JobStrong, JobStepGood, EngineGood, IsDone

LEMMA JobStrongNext ==
  ASSUME JobStrong, [JobNext]_tjvars
  PROVE JobStrong' /\ EndsQuietly
<1>1. CASE UNCHANGED tjvars
  <2>1. UNCHANGED <<kind, tj, lists, xfer, engine, disk>> BY <1>1 DEF tjvars
  <2>2. Become(State) BY <2>1, StateIs DEF Become
  <2>3. Good(State, disk)' BY <2>1, <2>2, NextGood DEF JobStrong
  <2>4. KindGood' /\ (disk \subseteq File)' /\ EngineGood'
    BY <2>1 DEF JobStrong, KindGood, EngineGood, IsDone
  <2> QED BY <2>1, <2>3, <2>4 DEF JobStrong, EndsQuietly, IsDone
<1>2. ASSUME NEW sd \in Side, NEW s \in Sub, List(sd, s) \/ ListGivesUp(sd, s)
      PROVE JobStrong' /\ EndsQuietly
  BY <1>2, ListGood, ListGivesUpGood, JobStepStrong
<1>3. ASSUME NEW sd \in Side, transferJobActionRequest(sd)
      PROVE JobStrong' /\ EndsQuietly
  BY <1>3, RequestGood, JobStepStrong
<1>5. ASSUME NEW f \in File, TransferSucceeds(f)
      PROVE JobStrong' /\ EndsQuietly
  BY <1>5, TransferSucceedsGood, JobStepStrong
<1>6. ASSUME NEW f \in File, NEW how \in {"FAILED", "DUPE", "TIMEOUT"}, NEW forget \in SUBSET {f},
             NEW part \in SUBSET {f}, TransferFails(f, how, forget, part)
      PROVE JobStrong' /\ EndsQuietly
  BY <1>6, TransferFailsGood, JobStepStrong
<1>7. ASSUME NEW f \in File, NEW success \in BOOLEAN, FormerTransferEnds(f, success)
      PROVE JobStrong' /\ EndsQuietly
  BY <1>7, FormerTransferEndsGood, JobStepStrong
<1>8. CASE JobTick BY <1>8, JobTickGood, JobStepStrong
<1>9. CASE EngineTick BY <1>9, EngineTickGood DEF EndsQuietly, IsDone
<1>10. ASSUME NEW f \in File, AbortTransfer(f)
       PROVE JobStrong' /\ EndsQuietly
  BY <1>10, AbortTransferGood
<1>11. CASE abortTransferJob BY <1>11, AbortJobGood
<1>12. CASE resetTransferJob BY <1>12, ResetJobGood
<1> QED BY <1>1, <1>2, <1>3, <1>5, <1>6, <1>7, <1>8, <1>9, <1>10, <1>11, <1>12 DEF JobNext

LEMMA CreatedGood ==
  ASSUME KindGood, disk \subseteq File, NEW listed \in BOOLEAN, NEW c, c = Created(listed)
  PROVE Good(c, disk)
<1> DEFINE new == [t |-> NewJob, x |-> NoTransfers({}),
                   l |-> [sd \in Side |-> NewList(sd, listed)]]
           c0 == updateLocalFileLists(new)
           c1 == IF listed /\ Remote("src") THEN fileListUpdated(c0, "src", "root", FALSE) ELSE c0
           c2 == IF listed /\ Remote("dst") THEN fileListUpdated(c1, "dst", "root", FALSE) ELSE c1
<1>1. c = c2 BY DEF Created
<1>2. /\ ~(listed /\ Remote("src")) => Good(c0, disk)
      /\ listed /\ Remote("src") => GoodBut(c0, disk, {"root"})
      /\ listed /\ Remote("src") => c0.l["src"].state["root"] = "LISTED"
  BY FreshGood
<1> HIDE DEF c0
<1>3. "src" \in Side /\ "dst" \in Side /\ "root" \in Sub /\ "src" # "dst" BY DEF Side, Sub
<1>4. Good(c1, disk)
  <2>1. CASE listed /\ Remote("src")
    <3> DEFINE S == IF "src" = "src" /\ c0.l["src"].state["root"] = "LISTED" THEN {"root"} ELSE {}
    <3>1. S = {"root"} BY <1>2, <2>1
    <3>2. GoodBut(c0, disk, S) BY <1>2, <2>1, <3>1
    <3>3. kind.type # "UPLOAD" BY <2>1 DEF Remote
    <3>4. Good(fileListUpdated(c0, "src", "root", FALSE), disk)
      BY <1>3, <3>2, <3>3, FileListUpdated
    <3> QED BY <2>1, <3>4
  <2>2. CASE ~(listed /\ Remote("src")) BY <1>2, <2>2
  <2> QED BY <2>1, <2>2
<1> HIDE DEF c1
<1>5. Good(c2, disk)
  <2>1. CASE listed /\ Remote("dst")
    <3> DEFINE S == IF "dst" = "src" /\ c1.l["src"].state["root"] = "LISTED" THEN {"root"} ELSE {}
    <3>1. GoodBut(c1, disk, S) BY <1>3, <1>4 DEF Good
    <3>2. Good(fileListUpdated(c1, "dst", "root", FALSE), disk)
      BY <1>3, <3>1, FileListUpdated
    <3> QED BY <2>1, <3>2
  <2>2. CASE ~(listed /\ Remote("dst")) BY <1>4, <2>2
  <2> QED BY <2>1, <2>2
<1> QED BY <1>1, <1>5

LEMMA JobStrongInit == JobInit => JobStrong
<1> SUFFICES ASSUME JobInit PROVE JobStrong
  OBVIOUS
<1>1. KindGood BY DEF JobInit, KindGood
<1>2. disk \subseteq File BY FilesWanted DEF JobInit
<1>3. PICK listed \in BOOLEAN : LET c == Created(listed)
                                IN  tj = c.t /\ lists = c.l /\ xfer = c.x
  BY DEF JobInit
<1> DEFINE c == Created(listed)
<1>4. tj = c.t /\ lists = c.l /\ xfer = c.x BY <1>3
<1>5. Good(c, disk) BY <1>1, <1>2, CreatedGood
<1> HIDE DEF c
<1>6. c = State
  <2>1. c \in StateRec BY <1>5, GoodParts
  <2> QED BY <1>4, <2>1, StateFields DEF State
<1>7. EngineGood BY TransferJobAssumption DEF JobInit, EngineGood, TransferJobAssumption
<1> QED BY <1>1, <1>2, <1>5, <1>6, <1>7 DEF JobStrong

(***************************************************************************)
(* A quiet job ends.                                                       *)
(***************************************************************************)
LEMMA UpdateEnds ==
  ASSUME NEW c \in StateRec, NEW ex, ex = c.t.existing \ Latest(c, {"SUCCESSFUL"})
  PROVE /\ updateStatus(c).t.existing = ex
        /\ (/\ c.t.almost /\ Latest(c, {"IN_PROGRESS"}) = {}
            /\ Cardinality(ex \cup Latest(c, {"SUCCESSFUL"}))
                 + Cardinality(Latest(c, {"FAILED", "DUPE"})) >= c.t.total)
           => IsDone(updateStatus(c).t)
<1> DEFINE c1 == [c EXCEPT !.t.existing = @ \ Latest(c, {"SUCCESSFUL"})]
           verdict == IF Cardinality(Latest(c, {"SUCCESSFUL"})) < Cardinality(Latest(c, {"FAILED"}))
                      THEN "FAILED" ELSE "DONE"
           over == /\ c1.t.almost
                   /\ Latest(c, {"IN_PROGRESS"}) = {}
                   /\ Accounted(c1) >= c1.t.total
<1>1. /\ c1 \in StateRec /\ c1.l = c.l /\ c1.x = c.x
      /\ c1.t \in JobRec /\ c1.t.existing = ex
      /\ c1.t.total = c.t.total /\ c1.t.almost = c.t.almost
  BY StateFields DEF StateRec, JobRec
<1>2. verdict \in {"DONE", "FAILED"} OBVIOUS
<1>3. updateStatus(c) = IF over THEN [c1 EXCEPT !.t = setDone(@, verdict)] ELSE c1
  BY DEF updateStatus
<1>4. Accounted(c1) = Cardinality(ex \cup Latest(c, {"SUCCESSFUL"}))
                        + Cardinality(Latest(c, {"FAILED", "DUPE"}))
  <2>1. \A T : Latest(c1, T) = Latest(c, T) BY <1>1 DEF Latest
  <2>2. Accounted(c1) = Cardinality(c1.t.existing \cup Latest(c1, {"SUCCESSFUL"}))
                          + Cardinality(Latest(c1, {"FAILED", "DUPE"}))
    BY DEF Accounted
  <2> HIDE DEF c1
  <2> QED BY <1>1, <2>1, <2>2
<1>5. over <=> /\ c.t.almost /\ Latest(c, {"IN_PROGRESS"}) = {}
               /\ Cardinality(ex \cup Latest(c, {"SUCCESSFUL"}))
                 + Cardinality(Latest(c, {"FAILED", "DUPE"})) >= c.t.total
  BY <1>1, <1>4
<1> HIDE DEF c1, verdict, over
<1>6. CASE ~over BY <1>1, <1>3, <1>5, <1>6
<1>7. CASE over
  <2> DEFINE t2 == setDone(c1.t, verdict)
  <2>1. t2.existing = c1.t.existing /\ (IsDone(c1.t) => t2 = c1.t) /\ (~IsDone(c1.t) => t2.st = verdict)
    <3>1. c1.t \in JobRec /\ verdict \in Status BY <1>1, <1>2 DEF Status
    <3> QED BY ONLY <3>1, SetDone
  <2>2. IsDone(t2) BY <1>2, <2>1 DEF IsDone
  <2>3. updateStatus(c).t = t2 BY <1>1, <1>3, <1>7 DEF StateRec
  <2> QED BY <1>1, <2>1, <2>2, <2>3
<1> QED BY <1>6, <1>7

LEMMA RefreshExisting ==
  ASSUME NEW c \in StateRec
  PROVE refreshPendingTransferList(c).t.existing =
          {f \in Considered(c) \cap c.l["dst"].known : c.x.last[f] = "none"}
<1> DEFINE E == {f \in Considered(c) \cap c.l["dst"].known : c.x.last[f] = "none"}
           c1 == [c EXCEPT !.t.existing = E]
<1>1. E \subseteq File /\ E \ Latest(c, {"SUCCESSFUL"}) = E
  BY StateFields DEF ListsRec, Latest
<1>2. refreshPendingTransferList(c) = updateStatus(c1) BY DEF refreshPendingTransferList
<1> HIDE DEF E
<1>3. c1 \in StateRec /\ c1.x = c.x /\ c1.t.existing = E
  BY <1>1, StateFields DEF StateRec, JobRec
<1>4. Latest(c1, {"SUCCESSFUL"}) = Latest(c, {"SUCCESSFUL"}) BY <1>3 DEF Latest
<1> HIDE DEF c1
<1>5. updateStatus(c1).t.existing = c1.t.existing \ Latest(c1, {"SUCCESSFUL"})
  BY <1>3, UpdateEnds
<1> QED BY <1>1, <1>2, <1>3, <1>4, <1>5 DEF E

\* Every file that counts is in the account of a job with nothing left to do.
LEMMA QuietEnds == JobStrong => QuietTransferJobEnds
<1> DEFINE c == refreshPendingTransferList(State)
<1> SUFFICES ASSUME JobStrong, tj.almost, ~IsDone(tj), xfer.mine = {},
                    \A sd \in Side : getListTargets(State, sd) = {},
                    Pending(c) = {}, \A f \in Wanted : ~Uncounted(f)
             PROVE tj.poke /\ IsDone(updateStatus(c).t)
  BY DEF QuietTransferJobEnds
<1>1. Good(State, disk) /\ KindGood /\ State \in StateRec BY GoodParts DEF JobStrong
<1>2. tj.poke
  <2>1. StatusGood(tj) /\ tj \in JobRec BY <1>1, GoodParts, StateFields, StateIs
  <2> QED BY <2>1 DEF StatusGood, JobRec, Status, IsDone
<1>3. Good(c, disk) /\ c.l = State.l /\ c.x = State.x /\ StatusStep(State, c.t)
  BY <1>1, RefreshGood
<1>4. c.t.existing = {f \in Considered(State) \cap State.l["dst"].known : State.x.last[f] = "none"}
  BY <1>1, RefreshExisting
<1> HIDE DEF c
<1>5. c \in StateRec /\ c.t \in JobRec /\ c.x \in XferRec BY <1>3, GoodParts, StateFields
<1>6. Considered(c) = Considered(State) /\ \A f \in File : hasFailedTransfer(c, f) = hasFailedTransfer(State, f)
  BY <1>3 DEF Considered, hasFailedTransfer, StatusStep
<1>7. NothingToList(c)
  BY <1>3 DEF NothingToList, RemoteSides, getListTargets
<1> DEFINE ex == c.t.existing \ Latest(c, {"SUCCESSFUL"})
           A == ex \cup Latest(c, {"SUCCESSFUL"})
           B == Latest(c, {"FAILED", "DUPE"})
<1>8. Counted \subseteq A \cup B
  <2>1. SUFFICES ASSUME NEW f \in Counted PROVE f \in A \cup B
    OBVIOUS
  <2>2. f \in File /\ f \in Wanted BY FilesWanted
  <2>3. State.x.last[f] \in {"none", "SUCCESSFUL", "FAILED", "DUPE"}
    <3>1. State.x.last[f] \in Ended \cup {"none", "IN_PROGRESS"} BY <1>3, <1>5, <2>2 DEF XferRec
    <3>2. State.x.last[f] # "IN_PROGRESS"
      BY <1>1, <2>2, GoodParts, StateIs DEF XferGood
    <3>3. State.x.last[f] \notin {"TIMEOUT", "ABORTED"} BY <2>2, StateIs DEF Uncounted
    <3> QED BY <3>1, <3>2, <3>3 DEF Ended
  <2>4. CASE State.x.last[f] = "none"
    <3>1. ~hasFailedTransfer(State, f) BY <2>2, <2>4, StateIs DEF Uncounted
    <3>2. f \in Considered(c) \cap c.l["dst"].known
      BY <1>1, <1>3, <1>6, <1>7, <2>1, <2>2, <3>1, NotPending
    <3>3. f \in c.t.existing BY <1>3, <1>4, <1>6, <2>4, <3>2
    <3>4. f \notin Latest(c, {"SUCCESSFUL"}) BY <1>3, <2>4 DEF Latest
    <3> QED BY <3>3, <3>4
  <2>5. CASE State.x.last[f] # "none"
    BY <1>3, <2>2, <2>3, <2>5 DEF Latest
  <2> QED BY <2>4, <2>5
<1>9. A \in SUBSET File /\ B \in SUBSET File BY <1>5 DEF JobRec, Latest
<1>10. Cardinality(A) + Cardinality(B) >= c.t.total
  <2> HIDE DEF A, B
  <2>1. IsFiniteSet(A) /\ IsFiniteSet(B) /\ Cardinality(A) \in Nat /\ Cardinality(B) \in Nat
    BY <1>9, FileSets
  <2>2. Cardinality(A \cup B) = Cardinality(A) + Cardinality(B) - Cardinality(A \cap B)
    BY <2>1, FS_Union
  <2>3. Cardinality(A \cap B) \in Nat
    <3>1. A \cap B \in SUBSET File BY <1>9
    <3> QED BY <3>1, FileSets
  <2>4. Cardinality(Counted) <= Cardinality(A \cup B)
    <3>1. A \cup B \in SUBSET File /\ Counted \in SUBSET (A \cup B) BY <1>8, <1>9
    <3> QED BY <3>1, FileSets
  <2>5. Cardinality(Counted) \in Nat BY FilesWanted, FileSets
  <2>6. c.t.total <= Cardinality(Counted) /\ c.t.total \in Nat
    <3>1. c.t.total \in 0..Cardinality(File) BY <1>5 DEF JobRec
    <3>2. Cardinality(File) \in Nat BY FileSets
    <3>3. TotalGood(c.t, c.l) BY <1>3, GoodParts
    <3>4. c.t.total <= Cardinality(Counted) BY <3>3 DEF TotalGood
    <3> QED BY ONLY <3>1, <3>2, <3>4
  <2> QED BY <2>1, <2>2, <2>3, <2>4, <2>5, <2>6
<1>11. c.t.almost BY <1>3, StateIs DEF StatusStep
<1>12. Latest(c, {"IN_PROGRESS"}) = {} BY <1>3, GoodParts, StateIs DEF Latest, XferGood
<1>13. IsDone(updateStatus(c).t)
  BY <1>5, <1>10, <1>11, <1>12, UpdateEnds
<1> QED BY <1>2, <1>13

LEMMA StrongInv == JobStrong => JobInv
<1> SUFFICES ASSUME JobStrong PROVE JobInv
  OBVIOUS
<1>1. Good(State, disk) /\ KindGood /\ EngineGood /\ disk \subseteq File BY DEF JobStrong
<1>2. /\ State \in StateRec /\ tj \in JobRec /\ lists \in [Side -> ListsRec] /\ xfer \in XferRec
  BY <1>1, GoodParts, StateFields, StateIs
<1>3. /\ StatusGood(tj) /\ SourceGood(lists) /\ XferGood(tj, xfer, disk) /\ OverGood(tj, xfer)
  BY <1>1, GoodParts, StateIs
<1>4. xfer.mine \subseteq File BY <1>2 DEF XferRec
<1>5. JobTypeOK
  BY <1>1, <1>2, <1>3, <1>4 DEF JobTypeOK, KindGood, EngineGood, JobRec, ListsRec, XferRec, XferGood
<1>6. PokedAndCurrent BY <1>1, <1>3 DEF PokedAndCurrent, StatusGood, EngineGood
<1>7. ListsPaired BY <1>3 DEF ListsPaired, SourceGood, SourceGoodBut
<1>8. CallbackAlive
  <2>1. ASSUME NEW f \in Running, tj.attempts[f] = 0, tj.st # "ABORTED"
        PROVE engine.all
    <3>1. ~IsDone(tj) BY <1>3, <2>1 DEF OverGood, Running
    <3> QED BY <1>1, <3>1 DEF EngineGood
  <2>2. tj.st = "ABORTED" /\ kind.type = "FXP" => Running = {} /\ xfer.old = {}
    BY <1>3 DEF OverGood, Running
  <2> QED BY <2>1, <2>2 DEF CallbackAlive
<1> QED BY <1>5, <1>6, <1>7, <1>8, QuietEnds DEF JobInv

LEMMA JobInvariant == JobSpec => []JobStrong
<1>1. JobStrong /\ [JobNext]_tjvars => JobStrong' BY JobStrongNext
<1> QED BY <1>1, JobStrongInit, PTL DEF JobSpec

\* A job that runs is polled, is one the engine's tick goes through, has its
\* lists in pairs and ends when there is nothing left to do.  Of the raw pointers
\* to it that its transfers keep, two things hold (CallbackAlive): an aborted FXP
\* has no transfer under way, and the first transfer of a file keeps the engine's
\* hold on a job that was not aborted.  Retries, the local half of an aborted
\* download or upload and the transfers a reset leaves behind may call a job that
\* the history has destroyed, and the theorem says nothing of them.
THEOREM JobCorrect == JobSpec => []JobInv
BY StrongInv, JobInvariant, PTL

LEMMA StrongParts ==
  JobStrong => /\ StatusGood(tj) /\ XferGood(tj, xfer, disk) /\ OverGood(tj, xfer)
               /\ AlmostGood(tj, lists, xfer, disk) /\ xfer \in XferRec
BY GoodParts, StateFields, StateIs DEF JobStrong

\* A job that ends by itself has delivered every file that the skiplist lets
\* through, or tried to, and leaves no transfer behind but retries.
THEOREM DeliveredCorrect == JobSpec => DoneMeansDelivered
<1> DEFINE Delivered ==
      (~IsDone(tj) /\ tj'.st \in {"DONE", "FAILED"}) =>
         /\ \A f \in xfer'.mine : xfer'.last[f] = "ABORTED" \/ tj.attempts[f] > 0
         /\ \A f \in Counted :
              \/ f \in disk \/ xfer'.last[f] \in Ended
              \/ f \in xfer'.mine /\ tj.attempts[f] > 0
<1>1. JobStrong /\ [JobNext]_tjvars => Delivered
  <2> SUFFICES ASSUME JobStrong, [JobNext]_tjvars, ~IsDone(tj), tj'.st \in {"DONE", "FAILED"}
               PROVE Delivered
    OBVIOUS
  <2>1. JobStrong' /\ tj'.attempts = tj.attempts /\ disk' = disk
    BY JobStrongNext DEF EndsQuietly
  <2>2. Counted' = Counted
    <3>1. kind'.item = kind.item BY SameItem DEF JobStrong
    <3>2. Wanted' = Wanted BY <3>1 DEF Wanted
    <3> QED BY <3>2 DEF Counted
  <2>3. (/\ StatusGood(tj) /\ XferGood(tj, xfer, disk) /\ OverGood(tj, xfer)
         /\ AlmostGood(tj, lists, xfer, disk) /\ xfer \in XferRec)'
    <3>1. (JobStrong => /\ StatusGood(tj) /\ XferGood(tj, xfer, disk) /\ OverGood(tj, xfer)
                        /\ AlmostGood(tj, lists, xfer, disk) /\ xfer \in XferRec)'
      BY StrongParts, PTL
    <3> QED BY <2>1, <3>1
  <2>4. /\ \A f \in xfer'.mine : xfer'.last[f] = "ABORTED" \/ tj.attempts[f] > 0
    BY <2>1, <2>3 DEF OverGood, IsDone, XferRec
  <2>5. ASSUME NEW f \in Counted
        PROVE \/ f \in disk \/ xfer'.last[f] \in Ended
              \/ f \in xfer'.mine /\ tj.attempts[f] > 0
    <3>1. xfer'.last[f] # "none" \/ f \in disk
      BY <2>1, <2>2, <2>3, <2>5 DEF StatusGood, AlmostGood
    <3>2. f \in File BY FilesWanted
    <3>3. xfer'.last[f] \in Ended \cup {"none", "IN_PROGRESS"} BY <2>1, <2>3, <3>2 DEF XferRec
    <3>4. xfer'.last[f] = "IN_PROGRESS" => f \in xfer'.mine /\ tj.attempts[f] > 0
      BY <2>1, <2>3, <2>4, <3>2 DEF XferGood
    <3> QED BY <3>1, <3>3, <3>4
  <2> QED BY <2>4, <2>5
<1>2. JobStrong /\ [JobNext]_tjvars => [Delivered]_tjvars BY <1>1
<1> QED BY <1>2, JobInvariant, PTL DEF JobSpec, DoneMeansDelivered

---------------------------------------------------------------------------
(* RemoteCommands *)

\* The levels of paths.
Level == STRING \cup {"/", "f", "g", "dl", NoName, Unknown}

LEMMA NamesKnown ==
  /\ SiteNames \subseteq Level /\ SectionNames \subseteq Level
  /\ NoName \notin SiteNames /\ NoName \notin SectionNames /\ "*" \notin SiteNames
  /\ "/" \in Level /\ "f" \in Level /\ "g" \in Level /\ "f" # NoName /\ Unknown # NoName
BY RemoteAssumption DEF NoName, Unknown, Level

LEMMA SeqInLarger ==
  ASSUME NEW S, NEW T, S \subseteq T, NEW s \in Seq(S)
  PROVE  s \in Seq(T)
BY LenProperties

LEMMA PathsKnown ==
  /\ \A p \in Given : p \in Seq(Level) /\ p # <<>>
  /\ DownloadPath \in Seq(Level)
<1>1. ASSUME NEW p \in Given PROVE p \in Seq(Level) /\ p # <<>>
  <2>1. p \in Seq(STRING) /\ p # <<>>
    BY RemoteAssumption
  <2>2. STRING \subseteq Level
    BY DEF Level
  <2>4. p \in Seq(Level)
    BY <2>1, <2>2, SeqInLarger
  <2> QED
    BY <2>1, <2>4
<1>2. DownloadPath \in Seq(Level)
  BY DEF DownloadPath, Level
<1> QED
  BY <1>1, <1>2

LEMMA SplitPath ==
  ASSUME NEW p \in Seq(Level), p # <<>>
  PROVE  /\ Front(p) \in Seq(Level) /\ Last(p) \in Level
         /\ Append(Front(p), Last(p)) = p /\ Front(p) \o <<Last(p)>> = p
<1> DEFINE n == Len(p)
<1>1. n \in Nat /\ n >= 1 /\ p[n] \in Level
  BY LenProperties
<1>2. SubSeq(p, 1, n) = SubSeq(p, 1, n - 1) \o <<p[n]>>
  BY <1>1, SubSeqRecursiveSecond
<1>3. SubSeq(p, 1, n) = p
  BY SubSeqFull
<1>4. Front(p) = SubSeq(p, 1, n - 1) /\ Last(p) = p[n]
  BY DEF Front, Last
<1>5. SubSeq(p, 1, n - 1) \in Seq(Level)
  BY <1>1, LenProperties, SubSeqProperties
<1>6. Append(SubSeq(p, 1, n - 1), p[n]) = SubSeq(p, 1, n - 1) \o <<p[n]>>
  BY <1>1, <1>5, AppendIsConcat
<1> QED
  BY <1>1, <1>2, <1>3, <1>4, <1>5, <1>6

LEMMA PrefixOfConcat ==
  ASSUME NEW a \in Seq(Level), NEW b \in Seq(Level), NEW c \in Seq(Level), a # <<>>
  PROVE  IsPrefix(a, a \o b) /\ IsPrefix(a, (a \o b) \o c)
<1>1. ASSUME NEW d \in Seq(Level) PROVE IsPrefix(a, a \o d)
  <2>1. Len(a) \in Nat /\ Len(a) >= 1 /\ Len(d) \in Nat
    BY LenProperties
  <2>2. Len(a \o d) = Len(a) + Len(d)
    BY ConcatProperties
  <2>3. SubSeq(a \o d, 1, Len(a)) = SubSeq(a, 1, Len(a))
    BY <2>1, SubSeqOfConcat1
  <2> QED
    BY <2>1, <2>2, <2>3 DEF IsPrefix
<1>2. (a \o b) \o c = a \o (b \o c)
  BY ConcatAssociative
<1>3. b \o c \in Seq(Level)
  BY ConcatProperties
<1> QED
  BY <1>1, <1>2, <1>3

---------------------------------------------------------------------------
ConfigType == config \in [SiteNames -> [disabled : BOOLEAN, sections : SUBSET SectionNames]]

\* What a path of a site becomes.
LEMMA TranslateGood ==
  ASSUME ConfigType, NEW s \in SiteNames, NEW p \in Seq(Level), p # <<>>,
         useOrSectionTranslate(p, s).ok
  PROVE  LET t == useOrSectionTranslate(p, s)
         IN /\ t.path \in Seq(Level) /\ t.path # <<>> /\ ~isRelative(t.path)
            /\ t.section # NoName =>
                 /\ isRelative(p) /\ hasSection(s, t.section) /\ t.section \in SectionNames
                 /\ t.path = getSectionPath(s, t.section) \o Tail(p)
<1> DEFINE h == Head(p)
           g == getSectionPath(s, h)
           t == useOrSectionTranslate(p, s)
<1>1. CASE ~isRelative(p)
  <2>1. t = [ok |-> TRUE, section |-> NoName, path |-> p]
    BY <1>1 DEF useOrSectionTranslate
  <2> QED
    BY <1>1, <2>1
<1>2. CASE isRelative(p)
  <2>1. hasSection(s, h) /\ t = [ok |-> TRUE, section |-> h, path |-> g \o Tail(p)]
    BY <1>2 DEF useOrSectionTranslate
  <2>2. h \in SectionNames
    BY <2>1 DEF ConfigType, hasSection
  <2>3. g \in Seq(Level) /\ Len(g) = 3 /\ g[1] = "/"
    <3>1. s \in Level /\ h \in Level /\ "/" \in Level
      BY <2>2, NamesKnown
    <3> HIDE DEF h
    <3> QED
      BY <3>1 DEF getSectionPath
  <2>4. Tail(p) \in Seq(Level)
    BY HeadTailProperties
  <2> DEFINE q == g \o Tail(p)
  <2>5. q \in Seq(Level) /\ Len(q) = Len(g) + Len(Tail(p)) /\ q[1] = "/" /\ Len(Tail(p)) \in Nat
    <3> HIDE DEF g
    <3>1. Len(Tail(p)) \in Nat
      BY <2>4, LenProperties
    <3>2. 1 \in 1 .. Len(g) + Len(Tail(p)) /\ 1 <= Len(g)
      BY <2>3, <3>1
    <3> QED
      BY <2>3, <2>4, <3>1, <3>2, ConcatProperties
  <2>6. q # <<>> /\ Head(q) = "/"
    <3> HIDE DEF q, g
    <3> QED
      BY <2>3, <2>5
  <2> HIDE DEF q, h, t
  <2>7. t.path = q /\ t.section = h
    BY <2>1 DEF q
  <2> QED
    BY <1>2, <2>1, <2>2, <2>5, <2>6, <2>7 DEF isRelative, q, t, h
<1> QED
  BY <1>1, <1>2

---------------------------------------------------------------------------
CommandRec == [src : Named, dst : Named, sp : Given, dp : Given, file : {"f"}, named : BOOLEAN, dfile : {NoName, "g"}]
PostRec == [src : Named \cup {NoName}, dst : Named \cup {NoName},
            ssec : SectionNames \cup {NoName}, dsec : SectionNames \cup {NoName},
            sp : Given \cup {<<>>}, dp : Given \cup {<<>>}, file : Files]
Groups == {{n} : n \in Named \cup SectionNames \cup {"*"}} \cup {SiteNames, SiteNames \cup {Unknown}}

CommandResult(cmd, c) ==
  CASE cmd = "fxp" -> commandFXP(c)
    [] cmd = "download" -> commandDownload(c, DownloadPath)
    [] cmd = "downloadtopath" -> commandDownloadToPath(c)
    [] cmd = "upload" -> commandUpload(c)

\* What the last command led to, were it sent now: nothing it reads has changed.
LastGood ==
  /\ last.cmd \in TransferCommands =>
       \E cmd \in TransferCommands, c \in CommandRec :
         /\ last.cmd = cmd /\ last.asked = c /\ last.result = CommandResult(cmd, c)
         /\ IF cmd = "fxp" THEN c.named ELSE c.dfile = NoName
  /\ last.cmd = "post" =>
       \E c \in PostRec : last.asked = c /\ last.result = handleTransferJobPost(c)
  /\ last.cmd = "group" =>
       \E names \in Groups, p \in Given :
         /\ last.names = names /\ last.path = p
         /\ last.sites = getSiteLogicList(names)
         /\ last.withpath = commandRawWithPath(names, p)

\* One side of a request without a section.
LEMMA SideWithoutSection ==
  ASSUME NEW p \in Given
  PROVE  /\ TransferSide(NoName, NoName, p) = [ok |-> TRUE, path |-> p, section |-> NoName]
         /\ TransferSide(NoName, NoName, <<>>) = [ok |-> TRUE, path |-> DownloadPath, section |-> NoName]
         /\ \A s \in SiteNames :
              LET t == useOrSectionTranslate(p, s)
              IN TransferSide(s, NoName, p) =
                   IF t.ok THEN [ok |-> TRUE, path |-> t.path, section |-> t.section]
                           ELSE [ok |-> FALSE]
<1>1. p # <<>>
  BY PathsKnown
<1>2. ASSUME NEW s \in SiteNames
      PROVE  LET t == useOrSectionTranslate(p, s)
             IN TransferSide(s, NoName, p) =
                  IF t.ok THEN [ok |-> TRUE, path |-> t.path, section |-> t.section]
                          ELSE [ok |-> FALSE]
  <2>1. s # NoName
    BY NamesKnown
  <2> DEFINE t == useOrSectionTranslate(p, s)
  <2>2. SideSection(NoName, t.section) = t.section
    BY DEF SideSection
  <2> QED
    BY <1>1, <2>1, <2>2 DEF TransferSide
<1>3. TransferSide(NoName, NoName, p) = [ok |-> TRUE, path |-> p, section |-> NoName]
  BY <1>1 DEF TransferSide
<1>4. TransferSide(NoName, NoName, <<>>) = [ok |-> TRUE, path |-> DownloadPath, section |-> NoName]
  BY DEF TransferSide
<1> QED
  BY <1>2, <1>3, <1>4

LEMMA SameFXP ==
  ASSUME NEW c \in CommandRec, c.dfile = NoName
  PROVE  commandFXP(c) = handleTransferJobPost(AsPost("fxp", c))
<1> DEFINE s == useOrSectionTranslate(c.sp, c.src)
           d == useOrSectionTranslate(c.dp, c.dst)
           r == AsPost("fxp", c)
<1>1. /\ c.src \in Named /\ c.dst \in Named /\ c.sp \in Given /\ c.dp \in Given
      /\ c.src # NoName /\ c.dst # NoName
  BY NamesKnown DEF CommandRec, Named
<1>2. r.src = c.src /\ r.dst = c.dst /\ r.ssec = NoName /\ r.dsec = NoName /\ r.sp = c.sp /\ r.dp = c.dp /\ r.file = c.file
  BY DEF AsPost
<1> HIDE DEF r
<1>3. CASE c.src \notin SiteNames \/ c.dst \notin SiteNames
  <2>1. commandFXP(c) = Refused
    BY <1>3 DEF commandFXP, getSiteLogic
  <2>2. handleTransferJobPost(r) = Refused
    BY <1>1, <1>2, <1>3 DEF handleTransferJobPost, getSiteLogic
  <2> QED
    BY <2>1, <2>2 DEF r
<1>4. CASE c.src \in SiteNames /\ c.dst \in SiteNames
  <2> DEFINE x == TransferSide(r.src, r.ssec, r.sp)
             y == TransferSide(r.dst, r.dsec, r.dp)
  <2>1. x = IF s.ok THEN [ok |-> TRUE, path |-> s.path, section |-> s.section] ELSE [ok |-> FALSE]
    BY <1>1, <1>2, <1>4, SideWithoutSection
  <2>2. y = IF d.ok THEN [ok |-> TRUE, path |-> d.path, section |-> d.section] ELSE [ok |-> FALSE]
    BY <1>1, <1>2, <1>4, SideWithoutSection
  <2>3. commandFXP(c) = IF ~s.ok \/ ~d.ok THEN Refused
                        ELSE newTransferJobFXP(c.src, s.path, s.section, c.file, c.dst, d.path, d.section, c.file)
    BY <1>4 DEF commandFXP, getSiteLogic, DstFile
  <2>4. handleTransferJobPost(r) = IF ~x.ok \/ ~y.ok THEN Refused
                        ELSE newTransferJobFXP(r.src, x.path, x.section, r.file, r.dst, y.path, y.section, r.file)
    BY <1>1, <1>2, <1>4 DEF handleTransferJobPost, getSiteLogic
  <2> HIDE DEF s, d, x, y
  <2> QED
    BY <1>2, <2>1, <2>2, <2>3, <2>4 DEF r
<1> QED
  BY <1>3, <1>4

LEMMA SameDownload ==
  ASSUME NEW c \in CommandRec, c.named
  PROVE  /\ commandDownload(c, DownloadPath) = handleTransferJobPost(AsPost("download", c))
         /\ commandDownloadToPath(c) = handleTransferJobPost(AsPost("downloadtopath", c))
<1> DEFINE s == useOrSectionTranslate(c.sp, c.src)
<1>1. c.src \in Named /\ c.sp \in Given /\ c.dp \in Given /\ c.src # NoName
  BY NamesKnown DEF CommandRec, Named
<1>0. ASSUME NEW r, NEW q,
             r.src = c.src, r.dst = NoName, r.ssec = NoName, r.dsec = NoName, r.sp = c.sp, r.file = c.file,
             TransferSide(NoName, NoName, r.dp) = [ok |-> TRUE, path |-> q, section |-> NoName]
      PROVE  commandDownload(c, q) = handleTransferJobPost(r)
  <2>1. CASE c.src \notin SiteNames
    BY <1>0, <1>1, <2>1 DEF commandDownload, handleTransferJobPost, getSiteLogic
  <2>2. CASE c.src \in SiteNames
    <3> DEFINE x == TransferSide(r.src, r.ssec, r.sp)
               y == TransferSide(r.dst, r.dsec, r.dp)
    <3>1. x = IF s.ok THEN [ok |-> TRUE, path |-> s.path, section |-> s.section] ELSE [ok |-> FALSE]
      BY <1>0, <1>1, <2>2, SideWithoutSection
    <3>2. y = [ok |-> TRUE, path |-> q, section |-> NoName]
      BY <1>0
    <3>3. commandDownload(c, q) = IF ~s.ok THEN Refused
                                  ELSE newTransferJobDownload(c.src, s.path, s.section, c.file, q, c.file)
      BY <2>2 DEF commandDownload, getSiteLogic
    <3>4. handleTransferJobPost(r) = IF ~x.ok \/ ~y.ok THEN Refused
                                     ELSE newTransferJobDownload(r.src, x.path, x.section, r.file, y.path, r.file)
      BY <1>0, <1>1, <2>2 DEF handleTransferJobPost, getSiteLogic
    <3> HIDE DEF s, x, y
    <3> QED
      BY <1>0, <3>1, <3>2, <3>3, <3>4
  <2> QED
    BY <2>1, <2>2
<1>2. commandDownload(c, DownloadPath) = handleTransferJobPost(AsPost("download", c))
  <2> DEFINE r == AsPost("download", c)
  <2>1. /\ r.src = c.src /\ r.dst = NoName /\ r.ssec = NoName /\ r.dsec = NoName
        /\ r.sp = c.sp /\ r.file = c.file /\ r.dp = <<>>
    BY DEF AsPost
  <2> HIDE DEF r
  <2>2. TransferSide(NoName, NoName, r.dp) = [ok |-> TRUE, path |-> DownloadPath, section |-> NoName]
    BY <1>1, <2>1, SideWithoutSection
  <2>3. commandDownload(c, DownloadPath) = handleTransferJobPost(r)
    BY <1>0, <2>1, <2>2
  <2> QED
    BY <2>3 DEF r
<1>3. commandDownload(c, c.dp) = handleTransferJobPost(AsPost("downloadtopath", c))
  <2> DEFINE r == AsPost("downloadtopath", c)
  <2>1. /\ r.src = c.src /\ r.dst = NoName /\ r.ssec = NoName /\ r.dsec = NoName
        /\ r.sp = c.sp /\ r.file = c.file /\ r.dp = c.dp
    BY DEF AsPost
  <2> HIDE DEF r
  <2>2. TransferSide(NoName, NoName, r.dp) = [ok |-> TRUE, path |-> c.dp, section |-> NoName]
    BY <1>1, <2>1, SideWithoutSection
  <2>3. commandDownload(c, c.dp) = handleTransferJobPost(r)
    BY <1>0, <2>1, <2>2
  <2> QED
    BY <2>3 DEF r
<1> QED
  BY <1>2, <1>3 DEF commandDownloadToPath

LEMMA SameUpload ==
  ASSUME NEW c \in CommandRec, c.named
  PROVE  commandUpload(c) = handleTransferJobPost(AsPost("upload", c))
<1> DEFINE d == useOrSectionTranslate(c.dp, c.dst)
           r == AsPost("upload", c)
<1>1. c.dst \in Named /\ c.sp \in Given /\ c.dp \in Given /\ c.dst # NoName
  BY NamesKnown DEF CommandRec, Named
<1>2. r.src = NoName /\ r.dst = c.dst /\ r.ssec = NoName /\ r.dsec = NoName /\ r.sp = c.sp /\ r.dp = c.dp /\ r.file = c.file
  BY DEF AsPost
<1> HIDE DEF r
<1>3. CASE c.dst \notin SiteNames
  <2>1. commandUpload(c) = Refused
    BY <1>3 DEF commandUpload, getSiteLogic
  <2>2. handleTransferJobPost(r) = Refused
    BY <1>1, <1>2, <1>3 DEF handleTransferJobPost, getSiteLogic
  <2> QED
    BY <2>1, <2>2 DEF r
<1>4. CASE c.dst \in SiteNames
  <2> DEFINE x == TransferSide(r.src, r.ssec, r.sp)
             y == TransferSide(r.dst, r.dsec, r.dp)
  <2>1. x = [ok |-> TRUE, path |-> c.sp, section |-> NoName]
    BY <1>1, <1>2, SideWithoutSection
  <2>2. y = IF d.ok THEN [ok |-> TRUE, path |-> d.path, section |-> d.section] ELSE [ok |-> FALSE]
    BY <1>1, <1>2, <1>4, SideWithoutSection
  <2>3. commandUpload(c) = IF ~d.ok THEN Refused
                           ELSE newTransferJobUpload(c.sp, c.file, c.dst, d.path, d.section, c.file)
    BY <1>4 DEF commandUpload, getSiteLogic
  <2>4. handleTransferJobPost(r) = IF ~x.ok \/ ~y.ok THEN Refused
                                   ELSE newTransferJobUpload(x.path, r.file, r.dst, y.path, y.section, r.file)
    BY <1>1, <1>2, <1>4 DEF handleTransferJobPost, getSiteLogic
  <2> HIDE DEF d, x, y
  <2> QED
    BY <1>2, <2>1, <2>2, <2>3, <2>4 DEF r
<1> QED
  BY <1>3, <1>4

LEMMA SameJobGood ==
  ASSUME LastGood
  PROVE  SameJob
<1> SUFFICES ASSUME last.cmd \in TransferCommands, last.asked.named, last.asked.dfile = NoName
             PROVE  last.result = handleTransferJobPost(AsPost(last.cmd, last.asked))
  BY DEF SameJob
<1>1. last.asked \in CommandRec /\ last.result = CommandResult(last.cmd, last.asked)
  BY DEF LastGood
<1>2. CASE last.cmd = "fxp"
  BY <1>1, <1>2, SameFXP DEF CommandResult
<1>3. CASE last.cmd = "download"
  BY <1>1, <1>3, SameDownload DEF CommandResult
<1>4. CASE last.cmd = "downloadtopath"
  BY <1>1, <1>4, SameDownload DEF CommandResult
<1>5. CASE last.cmd = "upload"
  BY <1>1, <1>5, SameUpload DEF CommandResult
<1> QED
  BY <1>2, <1>3, <1>4, <1>5 DEF TransferCommands

---------------------------------------------------------------------------
(* What a transfer job is made of *)

LEMMA FXPIs ==
  ASSUME NEW c, commandFXP(c) # Refused
  PROVE  LET s == useOrSectionTranslate(c.sp, c.src)
             d == useOrSectionTranslate(c.dp, c.dst)
             r == commandFXP(c)
         IN /\ c.src \in SiteNames /\ c.dst \in SiteNames /\ s.ok /\ d.ok /\ r.type = "fxp"
            /\ r.src = c.src /\ r.spath = s.path /\ r.ssec = s.section /\ r.file = c.file
            /\ r.dst = c.dst /\ r.dpath = d.path /\ r.dsec = d.section /\ r.dfile = DstFile(c)
<1> DEFINE s == useOrSectionTranslate(c.sp, c.src)
           d == useOrSectionTranslate(c.dp, c.dst)
           r == commandFXP(c)
           g == DstFile(c)
<1>1. /\ c.src \in SiteNames /\ c.dst \in SiteNames /\ s.ok /\ d.ok
      /\ r = newTransferJobFXP(c.src, s.path, s.section, c.file, c.dst, d.path, d.section, g)
  BY DEF commandFXP, getSiteLogic
<1> HIDE DEF s, d, g
<1>2. r = [type |-> "fxp", src |-> c.src, spath |-> s.path, ssec |-> s.section, file |-> c.file,
           dst |-> c.dst, dpath |-> d.path, dsec |-> d.section, dfile |-> g]
  BY <1>1 DEF newTransferJobFXP
<1> HIDE DEF r
<1> QED
  BY <1>1, <1>2 DEF s, d, r, g

LEMMA DownloadIs ==
  ASSUME NEW c, NEW q, commandDownload(c, q) # Refused
  PROVE  LET s == useOrSectionTranslate(c.sp, c.src)
             r == commandDownload(c, q)
         IN /\ c.src \in SiteNames /\ s.ok /\ r.type = "download"
            /\ r.src = c.src /\ r.ssec = s.section
            /\ r.spath = (IF c.named THEN s.path ELSE Front(s.path))
            /\ r.file = (IF c.named THEN c.file ELSE Last(s.path))
            /\ r.dst = NoName /\ r.dpath = q /\ r.dsec = NoName /\ r.dfile = r.file
<1> DEFINE s == useOrSectionTranslate(c.sp, c.src)
           r == commandDownload(c, q)
           a == IF c.named THEN s.path ELSE Front(s.path)
           f == IF c.named THEN c.file ELSE Last(s.path)
<1>1. c.src \in SiteNames /\ s.ok /\ r = newTransferJobDownload(c.src, a, s.section, f, q, f)
  BY DEF commandDownload, getSiteLogic
<1> HIDE DEF s, a, f
<1>2. r = [type |-> "download", src |-> c.src, spath |-> a, ssec |-> s.section, file |-> f,
           dst |-> NoName, dpath |-> q, dsec |-> NoName, dfile |-> f]
  BY <1>1 DEF newTransferJobDownload
<1> HIDE DEF r
<1>3. /\ c.src \in SiteNames /\ s.ok /\ r.type = "download" /\ r.src = c.src /\ r.ssec = s.section
      /\ r.spath = a /\ r.file = f /\ r.dst = NoName /\ r.dpath = q /\ r.dsec = NoName /\ r.dfile = f
  BY <1>1, <1>2
<1> QED
  BY <1>3 DEF s, r, a, f

LEMMA UploadIs ==
  ASSUME NEW c, commandUpload(c) # Refused
  PROVE  LET d == useOrSectionTranslate(c.dp, c.dst)
             r == commandUpload(c)
         IN /\ c.dst \in SiteNames /\ d.ok /\ r.type = "upload"
            /\ r.src = NoName /\ r.ssec = NoName
            /\ r.spath = (IF c.named THEN c.sp ELSE Front(c.sp))
            /\ r.file = (IF c.named THEN c.file ELSE Last(c.sp))
            /\ r.dst = c.dst /\ r.dpath = d.path /\ r.dsec = d.section /\ r.dfile = r.file
<1> DEFINE d == useOrSectionTranslate(c.dp, c.dst)
           r == commandUpload(c)
           a == IF c.named THEN c.sp ELSE Front(c.sp)
           f == IF c.named THEN c.file ELSE Last(c.sp)
<1>1. c.dst \in SiteNames /\ d.ok /\ r = newTransferJobUpload(a, f, c.dst, d.path, d.section, f)
  BY DEF commandUpload, getSiteLogic
<1> HIDE DEF d, a, f
<1>2. r = [type |-> "upload", src |-> NoName, spath |-> a, ssec |-> NoName, file |-> f,
           dst |-> c.dst, dpath |-> d.path, dsec |-> d.section, dfile |-> f]
  BY <1>1 DEF newTransferJobUpload
<1> HIDE DEF r
<1>3. /\ c.dst \in SiteNames /\ d.ok /\ r.type = "upload" /\ r.src = NoName /\ r.ssec = NoName
      /\ r.spath = a /\ r.file = f /\ r.dst = c.dst /\ r.dpath = d.path /\ r.dsec = d.section /\ r.dfile = f
  BY <1>1, <1>2
<1> QED
  BY <1>3 DEF d, r, a, f

LEMMA NamesThePathGood ==
  ASSUME ConfigType, LastGood
  PROVE  NamesThePath
<1> DEFINE c == last.asked
           r == last.result
           t == useOrSectionTranslate(c.sp, c.src)
           d == useOrSectionTranslate(c.dp, c.dst)
           n == IF last.cmd = "upload" THEN c.sp ELSE t.path
           q == CASE last.cmd \in {"fxp", "upload"} -> d.path
                  [] last.cmd = "download" -> DownloadPath
                  [] last.cmd = "downloadtopath" -> c.dp
           Whole == Append(r.spath, r.file) = IF c.named THEN Append(n, c.file) ELSE n
           Goal == Whole /\ r.dpath = q /\ r.dfile = IF c.dfile # NoName THEN c.dfile ELSE r.file
<1>0. SUFFICES ASSUME last.cmd \in TransferCommands, r # Refused
               PROVE  Goal
  BY DEF NamesThePath
<1>1. c \in CommandRec /\ r = CommandResult(last.cmd, c)
  BY <1>0 DEF LastGood
<1>6. IF last.cmd = "fxp" THEN c.named ELSE c.dfile = NoName
  BY <1>0 DEF LastGood
<1>2. c.sp \in Seq(Level) /\ c.sp # <<>>
  BY <1>1, PathsKnown DEF CommandRec
<1>3. ASSUME NEW u, r = commandDownload(c, u), last.cmd \in {"download", "downloadtopath"}
      PROVE  Whole /\ r.dpath = u /\ r.dfile = r.file
  <2>1. /\ c.src \in SiteNames /\ t.ok
        /\ r.spath = (IF c.named THEN t.path ELSE Front(t.path))
        /\ r.file = (IF c.named THEN c.file ELSE Last(t.path))
        /\ r.dpath = u /\ r.dfile = r.file
    BY <1>0, <1>3, DownloadIs
  <2>2. t.path \in Seq(Level) /\ t.path # <<>>
    BY <1>2, <2>1, TranslateGood
  <2>3. n = t.path
    BY <1>3
  <2> HIDE DEF t, n, r, c
  <2>4. Append(Front(t.path), Last(t.path)) = t.path
    BY <2>2, SplitPath
  <2> QED
    BY <2>1, <2>3, <2>4
<1>4. CASE last.cmd = "upload"
  <2>1. r = commandUpload(c)
    BY <1>1, <1>4 DEF CommandResult
  <2>2. /\ r.spath = (IF c.named THEN c.sp ELSE Front(c.sp))
        /\ r.file = (IF c.named THEN c.file ELSE Last(c.sp))
        /\ r.dpath = d.path /\ r.dfile = r.file
    BY <1>0, <2>1, UploadIs
  <2>3. n = c.sp /\ q = d.path /\ c.dfile = NoName
    BY <1>4, <1>6
  <2> HIDE DEF t, d, n, q, r, c
  <2>4. Append(Front(c.sp), Last(c.sp)) = c.sp
    BY <1>2, SplitPath
  <2> QED
    BY <2>2, <2>3, <2>4
<1>5. CASE last.cmd = "fxp"
  <2>1. r = commandFXP(c)
    BY <1>1, <1>5 DEF CommandResult
  <2>2. r.spath = t.path /\ r.file = c.file /\ r.dpath = d.path /\ r.dfile = DstFile(c)
    BY <1>0, <2>1, FXPIs
  <2>3. n = t.path /\ q = d.path /\ c.named
    BY <1>5, <1>6
  <2> HIDE DEF t, d, n, q, r, c
  <2> QED
    BY <2>2, <2>3 DEF DstFile
<1>7. CASE last.cmd = "download"
  <2>1. Whole /\ r.dpath = DownloadPath /\ r.dfile = r.file
    BY <1>1, <1>3, <1>7 DEF CommandResult
  <2>2. q = DownloadPath /\ c.dfile = NoName
    BY <1>6, <1>7
  <2> HIDE DEF r, c, q, n
  <2> QED
    BY <2>1, <2>2
<1>8. CASE last.cmd = "downloadtopath"
  <2>1. Whole /\ r.dpath = c.dp /\ r.dfile = r.file
    BY <1>1, <1>3, <1>8 DEF CommandResult, commandDownloadToPath
  <2>2. q = c.dp /\ c.dfile = NoName
    BY <1>6, <1>8
  <2> HIDE DEF r, c, q, n
  <2> QED
    BY <2>1, <2>2
<1> QED
  BY <1>0, <1>4, <1>5, <1>7, <1>8 DEF TransferCommands

LEMMA ResultTypeGood ==
  ASSUME LastGood, last.cmd \in TransferCommands
  PROVE  last.result.type \in {"refused", IF last.cmd = "downloadtopath" THEN "download" ELSE last.cmd}
<1> DEFINE c == last.asked
           r == last.result
<1>1. r = CommandResult(last.cmd, c)
  BY DEF LastGood
<1>2. r = Refused => r.type = "refused"
  BY DEF Refused
<1>3. CASE last.cmd = "fxp"
  BY <1>1, <1>2, <1>3, FXPIs DEF CommandResult
<1>4. CASE last.cmd = "download"
  BY <1>1, <1>2, <1>4, DownloadIs DEF CommandResult
<1>5. CASE last.cmd = "downloadtopath"
  BY <1>1, <1>2, <1>5, DownloadIs DEF CommandResult, commandDownloadToPath
<1>6. CASE last.cmd = "upload"
  BY <1>1, <1>2, <1>6, UploadIs DEF CommandResult
<1> QED
  BY <1>3, <1>4, <1>5, <1>6 DEF TransferCommands

---------------------------------------------------------------------------
(* The section of a transfer job *)

InSection(site, path, sec, file) ==
  sec # NoName => hasSection(site, sec) /\ IsPrefix(getSectionPath(site, sec), path \o <<file>>)

LEMMA SectionPathGood ==
  ASSUME NEW s \in SiteNames, NEW sec \in SectionNames
  PROVE  getSectionPath(s, sec) \in Seq(Level) /\ getSectionPath(s, sec) # <<>>
<1>1. s \in Level /\ sec \in Level /\ "/" \in Level
  BY NamesKnown
<1> QED
  BY <1>1 DEF getSectionPath

LEMMA TranslatedInSection ==
  ASSUME ConfigType, NEW s \in SiteNames, NEW p \in Seq(Level), p # <<>>, NEW f \in Level,
         useOrSectionTranslate(p, s).ok
  PROVE  LET t == useOrSectionTranslate(p, s)
         IN InSection(s, t.path, t.section, f) /\ InSection(s, Front(t.path), t.section, Last(t.path))
<1> DEFINE t == useOrSectionTranslate(p, s)
           sec == t.section
           g == getSectionPath(s, sec)
           q == t.path
           b == Tail(p)
<1>1. /\ q \in Seq(Level) /\ q # <<>>
      /\ sec # NoName => hasSection(s, sec) /\ sec \in SectionNames /\ q = g \o b
  BY TranslateGood
<1>2. CASE sec = NoName
  BY <1>2 DEF InSection
<1>3. CASE sec # NoName
  <2>1. g \in Seq(Level) /\ g # <<>>
    BY <1>1, <1>3, SectionPathGood
  <2>2. b \in Seq(Level) /\ <<f>> \in Seq(Level)
    BY HeadTailProperties
  <2>3. q = g \o b /\ hasSection(s, sec)
    BY <1>1, <1>3
  <2>9. InSection(s, q, sec, f) <=> IsPrefix(g, q \o <<f>>)
    BY <1>3, <2>3 DEF InSection
  <2>10. InSection(s, Front(q), sec, Last(q)) <=> IsPrefix(g, Front(q) \o <<Last(q)>>)
    BY <1>3, <2>3 DEF InSection
  <2> HIDE DEF g, q, b, sec, t
  <2>4. IsPrefix(g, g \o b) /\ IsPrefix(g, (g \o b) \o <<f>>)
    BY <2>1, <2>2, PrefixOfConcat
  <2>5. Front(q) \o <<Last(q)>> = q
    BY <1>1, SplitPath
  <2>6. InSection(s, q, sec, f) /\ InSection(s, Front(q), sec, Last(q))
    BY <2>3, <2>4, <2>5, <2>9, <2>10
  <2> QED
    BY <2>6 DEF g, q, b, sec, t
<1> QED
  BY <1>2, <1>3

LEMMA PostedInSection ==
  ASSUME ConfigType, NEW s \in SiteNames, NEW sec \in SectionNames \cup {NoName}, NEW p \in Given \cup {<<>>},
         NEW f \in Level, TransferSide(s, sec, p).ok, ~(sec # NoName /\ p # <<>> /\ ~isRelative(p))
  PROVE  InSection(s, TransferSide(s, sec, p).path, TransferSide(s, sec, p).section, f)
<1> DEFINE x == TransferSide(s, sec, p)
           t == useOrSectionTranslate(p, s)
           g == getSectionPath(s, sec)
<1>1. s # NoName /\ (sec # NoName => sec \in SectionNames /\ hasSection(s, sec))
  BY NamesKnown DEF TransferSide
<1>2. CASE p # <<>>
  <2>1. t.ok /\ x = [ok |-> TRUE, path |-> t.path, section |-> SideSection(sec, t.section)]
    BY <1>1, <1>2 DEF TransferSide
  <2>2. p \in Seq(Level)
    BY <1>2, PathsKnown
  <2>3. InSection(s, t.path, t.section, f)
    BY <1>2, <2>1, <2>2, TranslatedInSection
  <2>4. SideSection(sec, t.section) = t.section
    <3>1. CASE sec = NoName
      BY <3>1 DEF SideSection
    <3>2. CASE sec # NoName
      <4>1. isRelative(p)
        BY <1>2, <3>2
      <4>2. t.section = Head(p) /\ hasSection(s, Head(p))
        BY <2>1, <4>1 DEF useOrSectionTranslate
      <4>3. Head(p) \in SectionNames
        BY <4>2 DEF ConfigType, hasSection
      <4> QED
        BY <4>2, <4>3, NamesKnown DEF SideSection
    <3> QED
      BY <3>1, <3>2
  <2> HIDE DEF t, x
  <2>5. x.path = t.path /\ x.section = t.section
    BY <2>1, <2>4
  <2>6. InSection(s, x.path, x.section, f)
    BY <2>3, <2>5
  <2> QED
    BY <2>6 DEF x
<1>3. CASE p = <<>>
  <2>1. CASE sec = NoName
    <3>1. ~x.ok
      BY <1>1, <1>3, <2>1 DEF TransferSide
    <3> QED
      BY <3>1
  <2>2. CASE sec # NoName
    <3>1. g \in Seq(Level) /\ g # <<>> /\ hasSection(s, sec)
      BY <1>1, <2>2, SectionPathGood
    <3>2. x = [ok |-> TRUE, path |-> g, section |-> sec]
      BY <1>1, <1>3, <2>2, <3>1 DEF TransferSide
    <3>9. InSection(s, g, sec, f) <=> IsPrefix(g, g \o <<f>>)
      BY <2>2, <3>1 DEF InSection
    <3> HIDE DEF g, x
    <3>3. <<f>> \in Seq(Level)
      OBVIOUS
    <3>4. IsPrefix(g, g \o <<f>>)
      BY <3>1, <3>3, PrefixOfConcat
    <3>5. InSection(s, x.path, x.section, f)
      BY <3>2, <3>4, <3>9
    <3> QED
      BY <3>5 DEF x
  <2> QED
    BY <2>1, <2>2
<1> QED
  BY <1>2, <1>3

\* The sides of a job that was posted: a site with its path and section, or none.
LEMMA PostIs ==
  ASSUME NEW c \in PostRec, handleTransferJobPost(c) # Refused
  PROVE  LET x == TransferSide(c.src, c.ssec, c.sp)
             y == TransferSide(c.dst, c.dsec, c.dp)
             r == handleTransferJobPost(c)
         IN /\ r.ssec = NoName \/ (c.src \in SiteNames /\ x.ok /\ r.src = c.src /\ r.spath = x.path /\ r.ssec = x.section)
            /\ r.dsec = NoName \/ (c.dst \in SiteNames /\ y.ok /\ r.dst = c.dst /\ r.dpath = y.path /\ r.dsec = y.section)
            /\ r.file \in Level /\ r.dfile = r.file
<1> DEFINE x == TransferSide(c.src, c.ssec, c.sp)
           y == TransferSide(c.dst, c.dsec, c.dp)
           r == handleTransferJobPost(c)
<1>0. c.file \in Level
  BY DEF PostRec, Files, Level
<1>1. x.ok /\ y.ok
  BY DEF handleTransferJobPost
<1>2. CASE c.src # NoName /\ c.dst # NoName
  <2>1. r = newTransferJobFXP(c.src, x.path, x.section, c.file, c.dst, y.path, y.section, c.file)
    BY <1>1, <1>2 DEF handleTransferJobPost
  <2> HIDE DEF x, y
  <2>2. /\ c.src \in SiteNames /\ c.dst \in SiteNames
        /\ r = [type |-> "fxp", src |-> c.src, spath |-> x.path, ssec |-> x.section, file |-> c.file,
                dst |-> c.dst, dpath |-> y.path, dsec |-> y.section, dfile |-> c.file]
    BY <2>1 DEF newTransferJobFXP, getSiteLogic
  <2> HIDE DEF r
  <2>3. /\ r.src = c.src /\ r.spath = x.path /\ r.ssec = x.section /\ r.file = c.file
        /\ r.dst = c.dst /\ r.dpath = y.path /\ r.dsec = y.section /\ r.dfile = c.file
    BY <2>2
  <2> QED
    BY <1>0, <1>1, <2>2, <2>3 DEF x, y, r
<1>3. CASE c.src # NoName /\ c.dst = NoName
  <2>1. r = newTransferJobDownload(c.src, x.path, x.section, c.file, y.path, c.file)
    BY <1>1, <1>3 DEF handleTransferJobPost
  <2> HIDE DEF x, y
  <2>2. /\ c.src \in SiteNames
        /\ r = [type |-> "download", src |-> c.src, spath |-> x.path, ssec |-> x.section, file |-> c.file,
                dst |-> NoName, dpath |-> y.path, dsec |-> NoName, dfile |-> c.file]
    BY <2>1 DEF newTransferJobDownload, getSiteLogic
  <2> HIDE DEF r
  <2>3. /\ r.src = c.src /\ r.spath = x.path /\ r.ssec = x.section /\ r.file = c.file /\ r.dsec = NoName /\ r.dfile = c.file
    BY <2>2
  <2> QED
    BY <1>0, <1>1, <2>2, <2>3 DEF x, y, r
<1>4. CASE c.src = NoName
  <2>1. r = newTransferJobUpload(x.path, c.file, c.dst, y.path, y.section, c.file)
    BY <1>1, <1>4 DEF handleTransferJobPost
  <2> HIDE DEF x, y
  <2>2. /\ c.dst \in SiteNames
        /\ r = [type |-> "upload", src |-> NoName, spath |-> x.path, ssec |-> NoName, file |-> c.file,
                dst |-> c.dst, dpath |-> y.path, dsec |-> y.section, dfile |-> c.file]
    BY <2>1 DEF newTransferJobUpload, getSiteLogic
  <2> HIDE DEF r
  <2>3. /\ r.ssec = NoName /\ r.file = c.file /\ r.dst = c.dst /\ r.dpath = y.path /\ r.dsec = y.section
        /\ r.dfile = c.file
    BY <2>2
  <2> QED
    BY <1>0, <1>1, <2>2, <2>3 DEF x, y, r
<1> QED
  BY <1>2, <1>3, <1>4

LEMMA JobInSectionGood ==
  ASSUME ConfigType, LastGood
  PROVE  JobInSection
<1> DEFINE c == last.asked
           r == last.result
           Both(sec, p) == last.cmd = "post" /\ sec # NoName /\ p # <<>> /\ ~isRelative(p)
<1>0. SUFFICES ASSUME last.cmd \in TransferCommands \cup {"post"}, r # Refused
               PROVE  /\ (last.cmd = "post" /\ Both(c.ssec, c.sp)) \/ InSection(r.src, r.spath, r.ssec, r.file)
                      /\ (last.cmd = "post" /\ Both(c.dsec, c.dp)) \/ InSection(r.dst, r.dpath, r.dsec, r.dfile)
  BY DEF JobInSection, InSection
<1>1. ASSUME NEW s, NEW q, NEW f PROVE InSection(s, q, NoName, f)
  BY DEF InSection
<1>2. CASE last.cmd = "post"
  <2>1. c \in PostRec /\ r = handleTransferJobPost(c)
    BY <1>2 DEF LastGood
  <2>2. c.ssec \in SectionNames \cup {NoName} /\ c.dsec \in SectionNames \cup {NoName} /\ c.sp \in Given \cup {<<>>} /\ c.dp \in Given \cup {<<>>}
    BY <2>1 DEF PostRec
  <2> DEFINE x == TransferSide(c.src, c.ssec, c.sp)
             y == TransferSide(c.dst, c.dsec, c.dp)
  <2>3. /\ r.ssec = NoName \/ (c.src \in SiteNames /\ x.ok /\ r.src = c.src /\ r.spath = x.path /\ r.ssec = x.section)
        /\ r.dsec = NoName \/ (c.dst \in SiteNames /\ y.ok /\ r.dst = c.dst /\ r.dpath = y.path /\ r.dsec = y.section)
        /\ r.file \in Level /\ r.dfile = r.file
    BY <1>0, <2>1, PostIs
  <2>4. Both(c.ssec, c.sp) \/ InSection(r.src, r.spath, r.ssec, r.file)
    <3>1. CASE r.ssec = NoName
      BY <1>1, <3>1
    <3>2. CASE r.ssec # NoName /\ ~Both(c.ssec, c.sp)
      <4>1. InSection(c.src, x.path, x.section, r.file)
        BY <1>2, <2>2, <2>3, <3>2, PostedInSection
      <4> HIDE DEF x, c, r
      <4> QED
        BY <2>3, <3>2, <4>1
    <3> QED
      BY <3>1, <3>2
  <2>5. Both(c.dsec, c.dp) \/ InSection(r.dst, r.dpath, r.dsec, r.dfile)
    <3>1. CASE r.dsec = NoName
      BY <1>1, <3>1
    <3>2. CASE r.dsec # NoName /\ ~Both(c.dsec, c.dp)
      <4>1. InSection(c.dst, y.path, y.section, r.file)
        BY <1>2, <2>2, <2>3, <3>2, PostedInSection
      <4> HIDE DEF y, c, r
      <4> QED
        BY <2>3, <3>2, <4>1
    <3> QED
      BY <3>1, <3>2
  <2> QED
    BY <1>2, <2>4, <2>5
<1>3. CASE last.cmd \in TransferCommands
  <2>1. c \in CommandRec /\ r = CommandResult(last.cmd, c)
    BY <1>3 DEF LastGood
  <2>2. c.sp \in Seq(Level) /\ c.sp # <<>> /\ c.dp \in Seq(Level) /\ c.dp # <<>> /\ c.file \in Level
    BY <2>1, PathsKnown, NamesKnown DEF CommandRec
  <2> DEFINE s == useOrSectionTranslate(c.sp, c.src)
             d == useOrSectionTranslate(c.dp, c.dst)
  <2>3. ASSUME c.src \in SiteNames, s.ok
        PROVE  InSection(c.src, s.path, s.section, c.file) /\ InSection(c.src, Front(s.path), s.section, Last(s.path))
    BY <2>2, <2>3, TranslatedInSection
  <2>4. ASSUME c.dst \in SiteNames, d.ok, NEW f \in Level
        PROVE  InSection(c.dst, d.path, d.section, f)
    BY <2>2, <2>4, TranslatedInSection
  <2>5. CASE last.cmd = "fxp"
    <3>1. r = commandFXP(c)
      BY <2>1, <2>5 DEF CommandResult
    <3>2. /\ c.src \in SiteNames /\ c.dst \in SiteNames /\ s.ok /\ d.ok
          /\ r.src = c.src /\ r.spath = s.path /\ r.ssec = s.section /\ r.file = c.file
          /\ r.dst = c.dst /\ r.dpath = d.path /\ r.dsec = d.section /\ r.dfile = DstFile(c)
      BY <1>0, <3>1, FXPIs
    <3>3. DstFile(c) \in Level
      BY <2>1, NamesKnown DEF DstFile, CommandRec
    <3> HIDE DEF s, d, c, r
    <3> QED
      BY <2>2, <2>3, <2>4, <3>2, <3>3
  <2>6. ASSUME NEW q, r = commandDownload(c, q)
        PROVE  InSection(r.src, r.spath, r.ssec, r.file) /\ InSection(r.dst, r.dpath, r.dsec, r.dfile)
    <3>2. /\ c.src \in SiteNames /\ s.ok /\ r.src = c.src /\ r.ssec = s.section
          /\ r.spath = (IF c.named THEN s.path ELSE Front(s.path))
          /\ r.file = (IF c.named THEN c.file ELSE Last(s.path))
          /\ r.dsec = NoName
      BY <1>0, <2>6, DownloadIs
    <3> HIDE DEF s, d, c, r
    <3>3. CASE c.named
      BY <1>1, <2>3, <3>2, <3>3
    <3>4. CASE ~c.named
      BY <1>1, <2>3, <3>2, <3>4
    <3> QED
      BY <3>3, <3>4
  <2>7. CASE last.cmd = "upload"
    <3>1. r = commandUpload(c)
      BY <2>1, <2>7 DEF CommandResult
    <3>2. /\ c.dst \in SiteNames /\ d.ok /\ r.ssec = NoName
          /\ r.file = (IF c.named THEN c.file ELSE Last(c.sp))
          /\ r.dst = c.dst /\ r.dpath = d.path /\ r.dsec = d.section /\ r.dfile = r.file
      BY <1>0, <3>1, UploadIs
    <3>3. r.dfile \in Level
      BY <2>2, <3>2, SplitPath
    <3> HIDE DEF s, d, c, r
    <3> QED
      BY <1>1, <2>4, <3>2, <3>3
  <2>8. CASE last.cmd = "download"
    BY <2>1, <2>6, <2>8 DEF CommandResult
  <2>9. CASE last.cmd = "downloadtopath"
    BY <2>1, <2>6, <2>9 DEF CommandResult, commandDownloadToPath
  <2> QED
    BY <1>3, <2>5, <2>7, <2>8, <2>9 DEF TransferCommands
<1> QED
  BY <1>0, <1>2, <1>3

---------------------------------------------------------------------------
(* Groups of sites *)

LEMMA GroupsGood ==
  ASSUME ConfigType, LastGood
  PROVE  GroupsAgree
<1> DEFINE N == last.names
           L == last.sites
           all == N = {"*"}
           secs == IF N \cap (SiteNames \cup {"*"}) = {} THEN N ELSE {}
           rest == restSiteLogicList([sites |-> N, all |-> all, sections |-> secs])
<1>0. SUFFICES ASSUME last.cmd = "group"
               PROVE  /\ \A s \in L : config[s].disabled => s \in N
                      /\ L = rest
                      /\ \A s \in DOMAIN last.withpath : ~isRelative(last.withpath[s])
  BY DEF GroupsAgree
<1>1. N \in Groups /\ last.path \in Given /\ L = getSiteLogicList(N) /\ last.withpath = commandRawWithPath(N, last.path)
  BY <1>0 DEF LastGood
<1>2. \A s \in SiteNames : config[s].sections \subseteq SectionNames
  BY DEF ConfigType
<1>3. rest = (N \cap SiteNames) \cup {s \in SiteNames : N = {"*"} /\ Enabled(s)}
             \cup {s \in SiteNames : Enabled(s) /\ \E x \in secs : x \in SectionNames /\ hasSection(s, x)}
  BY DEF restSiteLogicList
<1>4. \A s \in SiteNames : \A x : hasSection(s, x) => x \in SectionNames
  BY <1>2 DEF hasSection
<1> HIDE DEF secs, rest, L, N
<1>5. ASSUME N = {"*"}
      PROVE  (\A s \in L : config[s].disabled => s \in N) /\ L = rest
  <2>1. secs = {}
    BY <1>5 DEF secs
  <2>2. N \cap SiteNames = {}
    BY <1>5, NamesKnown
  <2>3. rest = {s \in SiteNames : Enabled(s)}
    BY <1>3, <1>5, <2>1, <2>2
  <2>4. L = {s \in SiteNames : Enabled(s)}
    BY <1>1, <1>5 DEF getSiteLogicList
  <2> QED
    BY <1>1, <2>3, <2>4 DEF Enabled
<1>6. ASSUME N # {"*"} /\ N \cap SiteNames # {}
      PROVE  (\A s \in L : config[s].disabled => s \in N) /\ L = rest
  <2>1. secs = {}
    BY <1>6 DEF secs
  <2>2. rest = N \cap SiteNames
    BY <1>3, <1>6, <2>1
  <2>3. L = N \cap SiteNames
    BY <1>1, <1>6 DEF getSiteLogicList
  <2> QED
    BY <2>2, <2>3
<1>7. ASSUME N # {"*"} /\ N \cap SiteNames = {}
      PROVE  (\A s \in L : config[s].disabled => s \in N) /\ L = rest
  <2>1. N = {} \/ \E x : N = {x}
    BY <1>1, <1>7 DEF Groups
  <2>2. secs = N
    BY <1>7, <2>1 DEF secs
  <2>3. rest = {s \in SiteNames : Enabled(s) /\ \E x \in N : x \in SectionNames /\ hasSection(s, x)}
    BY <1>3, <1>7, <2>2
  <2>4. L = {s \in SiteNames : Enabled(s) /\ \E x \in N : N = {x} /\ hasSection(s, x)}
    BY <1>1, <1>7 DEF getSiteLogicList
  <2>5. L = rest
    BY <1>4, <2>1, <2>3, <2>4
  <2> QED
    BY <2>4, <2>5 DEF Enabled
<1>8. \A s \in DOMAIN last.withpath : ~isRelative(last.withpath[s])
  <2> DEFINE p == last.path
             D == {x \in getSiteLogicList(N) : useOrSectionTranslate(p, x).ok}
  <2>1. last.withpath = [s \in D |-> useOrSectionTranslate(p, s).path]
    BY <1>1 DEF commandRawWithPath
  <2>2. \A s \in getSiteLogicList(N) : s \in SiteNames
    BY DEF getSiteLogicList
  <2>3. p \in Seq(Level) /\ p # <<>>
    BY <1>1, PathsKnown
  <2>4. ASSUME NEW s \in D PROVE ~isRelative(useOrSectionTranslate(p, s).path)
    BY <2>2, <2>3, TranslateGood
  <2> HIDE DEF p
  <2> QED
    BY <2>1, <2>4
<1>9. (\A s \in L : config[s].disabled => s \in N) /\ L = rest
  <2>1. N = {"*"} \/ (N # {"*"} /\ N \cap SiteNames # {}) \/ (N # {"*"} /\ N \cap SiteNames = {})
    OBVIOUS
  <2> QED
    BY <1>5, <1>6, <1>7, <2>1
<1> QED
  BY <1>8, <1>9 DEF rest, L, N, secs

---------------------------------------------------------------------------
(* Ending a spread job *)

SpreadJobRec == [status : {"RUNNING", "ABORTED"}, sites : SUBSET SiteNames, done : SUBSET SiteNames,
                 have : [SiteNames -> Bytes], total : Bytes, deleted : SUBSET SiteNames]

\* What becomes of the job j when it is ended, with D the sites it deletes on,
\* and when the site s is taken from it.
EndedAs(j, k, D) ==
  /\ k \in SpreadJobRec /\ k.deleted = j.deleted \cup D
  /\ k.status = "ABORTED" /\ k.sites = j.sites
LeftBy(j, k, s, D) ==
  /\ k \in SpreadJobRec /\ k.deleted = j.deleted \cup D
  /\ k.status = j.status /\ k.sites = j.sites \ {s}

\* The sites that lack enough for their files to be deleted as incomplete.
Lacking(j) == {s \in SiteNames : s \notin j.done /\ (j.total = 0 \/ 100 * j.have[s] < 95 * j.total)}

LEMMA MulMono ==
  ASSUME NEW a \in Int, NEW b \in Int, NEW t \in Nat, a <= b
  PROVE  a * t <= b * t
<1> DEFINE d == b - a
<1>1. d \in Nat /\ b = a + d
  OBVIOUS
<1>2. d * t \in Nat
  BY <1>1
<1>3. b * t = a * t + d * t
  BY <1>1
<1> QED
  BY <1>2, <1>3

\* A quotient that is rounded down is below n exactly when the fraction is.
LEMMA ShareBelow ==
  ASSUME NEW a \in Nat, NEW t \in Nat, t # 0, NEW n \in Nat
  PROVE  a \div t < n <=> a < n * t
<1> DEFINE q == a \div t
<1>1. q \in Nat /\ q * t <= a /\ a < q * t + t
  OBVIOUS
<1> HIDE DEF q
<1>2. ASSUME q < n PROVE a < n * t
  <2>1. q + 1 <= n
    BY <1>1, <1>2
  <2>2. (q + 1) * t <= n * t
    BY <1>1, <2>1, MulMono
  <2>3. (q + 1) * t = q * t + t
    BY <1>1
  <2>4. q * t \in Int /\ n * t \in Int
    BY <1>1
  <2> QED
    BY <1>1, <2>2, <2>3, <2>4
<1>3. ASSUME n <= q PROVE n * t <= a
  <2>1. n * t <= q * t
    BY <1>1, <1>3, MulMono
  <2>2. q * t \in Int /\ n * t \in Int
    BY <1>1
  <2> QED
    BY <1>1, <2>1, <2>2
<1>4. a < n * t => ~(n * t <= a)
  OBVIOUS
<1>5. q < n <=> ~(n <= q)
  BY <1>1
<1> QED
  BY <1>2, <1>3, <1>4, <1>5 DEF q

LEMMA IncompleteGood ==
  ASSUME job \in SpreadJobRec, NEW s \in SiteNames
  PROVE  isIncompleteEnoughForDelete(s) <=> s \in Lacking(job)
<1> DEFINE a == job.have[s]
           t == job.total
<1>1. a \in Nat /\ t \in Nat
  BY RemoteAssumption DEF SpreadJobRec
<1>2. isIncompleteEnoughForDelete(s) <=> s \notin job.done /\ (t = 0 \/ (a * 100) \div t < 95)
  BY DEF isIncompleteEnoughForDelete, MAX_PERCENTAGE_FOR_INCOMPLETE_DELETE
<1>3. s \in Lacking(job) <=> s \notin job.done /\ (t = 0 \/ 100 * a < 95 * t)
  BY DEF Lacking
<1> HIDE DEF a, t
<1>4. ASSUME t # 0 PROVE (a * 100) \div t < 95 <=> 100 * a < 95 * t
  <2>1. a * 100 \in Nat /\ a * 100 = 100 * a
    BY <1>1
  <2>2. (a * 100) \div t < 95 <=> a * 100 < 95 * t
    BY <1>1, <1>4, <2>1, ShareBelow
  <2> QED
    BY <2>1, <2>2
<1> QED
  BY <1>2, <1>3, <1>4

LEMMA AbortGood ==
  ASSUME NEW j \in SpreadJobRec
  PROVE  EndedAs(j, abortRace(j), {})
BY DEF SpreadJobRec, EndedAs, abortRace

LEMMA DeleteOnSitesGood ==
  ASSUME NEW j \in SpreadJobRec, NEW D
  PROVE  EndedAs(j, deleteOnSites(j, D), D \cap j.sites)
<1> DEFINE a == abortRace(j)
           k == deleteOnSites(j, D)
           E == D \cap j.sites
           d == a.deleted \cup E
<1>1. a \in SpreadJobRec /\ a.deleted = j.deleted /\ a.status = "ABORTED" /\ a.sites = j.sites
  BY AbortGood DEF EndedAs
<1>2. k = [a EXCEPT !.deleted = d]
  BY DEF deleteOnSites
<1>3. d \subseteq SiteNames
  BY <1>1 DEF SpreadJobRec
<1>5. d = j.deleted \cup E
  BY <1>1
<1> HIDE DEF a, k, E, d
<1>4. k \in SpreadJobRec /\ k.deleted = d /\ k.status = a.status /\ k.sites = a.sites
  BY <1>1, <1>2, <1>3 DEF SpreadJobRec
<1>6. EndedAs(j, k, E)
  BY <1>1, <1>4, <1>5 DEF EndedAs
<1> QED
  BY <1>6 DEF k, E

LEMMA DeleteOnAllGood ==
  ASSUME job \in SpreadJobRec
  PROVE  /\ EndedAs(job, deleteOnAllSites(job, TRUE), job.sites)
         /\ EndedAs(job, deleteOnAllSites(job, FALSE), Lacking(job) \cap job.sites)
<1> DEFINE D(b) == {s \in job.sites : b \/ isIncompleteEnoughForDelete(s)}
<1>1. D(TRUE) \cap job.sites = job.sites
  OBVIOUS
<1>2. D(FALSE) \cap job.sites = Lacking(job) \cap job.sites
  <2>1. job.sites \subseteq SiteNames
    BY DEF SpreadJobRec
  <2>2. \A s \in job.sites : isIncompleteEnoughForDelete(s) <=> s \in Lacking(job)
    BY <2>1, IncompleteGood
  <2> QED
    BY <2>2
<1>3. \A b \in BOOLEAN : deleteOnAllSites(job, b) = deleteOnSites(job, D(b))
  BY DEF deleteOnAllSites
<1> HIDE DEF D
<1>4. EndedAs(job, deleteOnSites(job, D(TRUE)), job.sites)
  <2>1. EndedAs(job, deleteOnSites(job, D(TRUE)), D(TRUE) \cap job.sites)
    BY DeleteOnSitesGood
  <2> QED
    BY <1>1, <2>1
<1>5. EndedAs(job, deleteOnSites(job, D(FALSE)), Lacking(job) \cap job.sites)
  <2>1. EndedAs(job, deleteOnSites(job, D(FALSE)), D(FALSE) \cap job.sites)
    BY DeleteOnSitesGood
  <2> QED
    BY <1>2, <2>1
<1> QED
  BY <1>3, <1>4, <1>5

LEMMA RemoveSiteGood ==
  ASSUME job \in SpreadJobRec, NEW s
  PROVE  /\ LeftBy(job, removeSiteFromRaceDeleteFiles(job, s, TRUE), s, {s} \cap job.sites)
         /\ LeftBy(job, removeSiteFromRaceDeleteFiles(job, s, FALSE), s, {s} \cap job.sites \cap Lacking(job))
<1>1. CASE s \notin job.sites
  <2>1. \A b \in BOOLEAN : removeSiteFromRaceDeleteFiles(job, s, b) = job
    BY <1>1 DEF removeSiteFromRaceDeleteFiles
  <2>2. {s} \cap job.sites = {} /\ job.sites \ {s} = job.sites
    BY <1>1
  <2>3. LeftBy(job, job, s, {s} \cap job.sites) /\ LeftBy(job, job, s, {s} \cap job.sites \cap Lacking(job))
    BY <2>2 DEF LeftBy
  <2> QED
    BY <2>1, <2>3
<1>2. ASSUME s \in job.sites, NEW b \in BOOLEAN, NEW D, D = {x \in {s} : b \/ isIncompleteEnoughForDelete(s)}
      PROVE  LeftBy(job, removeSiteFromRaceDeleteFiles(job, s, b), s, D)
  <2> DEFINE k == removeSiteFromRaceDeleteFiles(job, s, b)
             d == job.deleted \cup D
             z == job.sites \ {s}
  <2>1. k = [job EXCEPT !.sites = z, !.deleted = d]
    BY <1>2 DEF removeSiteFromRaceDeleteFiles
  <2>2. d \subseteq SiteNames /\ z \subseteq SiteNames
    BY <1>2 DEF SpreadJobRec
  <2>3. d = job.deleted \cup D /\ z = job.sites \ {s}
    OBVIOUS
  <2> HIDE DEF k, d, z
  <2>4. k \in SpreadJobRec /\ k.status = job.status /\ k.deleted = d /\ k.sites = z
    BY <2>1, <2>2 DEF SpreadJobRec
  <2>5. LeftBy(job, k, s, D)
    BY <2>3, <2>4 DEF LeftBy
  <2> QED
    BY <2>5 DEF k
<1>3. CASE s \in job.sites
  <2>1. s \in SiteNames
    BY <1>3 DEF SpreadJobRec
  <2>2. isIncompleteEnoughForDelete(s) <=> s \in Lacking(job)
    BY <2>1, IncompleteGood
  <2>3. {s} \cap job.sites = {x \in {s} : TRUE \/ isIncompleteEnoughForDelete(s)}
    BY <1>3
  <2>4. {s} \cap job.sites \cap Lacking(job) = {x \in {s} : FALSE \/ isIncompleteEnoughForDelete(s)}
    BY <1>3, <2>2
  <2> QED
    BY <1>2, <1>3, <2>3, <2>4
<1> QED
  BY <1>1, <1>3

\* What the commands that end a job do to it.
LEMMA UdpEndGood ==
  ASSUME job \in SpreadJobRec, NEW names
  PROVE  /\ EndedAs(job, UdpEnd("abort", names), {})
         /\ names = {} => EndedAs(job, UdpEnd("delete", names), job.sites)
         /\ names # {} => EndedAs(job, UdpEnd("delete", names), getSiteLogicList(names) \cap job.sites)
         /\ EndedAs(job, UdpEnd("abortdeleteincomplete", names), Lacking(job) \cap job.sites)
<1>1. UdpEnd("abort", names) = abortRace(job)
  BY DEF UdpEnd
<1>2. names = {} => UdpEnd("delete", names) = deleteOnAllSites(job, TRUE)
  BY DEF UdpEnd
<1>3. names # {} => UdpEnd("delete", names) = deleteOnSites(job, getSiteLogicList(names))
  BY DEF UdpEnd
<1>4. UdpEnd("abortdeleteincomplete", names) = deleteOnAllSites(job, FALSE)
  BY DEF UdpEnd
<1> QED
  BY <1>1, <1>2, <1>3, <1>4, AbortGood, DeleteOnSitesGood, DeleteOnAllGood

LEMMA PostEndAllGood ==
  ASSUME job \in SpreadJobRec
  PROVE  /\ EndedAs(job, handleSpreadJobAbort("NONE", {}), {})
         /\ EndedAs(job, handleSpreadJobAbort("INCOMPLETE", {}), Lacking(job) \cap job.sites)
         /\ \A mode \in {"OWN", "ALL"} : EndedAs(job, handleSpreadJobAbort(mode, {}), job.sites)
<1>1. handleSpreadJobAbort("NONE", {}) = abortRace(job)
  BY DEF handleSpreadJobAbort
<1>2. handleSpreadJobAbort("INCOMPLETE", {}) = deleteOnAllSites(job, FALSE)
  BY DEF handleSpreadJobAbort
<1>3. \A mode \in {"OWN", "ALL"} : handleSpreadJobAbort(mode, {}) = deleteOnAllSites(job, TRUE)
  BY DEF handleSpreadJobAbort
<1> QED
  BY <1>1, <1>2, <1>3, AbortGood, DeleteOnAllGood

LEMMA PostEndSiteGood ==
  ASSUME job \in SpreadJobRec, NEW s
  PROVE  /\ LeftBy(job, handleSpreadJobAbort("NONE", {s}), s, {})
         /\ LeftBy(job, handleSpreadJobAbort("INCOMPLETE", {s}), s, {s} \cap job.sites \cap Lacking(job))
         /\ \A mode \in {"OWN", "ALL"} : LeftBy(job, handleSpreadJobAbort(mode, {s}), s, {s} \cap job.sites)
<1>0. {s} # {} /\ (CHOOSE x \in {s} : TRUE) = s
  OBVIOUS
<1>1. LeftBy(job, handleSpreadJobAbort("NONE", {s}), s, {})
  <2> DEFINE k == handleSpreadJobAbort("NONE", {s})
             z == job.sites \ {s}
  <2>1. k = [job EXCEPT !.sites = z]
    BY <1>0 DEF handleSpreadJobAbort
  <2>2. z \subseteq SiteNames /\ z = job.sites \ {s}
    BY DEF SpreadJobRec
  <2> HIDE DEF k, z
  <2>3. k \in SpreadJobRec /\ k.status = job.status /\ k.deleted = job.deleted /\ k.sites = z
    BY <2>1, <2>2 DEF SpreadJobRec
  <2>4. LeftBy(job, k, s, {})
    BY <2>2, <2>3 DEF LeftBy
  <2> QED
    BY <2>4 DEF k
<1>2. handleSpreadJobAbort("INCOMPLETE", {s}) = removeSiteFromRaceDeleteFiles(job, s, FALSE)
  BY <1>0 DEF handleSpreadJobAbort
<1>3. \A mode \in {"OWN", "ALL"} : handleSpreadJobAbort(mode, {s}) = removeSiteFromRaceDeleteFiles(job, s, TRUE)
  BY <1>0 DEF handleSpreadJobAbort
<1> QED
  BY <1>1, <1>2, <1>3, RemoveSiteGood

\* What the last command that started a spread job led to.
SpreadGood ==
  last.cmd \in {"race", "distribute", "prepare"} =>
    \E cmd \in {"race", "distribute", "prepare"}, sec \in SectionNames,
       names \in (SUBSET SiteNames) \cup {{"*"}}, result \in Results :
      /\ last.cmd = cmd /\ last.section = sec /\ last.names = names /\ last.result = result
      /\ cmd # "prepare" => result # "PREPARED"
      /\ last.sites = parseRace(sec, names)
      /\ last.bell = UdpBell(cmd, result)

LEMMA SpreadAgreesGood ==
  ASSUME notify \in 0..ALL_COMMANDS, SpreadGood
  PROVE  SpreadAgrees
<1> SUFFICES ASSUME last.cmd \in {"race", "distribute", "prepare"}
             PROVE  /\ last.sites = handleSpreadJobPost(last.section, last.names, last.names = {"*"})
                    /\ last.bell = RestBell(last.cmd, last.result)
  BY DEF SpreadAgrees
<1>1. last.sites = handleSpreadJobPost(last.section, last.names, last.names = {"*"})
  BY DEF SpreadGood, parseRace, handleSpreadJobPost
<1>2. UdpBell(last.cmd, last.result) <=> RestBell(last.cmd, last.result)
  <2>1. last.result \in Results /\ (last.cmd # "prepare" => last.result # "PREPARED")
    BY DEF SpreadGood
  <2> QED
    BY <2>1 DEF UdpBell, RestBell, Results, ALL_COMMANDS, JOBS_ADDED, ACTION_REQUESTED
<1>3. UdpBell(last.cmd, last.result) = RestBell(last.cmd, last.result)
  BY <1>2 DEF UdpBell, RestBell
<1>4. last.bell = UdpBell(last.cmd, last.result)
  BY DEF SpreadGood
<1> QED
  BY <1>1, <1>3, <1>4

\* The inductive invariant.
RemoteStrong ==
  /\ ConfigType /\ notify \in 0..ALL_COMMANDS /\ topic \in Topics /\ job \in SpreadJobRec
  /\ LastGood /\ SpreadGood /\ DeletesAsAsked

LEMMA RemoteStrongGood ==
  ASSUME RemoteStrong
  PROVE  InterfacesAgree
<1>1. RemoteTypeOK
  <2>1. job.status \in {"RUNNING", "ABORTED"} /\ job.sites \subseteq SiteNames /\ job.deleted \subseteq SiteNames
    BY DEF RemoteStrong, SpreadJobRec
  <2>2. last.cmd \in TransferCommands =>
          last.result.type \in {"refused", IF last.cmd = "downloadtopath" THEN "download" ELSE last.cmd}
    BY ResultTypeGood DEF RemoteStrong
  <2> QED
    BY <2>1, <2>2 DEF RemoteStrong, RemoteTypeOK
<1>2. SameJob
  BY SameJobGood DEF RemoteStrong
<1>3. NamesThePath
  BY NamesThePathGood DEF RemoteStrong
<1>4. JobInSection
  BY JobInSectionGood DEF RemoteStrong
<1>5. GroupsAgree
  BY GroupsGood DEF RemoteStrong
<1>6. SpreadAgrees
  BY SpreadAgreesGood DEF RemoteStrong
<1>7. DeletesAsAsked
  BY DEF RemoteStrong
<1> QED
  BY <1>1, <1>2, <1>3, <1>4, <1>5, <1>6, <1>7 DEF InterfacesAgree

LEMMA RemoteInitGood ==
  ASSUME RemoteInit
  PROVE  RemoteStrong
<1>1. last.cmd = "nothing"
  BY DEF RemoteInit, Nothing
<1>2. LastGood /\ SpreadGood /\ DeletesAsAsked
  BY <1>1 DEF LastGood, SpreadGood, DeletesAsAsked, TransferCommands
<1>3. ConfigType /\ topic \in Topics /\ notify \in 0..ALL_COMMANDS
  BY DEF RemoteInit, ConfigType, ALL_COMMANDS, JOBS_ADDED
<1>4. job \in SpreadJobRec
  <2>1. job \in Jobs
    BY DEF RemoteInit
  <2> QED
    BY <2>1 DEF Jobs, SpreadJobRec
<1> QED
  BY <1>2, <1>3, <1>4 DEF RemoteStrong

---------------------------------------------------------------------------
(* Steps.  A command reads only the configuration, which never changes. *)

LEMMA SameTranslate ==
  ASSUME UNCHANGED config, NEW p, NEW s
  PROVE  useOrSectionTranslate(p, s)' = useOrSectionTranslate(p, s)
BY DEF useOrSectionTranslate, hasSection, isRelative, getSectionPath

LEMMA SameCommands ==
  ASSUME UNCHANGED config, NEW c, NEW q
  PROVE  /\ commandFXP(c)' = commandFXP(c)
         /\ commandDownload(c, q)' = commandDownload(c, q)
         /\ commandUpload(c)' = commandUpload(c)
BY SameTranslate DEF commandFXP, commandDownload, commandUpload, newTransferJobFXP, newTransferJobDownload, newTransferJobUpload,
   SectionGood, hasSection

LEMMA SamePost ==
  ASSUME UNCHANGED config, NEW c
  PROVE  handleTransferJobPost(c)' = handleTransferJobPost(c)
<1>1. ASSUME NEW a, NEW b, NEW d
      PROVE  TransferSide(a, b, d)' = TransferSide(a, b, d)
  <2>1. useOrSectionTranslate(d, a)' = useOrSectionTranslate(d, a)
    BY SameTranslate
  <2>2. hasSection(a, b)' <=> hasSection(a, b)
    BY DEF hasSection
  <2> QED
    BY ONLY <2>1, <2>2 DEF TransferSide
<1> QED
  BY <1>1 DEF handleTransferJobPost, newTransferJobFXP, newTransferJobDownload, newTransferJobUpload, SectionGood, hasSection

LEMMA SameGroup ==
  ASSUME UNCHANGED config, NEW N, NEW p
  PROVE  /\ getSiteLogicList(N)' = getSiteLogicList(N)
         /\ commandRawWithPath(N, p)' = commandRawWithPath(N, p)
<1>1. getSiteLogicList(N)' = getSiteLogicList(N)
  BY DEF getSiteLogicList, Enabled, hasSection
<1> QED
  BY <1>1, SameTranslate DEF commandRawWithPath

LEMMA SameSpread ==
  ASSUME UNCHANGED config, NEW sec, NEW N
  PROVE  parseRace(sec, N)' = parseRace(sec, N)
BY DEF parseRace, Enabled, hasSection

LEMMA SameBell ==
  ASSUME UNCHANGED notify, NEW cmd, NEW r
  PROVE  UdpBell(cmd, r)' = UdpBell(cmd, r)
BY DEF UdpBell

LEMMA SameResult ==
  ASSUME UNCHANGED config, NEW cmd \in TransferCommands, NEW c
  PROVE  CommandResult(cmd, c)' = CommandResult(cmd, c)
<1>1. /\ commandFXP(c)' = commandFXP(c)
      /\ commandDownload(c, DownloadPath)' = commandDownload(c, DownloadPath)
      /\ commandDownload(c, c.dp)' = commandDownload(c, c.dp)
      /\ commandUpload(c)' = commandUpload(c)
  BY SameCommands
<1> QED
  BY <1>1 DEF CommandResult, commandDownloadToPath

LEMMA UdpTransferGood ==
  ASSUME RemoteStrong, UdpTransfer
  PROVE  RemoteStrong'
<1>1. PICK cmd \in {"fxp", "download", "downloadtopath", "upload"}, src \in Named, dst \in Named,
           sp \in Given, dp \in Given, named \in BOOLEAN, dfile \in {NoName, "g"} :
        /\ IF cmd = "fxp" THEN named ELSE dfile = NoName
        /\ LET c == [src |-> src, dst |-> dst, sp |-> sp, dp |-> dp, file |-> "f", named |-> named, dfile |-> dfile]
               r == CASE cmd = "fxp" -> commandFXP(c)
                      [] cmd = "download" -> commandDownload(c, DownloadPath)
                      [] cmd = "downloadtopath" -> commandDownloadToPath(c)
                      [] cmd = "upload" -> commandUpload(c)
           IN last' = [cmd |-> cmd, asked |-> c, result |-> r,
                       bell |-> UdpBell("transfer", IF r = Refused THEN "ERROR" ELSE "STARTED")]
  BY DEF UdpTransfer
<1>2. UNCHANGED <<config, notify, job, topic>>
  BY DEF UdpTransfer
<1> DEFINE c == [src |-> src, dst |-> dst, sp |-> sp, dp |-> dp, file |-> "f", named |-> named, dfile |-> dfile]
           r == CommandResult(cmd, c)
           b == UdpBell("transfer", IF r = Refused THEN "ERROR" ELSE "STARTED")
<1>3. last' = [cmd |-> cmd, asked |-> c, result |-> r, bell |-> b]
  BY <1>1 DEF CommandResult
<1>4. c \in CommandRec /\ cmd \in TransferCommands
  BY DEF CommandRec, TransferCommands
<1>10. IF cmd = "fxp" THEN c.named ELSE c.dfile = NoName
  BY <1>1
<1> HIDE DEF c
<1>5. CommandResult(cmd, c)' = r
  BY <1>2, <1>4, SameResult
<1> HIDE DEF r, b
<1>6. last'.cmd = cmd /\ last'.asked = c /\ last'.result = r
  BY <1>3
<1>7. cmd \notin {"post", "group", "race", "distribute", "prepare", "abort", "delete", "abortdeleteincomplete", "postabort"}
  BY DEF TransferCommands
<1>8. LastGood'
  BY <1>4, <1>5, <1>6, <1>7, <1>10 DEF LastGood
<1>9. SpreadGood' /\ DeletesAsAsked'
  BY <1>6, <1>7 DEF SpreadGood, DeletesAsAsked
<1> QED
  BY <1>2, <1>8, <1>9 DEF RemoteStrong, ConfigType

LEMMA PostTransferGood ==
  ASSUME RemoteStrong, PostTransfer
  PROVE  RemoteStrong'
<1>1. PICK src \in Named \cup {NoName}, dst \in Named \cup {NoName},
           ssec \in SectionNames \cup {NoName}, dsec \in SectionNames \cup {NoName},
           sp \in Given \cup {<<>>}, dp \in Given \cup {<<>>}, f \in Files :
        LET c == [src |-> src, dst |-> dst, ssec |-> ssec, dsec |-> dsec, sp |-> sp, dp |-> dp, file |-> f]
            r == handleTransferJobPost(c)
        IN last' = [cmd |-> "post", asked |-> c, result |-> r,
                    bell |-> RestBell("transfer", IF r = Refused THEN "ERROR" ELSE "STARTED")]
  BY DEF PostTransfer
<1>2. UNCHANGED <<config, notify, job, topic>>
  BY DEF PostTransfer
<1> DEFINE c == [src |-> src, dst |-> dst, ssec |-> ssec, dsec |-> dsec, sp |-> sp, dp |-> dp, file |-> f]
           r == handleTransferJobPost(c)
           b == RestBell("transfer", IF r = Refused THEN "ERROR" ELSE "STARTED")
<1>3. last' = [cmd |-> "post", asked |-> c, result |-> r, bell |-> b]
  BY <1>1
<1>4. c \in PostRec
  BY DEF PostRec
<1> HIDE DEF c
<1>5. handleTransferJobPost(c)' = r
  BY <1>2, SamePost
<1> HIDE DEF r, b
<1>6. last'.cmd = "post" /\ last'.asked = c /\ last'.result = r
  BY <1>3
<1>8. LastGood'
  BY <1>4, <1>5, <1>6 DEF LastGood, TransferCommands
<1>9. SpreadGood' /\ DeletesAsAsked'
  BY <1>6 DEF SpreadGood, DeletesAsAsked
<1> QED
  BY <1>2, <1>8, <1>9 DEF RemoteStrong, ConfigType

LEMMA UdpSpreadGood ==
  ASSUME RemoteStrong, UdpSpread
  PROVE  RemoteStrong'
<1>1. PICK cmd \in {"race", "distribute", "prepare"}, sec \in SectionNames,
           names \in (SUBSET SiteNames) \cup {{"*"}}, result \in Results :
        /\ cmd # "prepare" => result # "PREPARED"
        /\ last' = [cmd |-> cmd, section |-> sec, names |-> names, sites |-> parseRace(sec, names), result |-> result,
                    bell |-> UdpBell(cmd, result)]
  BY DEF UdpSpread
<1>2. UNCHANGED <<config, notify, job, topic>>
  BY DEF UdpSpread
<1> DEFINE S == parseRace(sec, names)
           b == UdpBell(cmd, result)
<1>3. parseRace(sec, names)' = S /\ UdpBell(cmd, result)' = b
  BY <1>2, SameSpread, SameBell
<1> HIDE DEF S, b
<1>4. last' = [cmd |-> cmd, section |-> sec, names |-> names, sites |-> S, result |-> result, bell |-> b]
  BY <1>1 DEF S, b
<1>5. /\ last'.cmd = cmd /\ last'.section = sec /\ last'.names = names /\ last'.result = result
      /\ last'.sites = S /\ last'.bell = b
  BY <1>4
<1>6. SpreadGood'
  BY <1>1, <1>3, <1>5 DEF SpreadGood
<1>7. LastGood' /\ DeletesAsAsked'
  BY <1>1, <1>5 DEF LastGood, DeletesAsAsked, TransferCommands
<1> QED
  BY <1>2, <1>6, <1>7 DEF RemoteStrong, ConfigType

LEMMA UdpGroupGood ==
  ASSUME RemoteStrong, UdpGroup
  PROVE  RemoteStrong'
<1>1. PICK names \in Groups, p \in Given :
        last' = [cmd |-> "group", names |-> names, sites |-> getSiteLogicList(names), path |-> p,
                 withpath |-> commandRawWithPath(names, p)]
  BY DEF UdpGroup, Groups
<1>2. UNCHANGED <<config, notify, job, topic>>
  BY DEF UdpGroup
<1> DEFINE S == getSiteLogicList(names)
           w == commandRawWithPath(names, p)
<1>3. getSiteLogicList(names)' = S /\ commandRawWithPath(names, p)' = w
  BY <1>2, SameGroup
<1> HIDE DEF S, w
<1>4. last' = [cmd |-> "group", names |-> names, sites |-> S, path |-> p, withpath |-> w]
  BY <1>1 DEF S, w
<1>5. last'.cmd = "group" /\ last'.names = names /\ last'.path = p /\ last'.sites = S /\ last'.withpath = w
  BY <1>4
<1>6. LastGood'
  BY <1>3, <1>5 DEF LastGood, TransferCommands
<1>7. SpreadGood' /\ DeletesAsAsked'
  BY <1>5 DEF SpreadGood, DeletesAsAsked
<1> QED
  BY <1>2, <1>6, <1>7 DEF RemoteStrong, ConfigType

LEMMA UdpEndJobGood ==
  ASSUME RemoteStrong, UdpEndJob
  PROVE  RemoteStrong'
<1>1. PICK cmd \in {"abort", "delete", "abortdeleteincomplete"}, names \in {{}, {"*"}, SiteNames} \cup {{s} : s \in Named} :
        /\ cmd # "delete" => names = {}
        /\ job' = UdpEnd(cmd, names)
        /\ last' = [cmd |-> cmd, names |-> names, was |-> job]
  BY DEF UdpEndJob
<1>2. UNCHANGED <<config, notify, topic>>
  BY DEF UdpEndJob
<1>3. job \in SpreadJobRec /\ job.sites \subseteq SiteNames
  BY DEF RemoteStrong, SpreadJobRec
<1>4. last'.cmd = cmd /\ last'.names = names /\ last'.was = job
  BY <1>1
<1>5. ASSUME NEW D, EndedAs(job, job', D), D = SitesMeant' \cap job.sites \cap SitesDue'
      PROVE  DeletesAsAsked' /\ job' \in SpreadJobRec
  BY <1>4, <1>5 DEF DeletesAsAsked, EndedAs
<1>6. DeletesAsAsked' /\ job' \in SpreadJobRec
  <2>1. CASE cmd = "abort"
    <3>1. EndedAs(job, job', {})
      BY <1>1, <1>3, <2>1, UdpEndGood
    <3>2. SitesDue' = {}
      BY <1>4, <2>1 DEF SitesDue
    <3> QED
      BY <1>5, <3>1, <3>2
  <2>2. CASE cmd = "delete" /\ names = {}
    <3>1. EndedAs(job, job', job.sites)
      BY <1>1, <1>3, <2>2, UdpEndGood
    <3>2. SitesDue' = SiteNames
      BY <1>4, <2>2 DEF SitesDue
    <3>3. SitesMeant' = job.sites
      BY <1>4, <2>2 DEF SitesMeant
    <3> QED
      BY <1>3, <1>5, <3>1, <3>2, <3>3
  <2>3. CASE cmd = "delete" /\ names # {}
    <3>1. EndedAs(job, job', getSiteLogicList(names) \cap job.sites)
      BY <1>1, <1>3, <2>3, UdpEndGood
    <3>2. SitesDue' = SiteNames
      BY <1>4, <2>3 DEF SitesDue
    <3>3. SitesMeant' = getSiteLogicList(names)
      <4>1. SitesMeant' = getSiteLogicList(last.names)'
        BY <1>4, <2>3 DEF SitesMeant
      <4>2. getSiteLogicList(last.names)' = getSiteLogicList(names)
        BY <1>2, <1>4 DEF getSiteLogicList, Enabled, hasSection
      <4> QED
        BY <4>1, <4>2
    <3>4. getSiteLogicList(names) \cap job.sites = SitesMeant' \cap job.sites \cap SitesDue'
      BY <1>3, <3>2, <3>3
    <3> QED
      BY <1>5, <3>1, <3>4
  <2>4. CASE cmd = "abortdeleteincomplete"
    <3>1. EndedAs(job, job', Lacking(job) \cap job.sites)
      BY <1>1, <1>3, <2>4, UdpEndGood
    <3>2. SitesDue' = Lacking(job)
      BY <1>4, <2>4 DEF SitesDue, Lacking
    <3>3. SitesMeant' = job.sites
      BY <1>1, <1>4, <2>4 DEF SitesMeant
    <3>4. Lacking(job) \cap job.sites = SitesMeant' \cap job.sites \cap SitesDue'
      BY <3>2, <3>3
    <3> QED
      BY <1>5, <3>1, <3>4
  <2> QED
    BY <2>1, <2>2, <2>3, <2>4
<1>7. LastGood' /\ SpreadGood'
  BY <1>1, <1>4 DEF LastGood, SpreadGood, TransferCommands
<1> QED
  BY <1>2, <1>6, <1>7 DEF RemoteStrong, ConfigType, SpreadJobRec

LEMMA PostEndJobGood ==
  ASSUME RemoteStrong, PostEndJob
  PROVE  RemoteStrong'
<1>1. PICK mode \in {"NONE", "INCOMPLETE", "OWN", "ALL"}, names \in {{}} \cup {{s} : s \in Named} :
        /\ job' = handleSpreadJobAbort(mode, names)
        /\ last' = [cmd |-> "postabort", mode |-> mode, names |-> names, was |-> job]
  BY DEF PostEndJob
<1>2. UNCHANGED <<config, notify, topic>>
  BY DEF PostEndJob
<1>3. job \in SpreadJobRec /\ job.sites \subseteq SiteNames
  BY DEF RemoteStrong, SpreadJobRec
<1>4. last'.cmd = "postabort" /\ last'.mode = mode /\ last'.names = names /\ last'.was = job
  BY <1>1
<1>5. SitesDue' = IF mode = "NONE" THEN {} ELSE IF mode = "INCOMPLETE" THEN Lacking(job) ELSE SiteNames
  <2>1. CASE mode = "NONE"
    BY <1>4, <2>1 DEF SitesDue
  <2>2. CASE mode = "INCOMPLETE"
    BY <1>4, <2>2 DEF SitesDue, Lacking
  <2>3. CASE mode \in {"OWN", "ALL"}
    BY <1>4, <2>3 DEF SitesDue
  <2> QED
    BY <2>1, <2>2, <2>3
<1>6. DeletesAsAsked' /\ job' \in SpreadJobRec
  <2>1. CASE names = {}
    <3>1. ASSUME NEW D, EndedAs(job, job', D), D = job.sites \cap SitesDue'
          PROVE  DeletesAsAsked' /\ job' \in SpreadJobRec
      <4>1. SitesMeant' = job.sites
        BY <1>4, <2>1 DEF SitesMeant
      <4>2. D = SitesMeant' \cap job.sites \cap SitesDue'
        BY <3>1, <4>1
      <4> QED
        BY <1>4, <2>1, <3>1, <4>2 DEF DeletesAsAsked, EndedAs
    <3>2. CASE mode = "NONE"
      <4>1. EndedAs(job, job', {})
        BY <1>1, <1>3, <2>1, <3>2, PostEndAllGood
      <4> QED
        BY <1>5, <3>1, <3>2, <4>1
    <3>3. CASE mode = "INCOMPLETE"
      <4>1. EndedAs(job, job', Lacking(job) \cap job.sites)
        BY <1>1, <1>3, <2>1, <3>3, PostEndAllGood
      <4>2. Lacking(job) \cap job.sites = job.sites \cap SitesDue'
        BY <1>5, <3>3
      <4> QED
        BY <3>1, <4>1, <4>2
    <3>4. CASE mode \in {"OWN", "ALL"}
      <4>1. EndedAs(job, job', job.sites)
        BY <1>1, <1>3, <2>1, <3>4, PostEndAllGood
      <4>2. job.sites = job.sites \cap SitesDue'
        BY <1>3, <1>5, <3>4
      <4> QED
        BY <3>1, <4>1, <4>2
    <3> QED
      BY <3>2, <3>3, <3>4
  <2>2. ASSUME NEW s, names = {s}
        PROVE  DeletesAsAsked' /\ job' \in SpreadJobRec
    <3>1. ASSUME NEW D, LeftBy(job, job', s, D), D = {s} \cap job.sites \cap SitesDue'
          PROVE  DeletesAsAsked' /\ job' \in SpreadJobRec
      <4>1. SitesMeant' = {s}
        BY <1>4, <2>2 DEF SitesMeant
      <4>2. D = SitesMeant' \cap job.sites \cap SitesDue'
        BY <3>1, <4>1
      <4>3. last'.names = {s} /\ {s} # {}
        BY <1>4, <2>2
      <4> QED
        BY <1>4, <3>1, <4>2, <4>3 DEF DeletesAsAsked, LeftBy
    <3>2. CASE mode = "NONE"
      <4>1. LeftBy(job, job', s, {})
        BY <1>1, <1>3, <2>2, <3>2, PostEndSiteGood
      <4> QED
        BY <1>5, <3>1, <3>2, <4>1
    <3>3. CASE mode = "INCOMPLETE"
      <4>1. LeftBy(job, job', s, {s} \cap job.sites \cap Lacking(job))
        BY <1>1, <1>3, <2>2, <3>3, PostEndSiteGood
      <4>2. SitesDue' = Lacking(job)
        BY <1>5, <3>3
      <4> QED
        BY <3>1, <4>1, <4>2
    <3>4. CASE mode \in {"OWN", "ALL"}
      <4>1. LeftBy(job, job', s, {s} \cap job.sites)
        BY <1>1, <1>3, <2>2, <3>4, PostEndSiteGood
      <4>2. {s} \cap job.sites = {s} \cap job.sites \cap SitesDue'
        BY <1>3, <1>5, <3>4
      <4> QED
        BY <3>1, <4>1, <4>2
    <3> QED
      BY <3>2, <3>3, <3>4
  <2> QED
    BY <1>1, <2>1, <2>2
<1>7. LastGood' /\ SpreadGood'
  BY <1>4 DEF LastGood, SpreadGood, TransferCommands
<1> QED
  BY <1>2, <1>6, <1>7 DEF RemoteStrong, ConfigType, SpreadJobRec

LEMMA RemoteStutterGood ==
  ASSUME RemoteStrong, UNCHANGED remoteVars
  PROVE  RemoteStrong'
<1>1. UNCHANGED <<config, notify, job, last, topic>>
  BY DEF remoteVars
<1>2. LastGood'
  <2>1. ASSUME last.cmd \in TransferCommands
        PROVE  \E cmd \in TransferCommands, c \in CommandRec :
                 /\ last'.cmd = cmd /\ last'.asked = c /\ last'.result = CommandResult(cmd, c)'
                 /\ IF cmd = "fxp" THEN c.named ELSE c.dfile = NoName
    <3>1. PICK cmd \in TransferCommands, c \in CommandRec :
            /\ last.cmd = cmd /\ last.asked = c /\ last.result = CommandResult(cmd, c)
            /\ IF cmd = "fxp" THEN c.named ELSE c.dfile = NoName
      BY <2>1 DEF RemoteStrong, LastGood
    <3>2. CommandResult(cmd, c)' = CommandResult(cmd, c)
      BY <1>1, SameResult
    <3> QED
      BY <1>1, <3>1, <3>2
  <2>2. ASSUME last.cmd = "post"
        PROVE  \E c \in PostRec : last'.asked = c /\ last'.result = handleTransferJobPost(c)'
    <3>1. PICK c \in PostRec : last.asked = c /\ last.result = handleTransferJobPost(c)
      BY <2>2 DEF RemoteStrong, LastGood
    <3>2. handleTransferJobPost(c)' = handleTransferJobPost(c)
      BY <1>1, SamePost
    <3> QED
      BY <1>1, <3>1, <3>2
  <2>3. ASSUME last.cmd = "group"
        PROVE  \E names \in Groups, p \in Given :
                 /\ last'.names = names /\ last'.path = p
                 /\ last'.sites = getSiteLogicList(names)'
                 /\ last'.withpath = commandRawWithPath(names, p)'
    <3>1. PICK names \in Groups, p \in Given :
            /\ last.names = names /\ last.path = p
            /\ last.sites = getSiteLogicList(names)
            /\ last.withpath = commandRawWithPath(names, p)
      BY <2>3 DEF RemoteStrong, LastGood
    <3>2. getSiteLogicList(names)' = getSiteLogicList(names) /\ commandRawWithPath(names, p)' = commandRawWithPath(names, p)
      BY <1>1, SameGroup
    <3> QED
      BY <1>1, <3>1, <3>2
  <2>4. last' = last
    BY <1>1
  <2> QED
    BY <2>1, <2>2, <2>3, <2>4 DEF LastGood
<1>3. SpreadGood'
  <2>1. ASSUME last.cmd \in {"race", "distribute", "prepare"}
        PROVE  \E cmd \in {"race", "distribute", "prepare"}, sec \in SectionNames,
                  names \in (SUBSET SiteNames) \cup {{"*"}}, result \in Results :
                 /\ last'.cmd = cmd /\ last'.section = sec /\ last'.names = names /\ last'.result = result
                 /\ cmd # "prepare" => result # "PREPARED"
                 /\ last'.sites = parseRace(sec, names)'
                 /\ last'.bell = UdpBell(cmd, result)'
    <3>1. PICK cmd \in {"race", "distribute", "prepare"}, sec \in SectionNames,
               names \in (SUBSET SiteNames) \cup {{"*"}}, result \in Results :
            /\ last.cmd = cmd /\ last.section = sec /\ last.names = names /\ last.result = result
            /\ cmd # "prepare" => result # "PREPARED"
            /\ last.sites = parseRace(sec, names)
            /\ last.bell = UdpBell(cmd, result)
      BY <2>1 DEF RemoteStrong, SpreadGood
    <3>2. parseRace(sec, names)' = parseRace(sec, names) /\ UdpBell(cmd, result)' = UdpBell(cmd, result)
      BY <1>1, SameSpread, SameBell
    <3> QED
      BY <1>1, <3>1, <3>2
  <2>2. last' = last
    BY <1>1
  <2> QED
    BY <2>1, <2>2 DEF SpreadGood
<1>4. DeletesAsAsked'
  <2>1. DeletesAsAsked
    BY DEF RemoteStrong
  <2>2. SitesMeant' = SitesMeant
    BY <1>1 DEF SitesMeant, getSiteLogicList, Enabled, hasSection
  <2>3. SitesDue' = SitesDue
    BY <1>1 DEF SitesDue
  <2> QED
    BY <1>1, <2>1, <2>2, <2>3 DEF DeletesAsAsked
<1>5. ConfigType' /\ (notify \in 0..ALL_COMMANDS)' /\ (topic \in Topics)' /\ (job \in SpreadJobRec)'
  BY <1>1 DEF RemoteStrong, ConfigType
<1> QED
  BY <1>2, <1>3, <1>4, <1>5 DEF RemoteStrong

LEMMA setNotifyGood ==
  ASSUME RemoteStrong, setNotify
  PROVE  RemoteStrong'
<1>1. last'.cmd = "nothing" /\ notify' \in 0..ALL_COMMANDS /\ UNCHANGED <<config, job, topic>>
  BY DEF setNotify, Nothing
<1>2. LastGood' /\ SpreadGood' /\ DeletesAsAsked'
  BY <1>1 DEF LastGood, SpreadGood, DeletesAsAsked, TransferCommands
<1> QED
  BY <1>1, <1>2 DEF RemoteStrong, ConfigType

\* The UDP commands and the requests of the REST interface that say the same do
\* the same, and what their words say: the same transfer job is started, in a
\* section its site defines, from the path that was named to the one that was
\* named, under the other name only if fxp gave one; the same group of sites is
\* addressed and never a disabled one that was not named; the bell rings for the
\* same outcomes.  Files are deleted on exactly the job's sites that were named,
\* or all, and are due by what is complete there; a REST request with sites takes
\* these from the job, everything else that ends a job leaves its sites and ends
\* it, the UDP deletion on named sites included.  For any sites, sections, paths
\* and sizes.
THEOREM RemoteCorrect == RemoteSpec => []InterfacesAgree
<1>1. RemoteInit => RemoteStrong
  BY RemoteInitGood
<1>2. RemoteStrong /\ [RemoteNext]_remoteVars => RemoteStrong'
  <2> SUFFICES ASSUME RemoteStrong, [RemoteNext]_remoteVars
               PROVE  RemoteStrong'
    OBVIOUS
  <2>1. CASE setNotify
    BY <2>1, setNotifyGood
  <2>2. CASE UdpTransfer
    BY <2>2, UdpTransferGood
  <2>3. CASE PostTransfer
    BY <2>3, PostTransferGood
  <2>4. CASE UdpSpread
    BY <2>4, UdpSpreadGood
  <2>5. CASE UdpGroup
    BY <2>5, UdpGroupGood
  <2>6. CASE UdpEndJob
    BY <2>6, UdpEndJobGood
  <2>7. CASE PostEndJob
    BY <2>7, PostEndJobGood
  <2>8. CASE UNCHANGED remoteVars
    BY <2>8, RemoteStutterGood
  <2> QED
    BY <2>1, <2>2, <2>3, <2>4, <2>5, <2>6, <2>7, <2>8 DEF RemoteNext
<1>3. RemoteStrong => InterfacesAgree
  BY RemoteStrongGood
<1> QED
  BY <1>1, <1>2, <1>3, PTL DEF RemoteSpec

-----------------------------------------------------------------------------
(***************************************************************************)
(* The inductive invariant, of a state as the handlers pass it along.  D   *)
(* are the requests that are being answered, as pairs of a connection and  *)
(* an id; n is the number of requests that have been made.                 *)
(***************************************************************************)
Question == RestSites \X RestIds
RestStates ==
  [conn : [RestConns -> HTTPConnObject], ongoing : SUBSET OngoingRequest,
   asked : [waiting : SUBSET Question, ready : SUBSET Question],
   flags : [clients : 0..MaxClients, requests : 0..MaxRequests, failed : BOOLEAN]]

Ids(k) == {k.queue[i].id : i \in DOMAIN k.queue}

\* The answers that wait are in order, and none of them has been given or is to
\* a request that was not made.
QueueOK(k) ==
  /\ k.latest < k.next /\ \A id \in Ids(k) : k.latest < id /\ id < k.next
  /\ \A i, j \in DOMAIN k.queue : i < j => k.queue[i].id < k.queue[j].id

HeldOK(k) == k.paused \/ (k.buffer = 0 /\ k.latest + 1 \notin Ids(k))

\* Unless a socket lingers, an object is open while its socket is up.
ConnOK(k, n) ==
  /\ k.next \in 0..n
  /\ ~k.lingered =>
       /\ k.open = k.up /\ ~k.lingers
       /\ ~k.open => k.queue = <<>> /\ k.buffer = 0
       /\ k.open => QueueOK(k) /\ HeldOK(k)

\* Whose body has been collected
BodyOK(k, clients) ==
  /\ k.client <= clients /\ (k.up \/ k.open => k.client >= 1)
  /\ \A p \in k.body : p[1] <= clients /\ (p[1] = k.client /\ k.open /\ ~k.lingered => p[2] = k.next)

\* A request that waits, and what it waits for
WaitOK(s, r, n) ==
  /\ r.api \in 0..(n - 1) /\ ~r.async
  /\ r.waits # {} /\ r.waits \subseteq s.asked.waiting /\ \A q \in r.waits : q[2] = r.api

\* An answer to id of connection k is still to come.
ToCome(k, id) == k.open /\ id \in Int /\ k.latest < id /\ id < k.next /\ id \notin Ids(k)

RestGoodBut(s, D, n) ==
  /\ s \in RestStates
  /\ \A c \in RestConns : ConnOK(s.conn[c], n)
  /\ \A r \in s.ongoing : WaitOK(s, r, n)
  /\ \A r, o \in s.ongoing : r.api = o.api => r = o
  /\ \A r \in s.ongoing : ~s.conn[r.cb].lingered => ToCome(s.conn[r.cb], r.id) /\ <<r.cb, r.id>> \notin D
  /\ \A r, o \in s.ongoing : ~s.conn[r.cb].lingered /\ r.cb = o.cb /\ r.id = o.id => r = o
  /\ \A p \in D : ~s.conn[p[1]].lingered => ToCome(s.conn[p[1]], p[2])
  /\ \A c \in RestConns : s.conn[c].open /\ ~s.conn[c].lingered =>
       \A id \in (s.conn[c].latest + 1)..(s.conn[c].next - 1) :
         \/ id \in Ids(s.conn[c]) \/ <<c, id>> \in D
         \/ \E r \in s.ongoing : r.cb = c /\ r.id = id
  /\ s.flags.failed => \E c \in RestConns : s.conn[c].lingered

StrongAt(s) ==
  /\ RestGoodBut(s, {}, s.flags.requests)
  /\ \A c \in RestConns : BodyOK(s.conn[c], s.flags.clients)
  /\ \A r \in s.ongoing : r.left >= 0

RestStrong == StrongAt(Rest)

-----------------------------------------------------------------------------
(***************************************************************************)
(* Naturals                                                                *)
(***************************************************************************)
Less == {p \in Nat \X Nat : p[1] < p[2]}

\* A set of naturals that is not empty has a least one.
LEMMA LeastOf ==
  ASSUME NEW T \in SUBSET Nat, T # {}
  PROVE  \E x \in T : \A y \in T : x <= y
<1>1. IsWellFoundedOn(Less, Nat)
  BY NatLessThanWellFounded DEF Less, OpToRel
<1>2. PICK x \in T : \A y \in T : ~(<<y, x>> \in Less)
  BY <1>1, WFMin
<1>3. ASSUME NEW y \in T PROVE x <= y
  <2>1. x \in Nat /\ y \in Nat /\ ~(<<y, x>> \in Less)
    BY <1>2
  <2>2. <<y, x>> \in Nat \X Nat /\ <<y, x>>[1] = y /\ <<y, x>>[2] = x
    BY <2>1
  <2>3. ~(y < x)
    BY <2>1, <2>2 DEF Less
  <2> QED
    BY <2>1, <2>3
<1> QED
  BY <1>3

\* A set with 0 and the successor of each of its naturals has them all.  Induction
\* is used in this form, on sets, below.
LEMMA NatSetInduction ==
  ASSUME NEW S, 0 \in S, \A m \in Nat : m \in S => m + 1 \in S
  PROVE  Nat \subseteq S
<1> DEFINE T == Nat \ S
<1>1. SUFFICES ASSUME T # {} PROVE FALSE
  OBVIOUS
<1>2. PICK x \in T : \A y \in T : x <= y
  BY <1>1, LeastOf
<1>3. x \in Nat /\ x # 0
  OBVIOUS
<1>4. x - 1 \in Nat /\ x - 1 \in S /\ (x - 1) + 1 = x
  BY <1>2, <1>3
<1> QED
  BY <1>4

-----------------------------------------------------------------------------
(***************************************************************************)
(* The answers of a connection                                             *)
(***************************************************************************)
Entries == [id : RestIds, blocks : 1..MaxBlocks]

LEMMA InsertFacts ==
  ASSUME NEW S, NEW q, NEW e, NEW at, q \in Seq(S), e \in S, at \in 1..(Len(q) + 1)
  PROVE  /\ InsertAt(q, at, e) \in Seq(S) /\ Len(InsertAt(q, at, e)) = Len(q) + 1
         /\ \A i \in 1..(Len(q) + 1) :
              InsertAt(q, at, e)[i] = IF i < at THEN q[i] ELSE IF i = at THEN e ELSE q[i - 1]
<1> DEFINE n == Len(q)
           a == SubSeq(q, 1, at - 1)
           b == SubSeq(q, at, n)
           o == <<e>>
           ae == a \o o
           r == ae \o b
<1>1. n \in Nat /\ at \in Int /\ at >= 1 /\ at <= n + 1 /\ \A i \in 1..n : q[i] \in S
  BY LenProperties
<1>2. a \in Seq(S) /\ Len(a) = at - 1 /\ \A i \in 1..(at - 1) : a[i] = q[i]
  BY <1>1, SubSeqProperties
<1>3. b \in Seq(S) /\ Len(b) = n - at + 1 /\ \A i \in 1..(n - at + 1) : b[i] = q[at + i - 1]
  BY <1>1, SubSeqProperties
<1>4. o \in Seq(S) /\ Len(o) = 1 /\ o[1] = e
  OBVIOUS
<1>5. InsertAt(q, at, e) = r
  BY DEF InsertAt
<1> HIDE DEF n, a, b, o
<1>6. /\ ae \in Seq(S) /\ Len(ae) = at
      /\ \A i \in 1..at : ae[i] = IF i <= at - 1 THEN a[i] ELSE e
  <2>1. /\ ae \in Seq(S) /\ Len(ae) = Len(a) + Len(o)
        /\ \A i \in 1..Len(a) + Len(o) : ae[i] = IF i <= Len(a) THEN a[i] ELSE o[i - Len(a)]
    BY <1>2, <1>4, ConcatProperties
  <2>2. Len(a) + Len(o) = at
    BY <1>1, <1>2, <1>4
  <2>3. \A i \in 1..at : ~(i <= Len(a)) => i - Len(a) = 1
    BY <1>1, <1>2
  <2> HIDE DEF ae
  <2> QED
    BY <1>2, <1>4, <2>1, <2>2, <2>3
<1> HIDE DEF ae
<1>7. /\ r \in Seq(S) /\ Len(r) = at + (n - at + 1)
      /\ \A i \in 1..(at + (n - at + 1)) : r[i] = IF i <= at THEN ae[i] ELSE b[i - at]
  <2>1. /\ r \in Seq(S) /\ Len(r) = Len(ae) + Len(b)
        /\ \A i \in 1..Len(ae) + Len(b) : r[i] = IF i <= Len(ae) THEN ae[i] ELSE b[i - Len(ae)]
    BY <1>3, <1>6, ConcatProperties
  <2> HIDE DEF r
  <2> QED
    BY <1>3, <1>6, <2>1
<1> HIDE DEF r
<1>8. at + (n - at + 1) = n + 1
  BY <1>1
<1>9. ASSUME NEW i \in 1..(n + 1)
      PROVE  r[i] = IF i < at THEN q[i] ELSE IF i = at THEN e ELSE q[i - 1]
  <2>1. CASE i < at
    BY <1>1, <1>2, <1>6, <1>7, <1>8, <2>1
  <2>2. CASE i = at
    BY <1>1, <1>6, <1>7, <1>8, <2>2
  <2>3. CASE i > at
    <3>1. i - at \in 1..(n - at + 1) /\ at + (i - at) - 1 = i - 1 /\ ~(i <= at)
      BY <1>1, <2>3
    <3>2. r[i] = b[i - at] /\ b[i - at] = q[at + (i - at) - 1]
      BY <1>3, <1>7, <1>8, <3>1
    <3> QED
      BY <1>1, <2>3, <3>1, <3>2
  <2> QED
    BY <1>1, <2>1, <2>2, <2>3
<1> QED
  BY <1>5, <1>7, <1>8, <1>9 DEF n

\* The place of a new answer: behind those with ids up to its own.
LEMMA PlaceFacts ==
  ASSUME NEW q \in Seq(Entries), NEW id \in Int
  PROVE  LET m == Cardinality({i \in DOMAIN q : \A j \in 1..i : q[j].id <= id})
         IN /\ m \in 0..Len(q) /\ \A j \in 1..m : q[j].id <= id
            /\ m < Len(q) => q[m + 1].id > id
<1> DEFINE n == Len(q)
           D == {i \in DOMAIN q : \A j \in 1..i : q[j].id <= id}
           T == {i \in Nat : i # 0 /\ i \notin D}
<1>1. n \in Nat /\ DOMAIN q = 1..n /\ \A i \in 1..n : q[i].id \in Int
  <2>1. n \in Nat /\ DOMAIN q = 1..n /\ \A i \in 1..n : q[i] \in Entries
    BY LenProperties
  <2> QED
    BY <2>1, RestAssumption DEF Entries, RestIds
<1>2. n + 1 \in T
  BY <1>1
<1>3. PICK x \in T : \A y \in T : x <= y
  <2> HIDE DEF T
  <2>1. T \in SUBSET Nat
    BY DEF T
  <2> QED
    BY <1>2, <2>1, LeastOf
<1>4. x \in Nat /\ x >= 1 /\ x <= n + 1
  BY <1>1, <1>2, <1>3
<1>5. \A i \in 1..(x - 1) : i \in D
  BY <1>1, <1>3, <1>4
<1>6. ASSUME NEW i \in D PROVE i \in 1..(x - 1)
  <2>1. i \in 1..n /\ \A j \in 1..i : q[j].id <= id
    BY <1>1
  <2>2. ASSUME x <= i PROVE FALSE
    <3>1. x \in 1..n /\ \A j \in 1..x : q[j].id <= id
      BY <1>4, <2>1, <2>2
    <3> QED
      BY <1>1, <1>3, <3>1
  <2> QED
    BY <1>4, <2>1, <2>2
<1>7. D = 1..(x - 1)
  <2> HIDE DEF D
  <2> QED
    BY <1>5, <1>6
<1>8. Cardinality(D) = x - 1
  <2> DEFINE y == x - 1
  <2>1. y \in Int /\ y >= 0 /\ D = 1..y
    BY <1>4, <1>7
  <2> HIDE DEF y, D
  <2>2. Cardinality(1..y) = IF 1 > y THEN 0 ELSE y - 1 + 1
    BY <2>1, FS_Interval
  <2>3. Cardinality(D) = y
    BY <2>1, <2>2
  <2> QED
    BY <2>3 DEF y
<1>9. \A j \in 1..(x - 1) : q[j].id <= id
  BY <1>4, <1>5
<1>10. x - 1 < n => q[x].id > id
  <2>1. SUFFICES ASSUME x - 1 < n, ~(q[x].id > id) PROVE FALSE
    OBVIOUS
  <2>2. x \in 1..n /\ q[x].id <= id
    BY <1>1, <1>4, <2>1
  <2>3. \A j \in 1..x : q[j].id <= id
    BY <1>4, <1>9, <2>2
  <2> QED
    BY <1>1, <1>3, <2>2, <2>3
<1> HIDE DEF D
<1>11. /\ Cardinality(D) \in 0..n /\ \A j \in 1..Cardinality(D) : q[j].id <= id
       /\ Cardinality(D) < n => q[Cardinality(D) + 1].id > id
  BY <1>1, <1>4, <1>8, <1>9, <1>10
<1> QED
  BY <1>11 DEF D

-----------------------------------------------------------------------------
\* What sending leaves alone
SameBut(k, k2) ==
  /\ k2.open = k.open /\ k2.client = k.client /\ k2.next = k.next /\ k2.body = k.body
  /\ k2.up = k.up /\ k2.lingers = k.lingers /\ k2.lingered = k.lingered

LEMMA Bounds ==
  /\ RestIds = -1..MaxRequests /\ MaxRequests \in Nat /\ MaxBlocks \in Nat /\ MaxBlocks >= 1
  /\ MaxConns \in Nat /\ MaxClients \in Nat /\ MaxTimeout \in Nat /\ RestIds \subseteq Int
BY RestAssumption DEF RestIds

LEMMA HTTPConnFacts ==
  ASSUME NEW k \in HTTPConnObject
  PROVE  /\ k.queue \in Seq(Entries) /\ Len(k.queue) \in Nat /\ DOMAIN k.queue = 1..Len(k.queue)
         /\ \A i \in 1..Len(k.queue) : k.queue[i] \in Entries /\ k.queue[i].id \in Int
         /\ k.next \in Int /\ k.latest \in Int /\ k.buffer \in Nat /\ k.paused \in BOOLEAN
<1>1. k.queue \in Seq(Entries) /\ k.next \in RestIds /\ k.latest \in RestIds /\ k.buffer \in 0..MaxBlocks /\ k.paused \in BOOLEAN
  BY DEF HTTPConnObject, Entries
<1> DEFINE q == k.queue
<1>2. Len(q) \in Nat /\ DOMAIN q = 1..Len(q) /\ \A i \in 1..Len(q) : q[i] \in Entries
  <2> HIDE DEF q
  <2>1. q \in Seq(Entries)
    BY <1>1 DEF q
  <2> QED
    BY <2>1, LenProperties
<1>3. \A i \in 1..Len(q) : q[i].id \in Int
  BY <1>2, Bounds DEF Entries
<1> QED
  BY <1>1, <1>2, <1>3, Bounds

LEMMA SendFromBufferGood ==
  ASSUME NEW k \in HTTPConnObject
  PROVE  LET f == sendFromBuffer(k)
         IN /\ f \in HTTPConnObject /\ SameBut(k, f) /\ f.queue = k.queue /\ f.latest = k.latest
            /\ k.paused \/ k.buffer = 0 => f = k
            /\ ~k.paused /\ k.buffer # 0 => f.paused /\ f.buffer = k.buffer - 1
<1> DEFINE f == sendFromBuffer(k)
<1>1. CASE k.paused \/ k.buffer = 0
  <2>1. f = k
    BY <1>1 DEF sendFromBuffer
  <2> QED
    BY <1>1, <2>1 DEF SameBut
<1>2. CASE ~k.paused /\ k.buffer # 0
  <2> DEFINE b == k.buffer - 1
  <2>1. f = [k EXCEPT !.buffer = b, !.paused = TRUE]
    BY <1>2 DEF sendFromBuffer
  <2>2. b \in 0..MaxBlocks
    <3>1. k.buffer \in 0..MaxBlocks
      BY DEF HTTPConnObject
    <3> QED
      BY <1>2, <3>1, Bounds
  <2> HIDE DEF b, f
  <2>3. f \in HTTPConnObject
    BY <2>1, <2>2 DEF HTTPConnObject
  <2>4. SameBut(k, f) /\ f.queue = k.queue /\ f.latest = k.latest /\ f.paused /\ f.buffer = b
    BY <2>1 DEF HTTPConnObject, SameBut
  <2> QED
    BY <1>2, <2>3, <2>4 DEF b, f
<1> QED
  BY <1>1, <1>2

\* sendResponse, when the socket is free and the buffer empty.
LEMMA SendResponseGood ==
  ASSUME NEW k \in HTTPConnObject, ~k.paused, k.buffer = 0, k.queue # <<>>, k.latest + 1 \in RestIds
  PROVE  LET f == sendResponse(k)
         IN /\ f \in HTTPConnObject /\ SameBut(k, f) /\ f.queue = Tail(k.queue) /\ f.latest = k.latest + 1 /\ f.paused
<1> DEFINE h == Head(k.queue)
           b == k.buffer + h.blocks
           t == Tail(k.queue)
           g == [k EXCEPT !.buffer = b, !.queue = t]
           s == sendFromBuffer(g)
           l == s.latest + 1
           f == sendResponse(k)
<1>1. k.queue \in Seq(Entries)
  BY HTTPConnFacts
<1>2. h \in Entries /\ t \in Seq(Entries)
  BY <1>1, HeadTailProperties
<1>3. f = [s EXCEPT !.latest = l]
  BY DEF sendResponse
<1>4. b \in 1..MaxBlocks
  BY <1>2, Bounds DEF Entries
<1> HIDE DEF h, b, t
<1>5. g \in HTTPConnObject
  <2>1. b \in 0..MaxBlocks
    BY <1>4, Bounds
  <2>2. t \in Seq([id : RestIds, blocks : 1..MaxBlocks])
    BY <1>2 DEF Entries
  <2> QED
    BY ONLY <2>1, <2>2, k \in HTTPConnObject DEF HTTPConnObject
<1>6. SameBut(k, g) /\ g.queue = t /\ g.latest = k.latest /\ g.paused = k.paused /\ g.buffer = b
  BY DEF HTTPConnObject, SameBut
<1> HIDE DEF g, s, f
<1>7. s \in HTTPConnObject /\ SameBut(g, s) /\ s.queue = g.queue /\ s.latest = g.latest /\ s.paused
  BY <1>4, <1>5, <1>6, SendFromBufferGood DEF s
<1>8. l \in RestIds /\ l = k.latest + 1
  BY <1>6, <1>7
<1> HIDE DEF l
<1>9. f \in HTTPConnObject /\ SameBut(s, f) /\ f.queue = s.queue /\ f.latest = l /\ f.paused = s.paused
  BY <1>3, <1>7, <1>8 DEF HTTPConnObject, SameBut
<1>10. f \in HTTPConnObject /\ SameBut(k, f) /\ f.queue = t /\ f.latest = k.latest + 1 /\ f.paused
  BY <1>6, <1>7, <1>8, <1>9 DEF SameBut
<1> QED
  BY <1>10 DEF f, t

\* The ids of a queue of which the first has been taken.
LEMMA TailIds ==
  ASSUME NEW k \in HTTPConnObject, NEW f \in HTTPConnObject, k.queue # <<>>, f.queue = Tail(k.queue), QueueOK(k)
  PROVE  /\ Ids(f) = Ids(k) \ {Head(k.queue).id} /\ Head(k.queue).id \in Ids(k)
         /\ \A id \in Ids(k) : Head(k.queue).id <= id
         /\ \A i, j \in DOMAIN f.queue : i < j => f.queue[i].id < f.queue[j].id
<1> DEFINE q == k.queue
           n == Len(q)
           t == Tail(q)
           h == q[1].id
<1>1. q \in Seq(Entries) /\ n \in Nat /\ DOMAIN q = 1..n /\ \A i \in 1..n : q[i].id \in Int
  BY HTTPConnFacts
<1>2. n >= 1 /\ Head(q) = q[1]
  <2> HIDE DEF q
  <2> QED
    BY <1>1 DEF q
<1>3. t \in Seq(Entries) /\ Len(t) = n - 1 /\ \A i \in 1..(n - 1) : t[i] = q[i + 1]
  BY <1>1, HeadTailProperties
<1>4. DOMAIN t = 1..(n - 1)
  BY <1>1, <1>3, LenProperties
<1>5. \A i, j \in 1..n : i < j => q[i].id < q[j].id
  BY <1>1 DEF QueueOK
<1>6. Ids(f) = {t[i].id : i \in 1..(n - 1)} /\ Ids(k) = {q[i].id : i \in 1..n}
  BY <1>1, <1>4 DEF Ids
<1> HIDE DEF q, n, t, h
<1>7. h \in Ids(k) /\ \A id \in Ids(k) : h <= id
  BY <1>1, <1>2, <1>5, <1>6 DEF h
<1>8. \A id \in Ids(f) : id \in Ids(k) /\ id # h
  <2> SUFFICES ASSUME NEW i \in 1..(n - 1) PROVE t[i].id \in Ids(k) /\ t[i].id # h
    BY <1>6
  <2>1. t[i] = q[i + 1] /\ i + 1 \in 1..n /\ 1 < i + 1 /\ 1 \in 1..n
    BY <1>1, <1>2, <1>3
  <2>2. q[1].id < q[i + 1].id
    BY <1>5, <2>1
  <2> QED
    BY <1>1, <1>6, <2>1, <2>2 DEF h
<1>9. \A id \in Ids(k) : id # h => id \in Ids(f)
  <2> SUFFICES ASSUME NEW i \in 1..n, q[i].id # h PROVE q[i].id \in Ids(f)
    BY <1>6
  <2>1. i # 1
    BY DEF h
  <2>2. i - 1 \in 1..(n - 1) /\ (i - 1) + 1 = i
    BY <1>1, <2>1
  <2>3. t[i - 1] = q[i]
    BY <1>3, <2>2
  <2> QED
    BY <1>6, <2>2, <2>3
<1>10. \A i, j \in 1..(n - 1) : i < j => t[i].id < t[j].id
  <2> SUFFICES ASSUME NEW i \in 1..(n - 1), NEW j \in 1..(n - 1), i < j PROVE t[i].id < t[j].id
    OBVIOUS
  <2>1. i + 1 \in 1..n /\ j + 1 \in 1..n /\ i + 1 < j + 1 /\ t[i] = q[i + 1] /\ t[j] = q[j + 1]
    BY <1>1, <1>3
  <2> QED
    BY <1>5, <2>1
<1>11. Ids(f) = Ids(k) \ {h}
  BY <1>8, <1>9
<1>12. \A i, j \in DOMAIN f.queue : i < j => f.queue[i].id < f.queue[j].id
  BY <1>4, <1>10 DEF t, q
<1>13. Head(k.queue).id = h
  BY <1>2 DEF q, h
<1> QED
  BY <1>7, <1>11, <1>12, <1>13

\* What giving answers does to a connection: the answers to the ids in I are new.
Moves(k, f, I) ==
  /\ QueueOK(f) /\ HeldOK(f) /\ k.latest <= f.latest
  /\ \A j \in Int : k.latest < j /\ j < k.next /\ j \notin Ids(k) /\ j \notin I => f.latest < j /\ j \notin Ids(f)
  /\ \A j \in Int : f.latest < j /\ (j \in Ids(k) \/ j \in I) => j \in Ids(f)

LEMMA SendResponsesGood ==
  ASSUME NEW k \in HTTPConnObject
  PROVE  LET f == sendResponses(k)
         IN f \in HTTPConnObject /\ SameBut(k, f) /\ (QueueOK(k) => Moves(k, f, {}))
<1> DEFINE f == sendResponses(k)
           s == sendFromBuffer(k)
           h == Head(s.queue)
<1>1. /\ s \in HTTPConnObject /\ SameBut(k, s) /\ s.queue = k.queue /\ s.latest = k.latest
      /\ k.paused \/ k.buffer = 0 => s = k
      /\ ~k.paused /\ k.buffer # 0 => s.paused
  BY SendFromBufferGood
<1>2. f = IF ~s.paused /\ s.queue # << >> /\ h.id = s.latest + 1 THEN sendResponse(s) ELSE s
  BY DEF sendResponses
<1> HIDE DEF f, s
<1>3. Ids(s) = Ids(k)
  BY <1>1 DEF Ids
<1>4. s.next = k.next /\ s.latest \in Int /\ s.next \in Int
  BY <1>1, HTTPConnFacts DEF SameBut
<1>5. QueueOK(k) => QueueOK(s)
  BY <1>1, <1>3, <1>4 DEF QueueOK
<1>6. s.queue # << >> => h \in Entries
  BY <1>1, HTTPConnFacts, HeadTailProperties
<1> HIDE DEF h
<1>7. CASE ~s.paused /\ s.queue # << >> /\ h.id = s.latest + 1
  <2>1. s.buffer = 0
    BY <1>1, <1>7
  <2>2. s.latest + 1 \in RestIds
    BY <1>6, <1>7 DEF Entries
  <2>3. f = sendResponse(s)
    BY <1>2, <1>7
  <2>4. f \in HTTPConnObject /\ SameBut(s, f) /\ f.queue = Tail(s.queue) /\ f.latest = s.latest + 1 /\ f.paused
    BY <1>1, <1>7, <2>1, <2>2, <2>3, SendResponseGood
  <2>5. SameBut(k, f)
    BY <1>1, <2>4 DEF SameBut
  <2>6. ASSUME QueueOK(k) PROVE Moves(k, f, {})
    <3>1. /\ Ids(f) = Ids(s) \ {h.id} /\ h.id \in Ids(s)
          /\ \A id \in Ids(s) : h.id <= id
          /\ \A i, j \in DOMAIN f.queue : i < j => f.queue[i].id < f.queue[j].id
      BY <1>1, <1>5, <1>7, <2>4, <2>6, TailIds DEF h
    <3>2. \A id \in Ids(s) : id \in Int /\ s.latest < id /\ id < s.next
      <4>1. \A id \in Ids(s) : id \in Int
        BY <1>1, HTTPConnFacts DEF Ids
      <4> QED
        BY <1>5, <2>6, <4>1 DEF QueueOK
    <3>3. f.next = s.next
      BY <2>4 DEF SameBut
    <3>4. QueueOK(f)
      <4>1. f.latest < f.next
        BY <1>4, <1>7, <2>4, <3>1, <3>2, <3>3
      <4>2. ASSUME NEW id \in Ids(f) PROVE f.latest < id /\ id < f.next
        <5>1. id \in Ids(s) /\ id # h.id /\ h.id <= id
          BY <3>1
        <5> QED
          BY <1>4, <1>7, <2>4, <3>2, <3>3, <5>1
      <4> QED
        BY <3>1, <4>1, <4>2 DEF QueueOK
    <3>5. HeldOK(f) /\ k.latest <= f.latest
      BY <1>1, <1>4, <2>4 DEF HeldOK
    <3>6. ASSUME NEW j \in Int, k.latest < j, j \notin Ids(k) PROVE f.latest < j /\ j \notin Ids(f)
      <4>1. j # s.latest + 1
        BY <1>3, <1>7, <3>1, <3>6
      <4> QED
        BY <1>1, <1>3, <1>4, <2>4, <3>1, <3>6, <4>1
    <3>7. ASSUME NEW j \in Int, f.latest < j, j \in Ids(k) PROVE j \in Ids(f)
      BY <1>3, <1>4, <1>7, <2>4, <3>1, <3>7
    <3> QED
      BY <3>4, <3>5, <3>6, <3>7 DEF Moves
  <2> QED
    BY <2>4, <2>5, <2>6 DEF f
<1>8. CASE ~(~s.paused /\ s.queue # << >> /\ h.id = s.latest + 1)
  <2>1. f = s
    BY <1>2, <1>8
  <2>2. ASSUME QueueOK(k) PROVE HeldOK(s)
    <3>1. CASE s.paused
      BY <3>1 DEF HeldOK
    <3>2. CASE ~s.paused
      <4>1. s.buffer = 0
        BY <1>1, <3>2
      <4>2. CASE s.queue = << >>
        BY <4>1, <4>2 DEF HeldOK, Ids
      <4>3. CASE s.queue # << >>
        <5>1. h.id # s.latest + 1
          BY <1>8, <3>2, <4>3
        <5> DEFINE q == s.queue
                   m == Len(q)
        <5>2. q \in Seq(Entries) /\ m \in Nat /\ DOMAIN q = 1..m /\ \A i \in 1..m : q[i].id \in Int
          BY <1>1, HTTPConnFacts
        <5>3. m >= 1 /\ Head(q) = q[1]
          <6> HIDE DEF q
          <6> QED
            BY <4>3, <5>2 DEF q
        <5>4. \A i, j \in 1..m : i < j => q[i].id < q[j].id
          BY <1>5, <2>2, <5>2 DEF QueueOK
        <5>5. Ids(s) = {q[i].id : i \in 1..m}
          BY <5>2 DEF Ids
        <5>6. h.id = q[1].id
          BY <5>3 DEF h
        <5>7. \A id \in Ids(s) : s.latest < id
          BY <1>5, <2>2 DEF QueueOK
        <5> HIDE DEF q, m
        <5>8. \A i \in 1..m : q[1].id <= q[i].id
          BY <5>2, <5>3, <5>4
        <5>9. q[1].id \in Ids(s)
          BY <5>3, <5>2, <5>5
        <5>11. s.latest < q[1].id /\ q[1].id # s.latest + 1
          BY <5>1, <5>6, <5>7, <5>9
        <5>12. ASSUME NEW i \in 1..m PROVE q[i].id # s.latest + 1
          BY ONLY <1>4, <5>2, <5>3, <5>8, <5>11, <5>12
        <5>10. s.latest + 1 \notin Ids(s)
          BY ONLY <5>5, <5>12
        <5> QED
          BY <4>1, <5>10 DEF HeldOK
      <4> QED
        BY <4>2, <4>3
    <3> QED
      BY <3>1, <3>2
  <2>3. QueueOK(k) => Moves(k, s, {})
    BY <1>1, <1>3, <1>4, <1>5, <2>2 DEF Moves
  <2> QED
    BY <1>1, <2>1, <2>3 DEF f
<1> QED
  BY <1>7, <1>8

LEMMA QueueResponseGood ==
  ASSUME NEW k \in HTTPConnObject, NEW id \in RestIds, NEW blocks \in 1..MaxBlocks
  PROVE  LET f == queueResponse(k, id, blocks)
         IN /\ f \in HTTPConnObject /\ SameBut(k, f)
            /\ QueueOK(k) /\ k.latest < id /\ id < k.next /\ id \notin Ids(k) => Moves(k, f, {id})
<1> DEFINE q == k.queue
           n == Len(q)
           m == Cardinality({i \in DOMAIN q : \A j \in 1..i : q[j].id <= id})
           at == m + 1
           e == [id |-> id, blocks |-> blocks]
           p == InsertAt(q, at, e)
           g == [k EXCEPT !.queue = p]
           f == queueResponse(k, id, blocks)
<1>1. q \in Seq(Entries) /\ n \in Nat /\ DOMAIN q = 1..n /\ (\A i \in 1..n : q[i].id \in Int) /\ id \in Int
  BY HTTPConnFacts, Bounds
<1>2. /\ m \in 0..n /\ \A j \in 1..m : q[j].id <= id
      /\ m < n => q[m + 1].id > id
  <2> HIDE DEF q
  <2> QED
    BY <1>1, PlaceFacts
<1>3. e \in Entries /\ e.id = id
  BY DEF Entries
<1>4. f = sendResponses(g)
  BY DEF queueResponse
<1> HIDE DEF q, n, m, e, f
<1>5. at \in 1..(n + 1)
  BY <1>1, <1>2
<1> HIDE DEF at
<1>6. /\ p \in Seq(Entries) /\ Len(p) = n + 1
      /\ \A i \in 1..(n + 1) : p[i] = IF i < at THEN q[i] ELSE IF i = at THEN e ELSE q[i - 1]
  <2>1. q \in Seq(Entries) /\ e \in Entries /\ at \in 1..(Len(q) + 1) /\ n = Len(q)
    BY <1>1, <1>3, <1>5 DEF n
  <2>2. /\ p \in Seq(Entries) /\ Len(p) = Len(q) + 1
        /\ \A i \in 1..(Len(q) + 1) : p[i] = IF i < at THEN q[i] ELSE IF i = at THEN e ELSE q[i - 1]
    BY <2>1, InsertFacts
  <2> HIDE DEF p
  <2> QED
    BY ONLY <2>1, <2>2
<1> HIDE DEF p
<1>7. g \in HTTPConnObject
  <2>1. p \in Seq([id : RestIds, blocks : 1..MaxBlocks])
    BY <1>6 DEF Entries
  <2> QED
    BY ONLY <2>1, k \in HTTPConnObject DEF HTTPConnObject
<1>8. SameBut(k, g) /\ g.queue = p /\ g.latest = k.latest
  BY DEF HTTPConnObject, SameBut
<1> HIDE DEF g
<1>9. f \in HTTPConnObject /\ SameBut(g, f) /\ (QueueOK(g) => Moves(g, f, {}))
  BY <1>4, <1>7, SendResponsesGood
<1>10. SameBut(k, f)
  BY <1>8, <1>9 DEF SameBut
<1>11. ASSUME QueueOK(k), k.latest < id, id < k.next, id \notin Ids(k)
       PROVE  Moves(k, f, {id})
  <2>1. Ids(k) = {q[i].id : i \in 1..n}
    BY <1>1 DEF Ids, q
  <2>2. DOMAIN p = 1..(n + 1)
    BY <1>1, <1>6, LenProperties
  <2>3. Ids(g) = {p[i].id : i \in 1..(n + 1)}
    BY <1>8, <2>2 DEF Ids
  <2>4. Ids(g) = Ids(k) \cup {id}
    <3>1. ASSUME NEW i \in 1..(n + 1) PROVE p[i].id \in Ids(k) \cup {id}
      <4>1. CASE i < at
        <5>1. i \in 1..n /\ p[i] = q[i]
          BY <1>1, <1>5, <1>6, <4>1
        <5> QED
          BY <2>1, <5>1
      <4>2. CASE i = at
        BY <1>3, <1>6, <4>2
      <4>3. CASE i > at
        <5>1. i - 1 \in 1..n /\ p[i] = q[i - 1]
          BY <1>1, <1>5, <1>6, <4>3
        <5> QED
          BY <2>1, <5>1
      <4> QED
        BY <1>5, <4>1, <4>2, <4>3
    <3>2. id \in Ids(g)
      BY <1>3, <1>5, <1>6, <2>3
    <3>3. ASSUME NEW i \in 1..n PROVE q[i].id \in Ids(g)
      <4>1. CASE i < at
        <5>1. i \in 1..(n + 1) /\ p[i] = q[i]
          BY <1>1, <1>6, <4>1
        <5> QED
          BY <2>3, <5>1
      <4>2. CASE ~(i < at)
        <5>1. i + 1 \in 1..(n + 1) /\ ~(i + 1 < at) /\ i + 1 # at /\ (i + 1) - 1 = i
          BY <1>1, <1>5, <4>2
        <5>2. p[i + 1] = q[i]
          BY <1>6, <5>1
        <5> QED
          BY <2>3, <5>1, <5>2
      <4> QED
        BY <4>1, <4>2
    <3> QED
      BY <2>1, <2>3, <3>1, <3>2, <3>3
  <2>5. \A i, j \in 1..n : i < j => q[i].id < q[j].id
    BY <1>1, <1>11 DEF QueueOK, q
  <2>6. \A i \in 1..n : i < at => q[i].id < id
    <3> SUFFICES ASSUME NEW i \in 1..n, i < at PROVE q[i].id < id
      OBVIOUS
    <3>1. i \in 1..m
      BY <1>1, <1>2 DEF at
    <3>2. q[i].id # id
      BY <1>11, <2>1
    <3> QED
      BY <1>1, <1>2, <3>1, <3>2
  <2>7. \A i \in 1..n : i >= at => id < q[i].id
    <3> SUFFICES ASSUME NEW i \in 1..n, i >= at PROVE id < q[i].id
      OBVIOUS
    <3>1. m < n /\ at \in 1..n /\ id < q[at].id
      BY <1>1, <1>2, <1>5 DEF at
    <3>2. CASE i = at
      BY <3>1, <3>2
    <3>3. CASE i > at
      <4>1. q[at].id < q[i].id
        BY <2>5, <3>1, <3>3
      <4> QED
        BY <1>1, <3>1, <4>1
    <3> QED
      BY <1>1, <1>5, <3>2, <3>3
  <2>8. ASSUME NEW i \in 1..(n + 1), NEW j \in 1..(n + 1), i < j PROVE p[i].id < p[j].id
    <3>1. CASE j < at
      <4>1. i \in 1..n /\ j \in 1..n /\ p[i] = q[i] /\ p[j] = q[j]
        BY <1>1, <1>5, <1>6, <2>8, <3>1
      <4> QED
        BY <2>5, <2>8, <4>1
    <3>2. CASE j = at
      <4>1. i \in 1..n /\ i < at /\ p[i] = q[i] /\ p[j] = e
        BY <1>1, <1>5, <1>6, <2>8, <3>2
      <4> QED
        BY <1>3, <2>6, <4>1
    <3>3. CASE j > at
      <4>1. j - 1 \in 1..n /\ j - 1 >= at /\ p[j] = q[j - 1]
        BY <1>1, <1>5, <1>6, <2>8, <3>3
      <4>2. CASE i < at
        <5>1. i \in 1..n /\ p[i] = q[i] /\ i < j - 1
          BY <1>1, <1>5, <1>6, <3>3, <4>2
        <5> QED
          BY <2>5, <4>1, <5>1
      <4>3. CASE i = at
        <5>1. p[i] = e
          BY <1>6, <4>3
        <5> QED
          BY <1>3, <2>7, <4>1, <5>1
      <4>4. CASE i > at
        <5>1. i - 1 \in 1..n /\ p[i] = q[i - 1] /\ i - 1 < j - 1
          BY <1>1, <1>5, <1>6, <2>8, <4>4
        <5> QED
          BY <2>5, <4>1, <5>1
      <4> QED
        BY <1>5, <4>2, <4>3, <4>4
    <3> QED
      BY <1>5, <3>1, <3>2, <3>3
  <2>9. k.latest \in Int /\ k.next \in Int /\ g.next = k.next
    BY <1>8, HTTPConnFacts DEF SameBut
  <2>10. QueueOK(g)
    <3>1. \A i, j \in DOMAIN g.queue : i < j => g.queue[i].id < g.queue[j].id
      BY <1>8, <2>2, <2>8
    <3>2. \A j \in Ids(g) : g.latest < j /\ j < g.next
      BY <1>8, <1>11, <2>4, <2>9 DEF QueueOK
    <3>3. g.latest < g.next
      BY <1>8, <1>11, <2>9 DEF QueueOK
    <3> QED
      BY <3>1, <3>2, <3>3 DEF QueueOK
  <2>11. Moves(g, f, {})
    BY <1>9, <2>10
  <2> QED
    BY <1>8, <2>4, <2>9, <2>11 DEF Moves
<1> QED
  BY <1>9, <1>10, <1>11 DEF f

-----------------------------------------------------------------------------
(***************************************************************************)
(* The states the handlers pass along                                      *)
(***************************************************************************)
Kept(s, t) ==
  /\ t.asked = s.asked /\ t.flags.clients = s.flags.clients /\ t.flags.requests = s.flags.requests
  /\ \A d \in RestConns : SameBut(s.conn[d], t.conn[d])

\* The types of a state.
LEMMA StateFacts ==
  ASSUME NEW s \in RestStates
  PROVE  /\ s.conn \in [RestConns -> HTTPConnObject] /\ s.ongoing \subseteq OngoingRequest
         /\ s.asked \in [waiting : SUBSET Question, ready : SUBSET Question]
         /\ s.flags \in [clients : 0..MaxClients, requests : 0..MaxRequests, failed : BOOLEAN]
BY DEF RestStates

LEMMA OngoingFacts ==
  ASSUME NEW r \in OngoingRequest
  PROVE  /\ r.cb \in RestConns /\ r.id \in RestIds /\ r.api \in RestIds /\ r.id \in Int /\ r.api \in Int /\ r.left \in Int
         /\ r.async \in BOOLEAN /\ r.waits \subseteq Question /\ r.type \in OngoingType
BY Bounds DEF OngoingRequest, Question

\* A connection of which one answer is given.
LEMMA ConnMoves ==
  ASSUME NEW k \in HTTPConnObject, NEW f \in HTTPConnObject, NEW n, NEW I, ConnOK(k, n), SameBut(k, f),
         ~k.lingered => k.open /\ Moves(k, f, I)
  PROVE  ConnOK(f, n)
<1>1. f.next = k.next /\ f.lingered = k.lingered /\ f.open = k.open /\ f.up = k.up /\ f.lingers = k.lingers
  BY DEF SameBut
<1> QED
  BY <1>1 DEF ConnOK, Moves

LEMMA HandledGood ==
  ASSUME NEW s, NEW n \in Nat, NEW c \in RestConns, NEW id \in RestIds, NEW blocks \in 1..MaxBlocks,
         RestGoodBut(s, {<<c, id>>}, n)
  PROVE  LET t == requestHandled(s, c, id, blocks)
         IN RestGoodBut(t, {}, n) /\ Kept(s, t) /\ t.ongoing = s.ongoing
<1> DEFINE t == requestHandled(s, c, id, blocks)
           k == s.conn[c]
           f == queueResponse(k, id, blocks)
           b == s.flags.failed \/ ~k.open
           D == {<<c, id>>}
<1>1. s \in RestStates
  BY DEF RestGoodBut
<1>2. k \in HTTPConnObject /\ \A d \in RestConns : s.conn[d] \in HTTPConnObject
  BY <1>1, StateFacts
<1>3. /\ f \in HTTPConnObject /\ SameBut(k, f)
      /\ QueueOK(k) /\ k.latest < id /\ id < k.next /\ id \notin Ids(k) => Moves(k, f, {id})
  BY <1>2, QueueResponseGood
<1>4. t = [s EXCEPT !.flags.failed = b, !.conn[c] = f]
  BY DEF requestHandled
<1>5. ~k.lingered => ToCome(k, id)
  <2>1. \A p \in D : ~s.conn[p[1]].lingered => ToCome(s.conn[p[1]], p[2])
    BY DEF RestGoodBut
  <2>2. <<c, id>> \in D /\ <<c, id>>[1] = c /\ <<c, id>>[2] = id
    OBVIOUS
  <2> HIDE DEF D
  <2> QED
    BY <2>1, <2>2
<1>6. b \in BOOLEAN
  OBVIOUS
<1> HIDE DEF t, f, b
<1>7. /\ t.conn = [s.conn EXCEPT ![c] = f] /\ t.ongoing = s.ongoing /\ t.asked = s.asked
      /\ t.flags = [s.flags EXCEPT !.failed = b]
  BY <1>1, <1>4 DEF RestStates
<1>8. t \in RestStates
  <2>1. t = [conn |-> t.conn, ongoing |-> t.ongoing, asked |-> t.asked, flags |-> t.flags]
    BY <1>1, <1>4 DEF RestStates
  <2>2. t.conn \in [RestConns -> HTTPConnObject]
    BY <1>1, <1>3, <1>7, StateFacts
  <2>3. t.flags \in [clients : 0..MaxClients, requests : 0..MaxRequests, failed : BOOLEAN]
    BY <1>1, <1>6, <1>7, StateFacts
  <2>4. t.ongoing \in SUBSET OngoingRequest /\ t.asked \in [waiting : SUBSET Question, ready : SUBSET Question]
    BY <1>1, <1>7, StateFacts
  <2> QED
    BY ONLY <2>1, <2>2, <2>3, <2>4 DEF RestStates
<1>9. t.conn[c] = f /\ (\A d \in RestConns : d # c => t.conn[d] = s.conn[d])
  BY <1>1, <1>7, StateFacts
<1>10. t.flags.clients = s.flags.clients /\ t.flags.requests = s.flags.requests /\ t.flags.failed = b
  BY <1>1, <1>7, StateFacts
<1>11. Kept(s, t)
  <2>1. \A d \in RestConns : SameBut(s.conn[d], t.conn[d])
    BY <1>3, <1>9 DEF SameBut
  <2> QED
    BY <1>7, <1>10, <2>1 DEF Kept
<1>12. ~k.lingered => Moves(k, f, {id})
  <2>1. ConnOK(k, n)
    BY DEF RestGoodBut
  <2> QED
    BY <1>3, <1>5, <2>1 DEF ConnOK, ToCome
<1>13. \A d \in RestConns : t.conn[d].lingered = s.conn[d].lingered /\ t.conn[d].open = s.conn[d].open /\ t.conn[d].next = s.conn[d].next
  BY <1>11 DEF Kept, SameBut
<1> HIDE DEF k
<1>14. \A d \in RestConns : ConnOK(t.conn[d], n)
  <2> SUFFICES ASSUME NEW d \in RestConns PROVE ConnOK(t.conn[d], n)
    OBVIOUS
  <2>1. ConnOK(s.conn[d], n)
    BY DEF RestGoodBut
  <2>2. CASE d # c
    BY <1>9, <2>1, <2>2
  <2>3. CASE d = c
    <3>1. ~k.lingered => k.open
      BY <1>5 DEF ToCome
    <3>2. k \in HTTPConnObject /\ ConnOK(k, n)
      BY <1>2, <2>1, <2>3 DEF k
    <3>3. ConnOK(f, n)
      BY <1>3, <1>12, <3>1, <3>2, ConnMoves
    <3> QED
      BY <1>9, <2>3, <3>3
  <2> QED
    BY <2>2, <2>3
\* What is still to come is still to come.
<1>15. ASSUME NEW d \in RestConns, NEW j, ~s.conn[d].lingered, ToCome(s.conn[d], j), <<d, j>> # <<c, id>>
       PROVE  ToCome(t.conn[d], j)
  <2>1. CASE d # c
    BY <1>9, <1>15, <2>1
  <2>2. CASE d = c
    <3>1. j # id /\ ToCome(k, j) /\ Moves(k, f, {id})
      BY <1>12, <1>15, <2>2 DEF k
    <3>2. f.latest < j /\ j \notin Ids(f)
      BY <3>1 DEF Moves, ToCome
    <3>3. f.open = k.open /\ f.next = k.next
      BY <1>3 DEF SameBut
    <3> QED
      BY <1>9, <2>2, <3>1, <3>2, <3>3 DEF ToCome
  <2> QED
    BY <2>1, <2>2
<1>16. \A r \in t.ongoing : WaitOK(t, r, n)
  BY <1>7 DEF RestGoodBut, WaitOK
<1>17. \A r \in t.ongoing : ~t.conn[r.cb].lingered => ToCome(t.conn[r.cb], r.id) /\ <<r.cb, r.id>> \notin {}
  <2> SUFFICES ASSUME NEW r \in s.ongoing, ~t.conn[r.cb].lingered PROVE ToCome(t.conn[r.cb], r.id)
    BY <1>7
  <2>1. r.cb \in RestConns
    BY <1>1, StateFacts, OngoingFacts
  <2>2. ~s.conn[r.cb].lingered
    BY <1>13, <2>1
  <2>3. ToCome(s.conn[r.cb], r.id) /\ <<r.cb, r.id>> \notin D
    BY <2>2 DEF RestGoodBut
  <2> QED
    BY <1>15, <2>1, <2>2, <2>3
<1>18. \A r, o \in t.ongoing : ~t.conn[r.cb].lingered /\ r.cb = o.cb /\ r.id = o.id => r = o
  <2> SUFFICES ASSUME NEW r \in s.ongoing, NEW o \in s.ongoing, ~t.conn[r.cb].lingered, r.cb = o.cb, r.id = o.id PROVE r = o
    BY <1>7
  <2>1. r.cb \in RestConns
    BY <1>1, StateFacts, OngoingFacts
  <2>2. ~s.conn[r.cb].lingered
    BY <1>13, <2>1
  <2> QED
    BY <2>2 DEF RestGoodBut
<1>19. ASSUME NEW d \in RestConns, t.conn[d].open, ~t.conn[d].lingered, NEW j \in (t.conn[d].latest + 1)..(t.conn[d].next - 1)
       PROVE  \/ j \in Ids(t.conn[d]) \/ <<d, j>> \in {}
              \/ \E r \in t.ongoing : r.cb = d /\ r.id = j
  <2>1. s.conn[d].open /\ ~s.conn[d].lingered
    BY <1>13, <1>19
  <2>2. t.conn[d] \in HTTPConnObject /\ t.conn[d].latest \in Int /\ s.conn[d].latest \in Int /\ t.conn[d].next = s.conn[d].next /\ s.conn[d].next \in Int
    BY <1>2, <1>3, <1>9, <1>13, HTTPConnFacts
  <2>3. s.conn[d].latest <= t.conn[d].latest
    <3>1. CASE d = c
      BY <1>9, <1>12, <2>1, <3>1 DEF Moves, k
    <3>2. CASE d # c
      BY <1>9, <2>2, <3>2
    <3> QED
      BY <3>1, <3>2
  <2>4. j \in (s.conn[d].latest + 1)..(s.conn[d].next - 1) /\ t.conn[d].latest < j /\ j \in Int
    BY <1>19, <2>2, <2>3
  <2>5. j \in Ids(s.conn[d]) \/ <<d, j>> \in D \/ \E r \in s.ongoing : r.cb = d /\ r.id = j
    BY <2>1, <2>4 DEF RestGoodBut
  <2>6. CASE d # c
    BY <1>7, <1>9, <2>5, <2>6
  <2>7. CASE d = c
    <3>1. Moves(k, f, {id}) /\ f.latest < j
      BY <1>9, <1>12, <2>1, <2>4, <2>7 DEF k
    <3>2. j \in Ids(k) \/ j = id => j \in Ids(f)
      BY <2>4, <3>1 DEF Moves
    <3> QED
      BY <1>7, <1>9, <2>5, <2>7, <3>2 DEF k
  <2> QED
    BY <2>6, <2>7
<1>20. t.flags.failed => \E d \in RestConns : t.conn[d].lingered
  <2> SUFFICES ASSUME b PROVE \E d \in RestConns : t.conn[d].lingered
    BY <1>10
  <2>1. CASE s.flags.failed
    BY <1>13, <2>1 DEF RestGoodBut
  <2>2. CASE ~k.open
    <3>1. k.lingered
      BY <1>5, <2>2 DEF ToCome
    <3> QED
      BY <1>13, <3>1 DEF k
  <2> QED
    BY <2>1, <2>2 DEF b
<1>21. \A r, o \in t.ongoing : r.api = o.api => r = o
  BY <1>7 DEF RestGoodBut
<1>22. RestGoodBut(t, {}, n)
  BY ONLY <1>8, <1>14, <1>16, <1>17, <1>18, <1>19, <1>20, <1>21 DEF RestGoodBut
<1> QED
  BY <1>7, <1>11, <1>22 DEF t

\* An answer that is to be given at once, of a request that has waited.  q is a
\* question to a site that has been answered.
LEMMA RemovedGood ==
  ASSUME NEW s, NEW n \in Nat, NEW r \in s.ongoing, NEW u \in RestStates, RestGoodBut(s, {}, n),
         u.conn = s.conn, u.flags = s.flags, u.ongoing = s.ongoing \ {r},
         u.asked.waiting = s.asked.waiting \/ \E q \in r.waits : u.asked.waiting = s.asked.waiting \ {q}
  PROVE  RestGoodBut(u, {<<r.cb, r.id>>}, n)
<1> DEFINE D == {<<r.cb, r.id>>}
<1>1. s \in RestStates /\ s.ongoing \subseteq OngoingRequest /\ r \in OngoingRequest
  BY StateFacts DEF RestGoodBut
<1>2. /\ \A c \in RestConns : ConnOK(s.conn[c], n)
      /\ \A o \in s.ongoing : WaitOK(s, o, n)
      /\ \A p, o \in s.ongoing : p.api = o.api => p = o
      /\ \A o \in s.ongoing : ~s.conn[o.cb].lingered => ToCome(s.conn[o.cb], o.id)
      /\ \A p, o \in s.ongoing : ~s.conn[p.cb].lingered /\ p.cb = o.cb /\ p.id = o.id => p = o
      /\ s.flags.failed => \E c \in RestConns : s.conn[c].lingered
  BY DEF RestGoodBut
<1>3. ASSUME NEW o \in u.ongoing PROVE WaitOK(u, o, n)
  <2>1. o \in s.ongoing /\ o # r /\ WaitOK(s, o, n) /\ WaitOK(s, r, n)
    BY <1>2, <1>3
  <2>2. o.waits \subseteq u.asked.waiting
    <3>1. CASE u.asked.waiting = s.asked.waiting
      BY <2>1, <3>1 DEF WaitOK
    <3>2. ASSUME NEW q \in r.waits, u.asked.waiting = s.asked.waiting \ {q}
          PROVE  o.waits \subseteq u.asked.waiting
      <4>1. q \in o.waits => o.api = r.api
        BY <2>1 DEF WaitOK
      <4>2. q \notin o.waits
        BY <1>2, <2>1, <4>1
      <4> QED
        BY <2>1, <3>2, <4>2 DEF WaitOK
    <3> QED
      BY <3>1, <3>2
  <2> QED
    BY <2>1, <2>2 DEF WaitOK
<1>4. ASSUME NEW o \in u.ongoing, ~u.conn[o.cb].lingered PROVE ToCome(u.conn[o.cb], o.id) /\ <<o.cb, o.id>> \notin D
  <2>1. o \in s.ongoing /\ o # r
    OBVIOUS
  <2>2. ~(o.cb = r.cb /\ o.id = r.id)
    BY <1>2, <1>4, <2>1
  <2> QED
    BY <1>2, <1>4, <2>1, <2>2
<1>5. ASSUME NEW p \in D, ~u.conn[p[1]].lingered PROVE ToCome(u.conn[p[1]], p[2])
  BY <1>2, <1>5
<1>6. ASSUME NEW c \in RestConns, u.conn[c].open, ~u.conn[c].lingered,
             NEW id \in (u.conn[c].latest + 1)..(u.conn[c].next - 1)
      PROVE  \/ id \in Ids(u.conn[c]) \/ <<c, id>> \in D
             \/ \E o \in u.ongoing : o.cb = c /\ o.id = id
  <2>1. \/ id \in Ids(s.conn[c]) \/ \E o \in s.ongoing : o.cb = c /\ o.id = id
    BY <1>6 DEF RestGoodBut
  <2> QED
    BY <2>1
<1> HIDE DEF D
<1>7. \A c \in RestConns : ConnOK(u.conn[c], n)
  BY <1>2
<1>8. \A p, o \in u.ongoing : p.api = o.api => p = o
  BY <1>2
<1>9. \A p, o \in u.ongoing : ~u.conn[p.cb].lingered /\ p.cb = o.cb /\ p.id = o.id => p = o
  BY <1>2
<1>10. u.flags.failed => \E c \in RestConns : u.conn[c].lingered
  BY <1>2
<1>11. RestGoodBut(u, D, n)
  BY <1>3, <1>4, <1>5, <1>6, <1>7, <1>8, <1>9, <1>10 DEF RestGoodBut
<1> QED
  BY <1>11 DEF D

\* An answer to a request that has waited.
LEMMA AnsweredGood ==
  ASSUME NEW s, NEW n \in Nat, NEW r \in s.ongoing, NEW u \in RestStates, NEW blocks \in 1..MaxBlocks, RestGoodBut(s, {}, n),
         u.conn = s.conn, u.flags = s.flags, u.ongoing = s.ongoing \ {r},
         u.asked.waiting = s.asked.waiting \/ \E q \in r.waits : u.asked.waiting = s.asked.waiting \ {q}
  PROVE  LET t == requestHandled(u, r.cb, r.id, blocks)
         IN RestGoodBut(t, {}, n) /\ Kept(u, t) /\ t.ongoing = s.ongoing \ {r}
<1>1. r.cb \in RestConns /\ r.id \in RestIds
  BY StateFacts, OngoingFacts DEF RestGoodBut
<1>2. RestGoodBut(u, {<<r.cb, r.id>>}, n)
  BY RemovedGood
<1> QED
  BY <1>1, <1>2, HandledGood

LEMMA FinalizeGood ==
  ASSUME NEW s, NEW n \in Nat, NEW r \in s.ongoing, NEW blocks \in 1..MaxBlocks, RestGoodBut(s, {}, n)
  PROVE  LET t == finalize(s, r, blocks)
         IN RestGoodBut(t, {}, n) /\ Kept(s, t) /\ t.ongoing = s.ongoing \ {r}
<1> DEFINE o == s.ongoing \ {r}
           u == [s EXCEPT !.ongoing = o]
           b == IF r.type = "RAW_COMMAND" THEN blocks ELSE 1
           t == requestHandled(u, r.cb, r.id, b)
<1>1. s \in RestStates
  BY DEF RestGoodBut
<1>2. o \in SUBSET OngoingRequest
  BY <1>1, StateFacts
<1>3. b \in 1..MaxBlocks
  BY Bounds
<1>4. finalize(s, r, blocks) = t
  BY DEF finalize
<1> HIDE DEF o, b
<1>5. u \in RestStates /\ u.conn = s.conn /\ u.flags = s.flags /\ u.asked = s.asked /\ u.ongoing = o
  BY <1>1, <1>2 DEF RestStates
<1> HIDE DEF u
<1>6. RestGoodBut(t, {}, n) /\ Kept(u, t) /\ t.ongoing = s.ongoing \ {r}
  BY <1>3, <1>5, AnsweredGood DEF o
<1> HIDE DEF t
<1>7. Kept(s, t)
  BY <1>5, <1>6 DEF Kept
<1> QED
  BY <1>4, <1>6, <1>7

\* One connection has changed, and at most its requests are no longer waited for.
LEMMA ConnChangedGood ==
  ASSUME NEW s, NEW n \in Nat, NEW c \in RestConns, NEW t \in RestStates, RestGoodBut(s, {}, n),
         \A d \in RestConns : d # c => t.conn[d] = s.conn[d],
         t.ongoing \subseteq s.ongoing, \A r \in s.ongoing : r.cb # c => r \in t.ongoing,
         t.asked = s.asked, t.flags.failed = s.flags.failed,
         ConnOK(t.conn[c], n), s.conn[c].lingered => t.conn[c].lingered,
         ~t.conn[c].lingered => \A r \in t.ongoing : r.cb = c => ToCome(t.conn[c], r.id),
         t.conn[c].open /\ ~t.conn[c].lingered => \A id \in (t.conn[c].latest + 1)..(t.conn[c].next - 1) :
           id \in Ids(t.conn[c]) \/ \E r \in t.ongoing : r.cb = c /\ r.id = id
  PROVE  RestGoodBut(t, {}, n)
<1>1. /\ s \in RestStates /\ s.ongoing \subseteq OngoingRequest
      /\ \A o \in s.ongoing : o.cb \in RestConns
  BY StateFacts, OngoingFacts DEF RestGoodBut
<1>2. /\ \A d \in RestConns : ConnOK(s.conn[d], n)
      /\ \A o \in s.ongoing : WaitOK(s, o, n)
      /\ \A p, o \in s.ongoing : p.api = o.api => p = o
      /\ \A o \in s.ongoing : ~s.conn[o.cb].lingered => ToCome(s.conn[o.cb], o.id)
      /\ \A p, o \in s.ongoing : ~s.conn[p.cb].lingered /\ p.cb = o.cb /\ p.id = o.id => p = o
      /\ s.flags.failed => \E d \in RestConns : s.conn[d].lingered
  BY DEF RestGoodBut
<1>3. \A d \in RestConns : ConnOK(t.conn[d], n)
  BY <1>2
<1>4. \A o \in t.ongoing : WaitOK(t, o, n)
  BY <1>2 DEF WaitOK
<1>5. \A p, o \in t.ongoing : p.api = o.api => p = o
  BY <1>2
<1>6. \A d \in RestConns : s.conn[d].lingered => t.conn[d].lingered
  OBVIOUS
<1>7. \A o \in t.ongoing : ~t.conn[o.cb].lingered => ToCome(t.conn[o.cb], o.id) /\ <<o.cb, o.id>> \notin {}
  <2> SUFFICES ASSUME NEW o \in t.ongoing, ~t.conn[o.cb].lingered PROVE ToCome(t.conn[o.cb], o.id)
    OBVIOUS
  <2>1. CASE o.cb = c
    BY <2>1
  <2>2. CASE o.cb # c
    BY <1>1, <1>2, <1>6, <2>2
  <2> QED
    BY <2>1, <2>2
<1>8. \A p, o \in t.ongoing : ~t.conn[p.cb].lingered /\ p.cb = o.cb /\ p.id = o.id => p = o
  BY <1>1, <1>2, <1>6
<1>9. ASSUME NEW d \in RestConns, t.conn[d].open, ~t.conn[d].lingered,
             NEW id \in (t.conn[d].latest + 1)..(t.conn[d].next - 1)
      PROVE  \/ id \in Ids(t.conn[d]) \/ <<d, id>> \in {}
             \/ \E r \in t.ongoing : r.cb = d /\ r.id = id
  <2>1. CASE d = c
    BY <1>9, <2>1
  <2>2. CASE d # c
    <3>1. t.conn[d] = s.conn[d]
      BY <2>2
    <3>2. id \in Ids(s.conn[d]) \/ \E r \in s.ongoing : r.cb = d /\ r.id = id
      BY <1>9, <3>1 DEF RestGoodBut
    <3> QED
      BY <2>2, <3>1, <3>2
  <2> QED
    BY <2>1, <2>2
<1>10. t.flags.failed => \E d \in RestConns : t.conn[d].lingered
  BY <1>2, <1>6
<1> QED
  BY <1>3, <1>4, <1>5, <1>7, <1>8, <1>9, <1>10 DEF RestGoodBut

LEMMA StrongTypes ==
  ASSUME NEW s, StrongAt(s)
  PROVE  /\ s \in RestStates /\ RestGoodBut(s, {}, s.flags.requests) /\ s.flags.requests \in Nat /\ s.flags.requests <= MaxRequests
         /\ s.flags.clients \in 0..MaxClients /\ s.flags.failed \in BOOLEAN
         /\ \A c \in RestConns : s.conn[c] \in HTTPConnObject /\ ConnOK(s.conn[c], s.flags.requests) /\ BodyOK(s.conn[c], s.flags.clients)
<1>1. s \in RestStates /\ RestGoodBut(s, {}, s.flags.requests)
  BY DEF StrongAt, RestGoodBut
<1>2. s.flags.requests \in 0..MaxRequests /\ s.flags.clients \in 0..MaxClients /\ s.flags.failed \in BOOLEAN
  BY <1>1, StateFacts
<1>3. \A c \in RestConns : s.conn[c] \in HTTPConnObject
  BY <1>1, StateFacts
<1>4. \A c \in RestConns : ConnOK(s.conn[c], s.flags.requests) /\ BodyOK(s.conn[c], s.flags.clients)
  BY <1>1 DEF StrongAt, RestGoodBut
<1> QED
  BY <1>1, <1>2, <1>3, <1>4, Bounds

LEMMA BecomesStrong ==
  ASSUME NEW t, t \in RestStates, StrongAt(t), RestBecomes(t)
  PROVE  RestStrong'
<1>1. t = [conn |-> t.conn, ongoing |-> t.ongoing, asked |-> t.asked, flags |-> t.flags]
  BY DEF RestStates
<1>2. Rest' = t
  BY <1>1 DEF Rest, RestBecomes
<1> QED
  BY <1>2 DEF RestStrong

LEMMA ConnChangedStrong ==
  ASSUME NEW s, NEW c \in RestConns, NEW t \in RestStates, StrongAt(s),
         \A d \in RestConns : d # c => t.conn[d] = s.conn[d],
         t.ongoing \subseteq s.ongoing, \A r \in s.ongoing : r.cb # c => r \in t.ongoing,
         t.asked = s.asked, t.flags.failed = s.flags.failed,
         t.flags.requests = s.flags.requests, s.flags.clients <= t.flags.clients,
         ConnOK(t.conn[c], s.flags.requests), s.conn[c].lingered => t.conn[c].lingered,
         ~t.conn[c].lingered => \A r \in t.ongoing : r.cb = c => ToCome(t.conn[c], r.id),
         t.conn[c].open /\ ~t.conn[c].lingered => \A id \in (t.conn[c].latest + 1)..(t.conn[c].next - 1) :
           id \in Ids(t.conn[c]) \/ \E r \in t.ongoing : r.cb = c /\ r.id = id,
         BodyOK(t.conn[c], t.flags.clients)
  PROVE  StrongAt(t)
<1>1. s.flags.requests \in Nat /\ RestGoodBut(s, {}, s.flags.requests) /\ s.flags.clients \in Int
  BY StrongTypes
<1>2. RestGoodBut(t, {}, s.flags.requests)
  BY <1>1, ConnChangedGood
<1>3. ASSUME NEW d \in RestConns PROVE BodyOK(t.conn[d], t.flags.clients)
  <2>1. CASE d = c
    BY <2>1
  <2>2. CASE d # c
    <3>1. BodyOK(s.conn[d], s.flags.clients) /\ t.conn[d] = s.conn[d] /\ s.conn[d] \in HTTPConnObject
      BY <2>2, StrongTypes
    <3>2. t.flags.clients \in Int
      BY StateFacts, Bounds
    <3>3. s.conn[d].client \in Int /\ \A p \in s.conn[d].body : p[1] \in Int
      BY <3>1, Bounds DEF HTTPConnObject, Piece
    <3> QED
      BY <1>1, <3>1, <3>2, <3>3 DEF BodyOK
  <2> QED
    BY <2>1, <2>2
<1>4. \A r \in t.ongoing : r.left >= 0
  BY DEF StrongAt
<1> QED
  BY <1>2, <1>3, <1>4 DEF StrongAt

\* An object that has been deactivated
LEMMA ClosedStrong ==
  ASSUME NEW s, NEW c \in RestConns, NEW t \in RestStates, StrongAt(s),
         \A d \in RestConns : d # c => t.conn[d] = s.conn[d],
         t.ongoing = {r \in s.ongoing : r.cb # c \/ r.async}, t.asked = s.asked, t.flags = s.flags,
         t.conn[c].open = FALSE, t.conn[c].queue = << >>, t.conn[c].buffer = 0,
         t.conn[c].next = s.conn[c].next, t.conn[c].client = s.conn[c].client, t.conn[c].body = s.conn[c].body,
         s.conn[c].lingered => t.conn[c].lingered,
         ~t.conn[c].lingered => t.conn[c].up = FALSE /\ t.conn[c].lingers = FALSE,
         t.conn[c].up => s.conn[c].up \/ s.conn[c].open
  PROVE  StrongAt(t)
<1>1. ConnOK(s.conn[c], s.flags.requests) /\ BodyOK(s.conn[c], s.flags.clients) /\ s.flags.clients \in Int
  BY StrongTypes
<1>2. ConnOK(t.conn[c], s.flags.requests)
  BY <1>1 DEF ConnOK
<1>3. BodyOK(t.conn[c], t.flags.clients)
  BY <1>1 DEF BodyOK
<1>4. \A r \in s.ongoing : ~r.async
  BY DEF StrongAt, RestGoodBut, WaitOK
<1>5. \A r \in t.ongoing : r.cb # c
  BY <1>4
<1>6. s.flags.clients <= t.flags.clients
  BY <1>1
<1> QED
  BY <1>2, <1>3, <1>5, <1>6, ConnChangedStrong

LEMMA DeactivateFacts ==
  ASSUME NEW s \in RestStates, NEW c \in RestConns
  PROVE  LET u == deactivate(s, c)
         IN /\ u = [conn |-> [s.conn EXCEPT ![c] = [@ EXCEPT !.open = FALSE, !.queue = << >>, !.buffer = 0]],
                    ongoing |-> {r \in s.ongoing : r.cb # c \/ r.async}, asked |-> s.asked, flags |-> s.flags]
            /\ [s.conn[c] EXCEPT !.open = FALSE, !.queue = << >>, !.buffer = 0] \in HTTPConnObject
<1> DEFINE g == [s.conn[c] EXCEPT !.open = FALSE, !.queue = << >>, !.buffer = 0]
           v == [s EXCEPT !.conn[c] = g]
<1>1. s.conn \in [RestConns -> HTTPConnObject] /\ s.conn[c] \in HTTPConnObject
  BY StateFacts
<1>2. g \in HTTPConnObject
  <2>1. 0 \in 0..MaxBlocks /\ << >> \in Seq([id : RestIds, blocks : 1..MaxBlocks])
    BY Bounds
  <2> QED
    BY ONLY <2>1, <1>1 DEF HTTPConnObject
<1>3. deactivate(s, c) = [v EXCEPT !.ongoing = {r \in @ : r.cb # c \/ r.async}]
  BY DEF deactivate, cancelOngoingSyncRequests
<1> HIDE DEF g
<1>4. v = [conn |-> [s.conn EXCEPT ![c] = g], ongoing |-> s.ongoing, asked |-> s.asked, flags |-> s.flags]
  BY <1>1 DEF RestStates
<1> HIDE DEF v
<1>5. deactivate(s, c) = [conn |-> [s.conn EXCEPT ![c] = g], ongoing |-> {r \in s.ongoing : r.cb # c \/ r.async},
                          asked |-> s.asked, flags |-> s.flags]
  BY <1>3, <1>4
<1>6. [s.conn EXCEPT ![c] = g] = [s.conn EXCEPT ![c] = [@ EXCEPT !.open = FALSE, !.queue = << >>, !.buffer = 0]]
  BY DEF g
<1> QED
  BY <1>2, <1>5, <1>6 DEF g

-----------------------------------------------------------------------------
(***************************************************************************)
(* The steps of the connections                                            *)
(***************************************************************************)
LEMMA DisconnectedStep ==
  ASSUME NEW c \in RestConns, RestStrong, FDDisconnectedHTTP(c)
  PROVE  RestStrong'
<1> DEFINE s == Rest
           u == deactivate(s, c)
           g == [s.conn[c] EXCEPT !.open = FALSE, !.queue = << >>, !.buffer = 0]
           f == [g EXCEPT !.up = FALSE]
           t == [u EXCEPT !.conn[c].up = FALSE]
<1>1. StrongAt(s) /\ RestBecomes(t)
  BY DEF RestStrong, FDDisconnectedHTTP
<1> HIDE DEF s
<1>2. s \in RestStates /\ s.conn \in [RestConns -> HTTPConnObject] /\ s.conn[c] \in HTTPConnObject
  BY <1>1, StrongTypes, StateFacts
<1>3. /\ u = [conn |-> [s.conn EXCEPT ![c] = g], ongoing |-> {r \in s.ongoing : r.cb # c \/ r.async},
              asked |-> s.asked, flags |-> s.flags]
      /\ g \in HTTPConnObject
  BY <1>2, DeactivateFacts
<1>4. g.open = FALSE /\ g.queue = <<>> /\ g.buffer = 0 /\ g.next = s.conn[c].next /\ g.client = s.conn[c].client
      /\ g.body = s.conn[c].body /\ g.lingered = s.conn[c].lingered /\ g.lingers = s.conn[c].lingers
  BY <1>2 DEF HTTPConnObject
<1> HIDE DEF u, g
<1>5. /\ f \in HTTPConnObject
      /\ f.open = FALSE /\ f.queue = <<>> /\ f.buffer = 0 /\ f.next = s.conn[c].next /\ f.client = s.conn[c].client
      /\ f.body = s.conn[c].body /\ f.lingered = s.conn[c].lingered /\ f.lingers = s.conn[c].lingers /\ f.up = FALSE
  BY <1>3, <1>4 DEF HTTPConnObject
<1>6. t = [conn |-> [s.conn EXCEPT ![c] = f], ongoing |-> {r \in s.ongoing : r.cb # c \/ r.async},
           asked |-> s.asked, flags |-> s.flags]
  <2> DEFINE h == [s.conn EXCEPT ![c] = g]
             o == {r \in s.ongoing : r.cb # c \/ r.async}
  <2>1. [h EXCEPT ![c].up = FALSE] = [s.conn EXCEPT ![c] = f]
    BY <1>2
  <2>2. u = [conn |-> h, ongoing |-> o, asked |-> s.asked, flags |-> s.flags]
    BY <1>3
  <2> HIDE DEF h, o, f
  <2>3. t = [u EXCEPT !.conn = [h EXCEPT ![c].up = FALSE]]
    BY <2>2
  <2> HIDE DEF t
  <2>4. t = [conn |-> [h EXCEPT ![c].up = FALSE], ongoing |-> o, asked |-> s.asked, flags |-> s.flags]
    BY <2>2, <2>3
  <2> QED
    BY <2>1, <2>4 DEF o
<1> HIDE DEF f, t
<1>7. t.conn[c] = f /\ (\A d \in RestConns : d # c => t.conn[d] = s.conn[d]) /\ t.conn \in [RestConns -> HTTPConnObject]
  BY <1>2, <1>5, <1>6
<1>8. t.ongoing = {r \in s.ongoing : r.cb # c \/ r.async} /\ t.asked = s.asked /\ t.flags = s.flags
  BY <1>6
<1>9. t \in RestStates
  <2>1. t = [conn |-> t.conn, ongoing |-> t.ongoing, asked |-> t.asked, flags |-> t.flags]
    BY <1>6
  <2>2. t.ongoing \in SUBSET OngoingRequest /\ t.asked \in [waiting : SUBSET Question, ready : SUBSET Question]
        /\ t.flags \in [clients : 0..MaxClients, requests : 0..MaxRequests, failed : BOOLEAN]
    BY <1>2, <1>8, StateFacts
  <2> QED
    BY ONLY <1>7, <2>1, <2>2 DEF RestStates
<1>10. ~s.conn[c].lingered => s.conn[c].lingers = FALSE
  <2>1. ConnOK(s.conn[c], s.flags.requests) /\ s.conn[c].lingers \in BOOLEAN
    BY <1>1, <1>2, StrongTypes DEF HTTPConnObject
  <2> QED
    BY <2>1 DEF ConnOK
<1>12. /\ t.conn[c].open = FALSE /\ t.conn[c].queue = << >> /\ t.conn[c].buffer = 0
       /\ t.conn[c].next = s.conn[c].next /\ t.conn[c].client = s.conn[c].client /\ t.conn[c].body = s.conn[c].body
       /\ s.conn[c].lingered => t.conn[c].lingered
       /\ ~t.conn[c].lingered => t.conn[c].up = FALSE /\ t.conn[c].lingers = FALSE
       /\ t.conn[c].up => s.conn[c].up \/ s.conn[c].open
  BY <1>1, <1>5, <1>7, <1>10
<1>11. StrongAt(t)
  BY ONLY <1>1, <1>7, <1>8, <1>9, <1>12, ClosedStrong, c \in RestConns
<1> QED
  BY <1>1, <1>9, <1>11, BecomesStrong

LEMMA RespondStep ==
  ASSUME NEW c \in RestConns, RestStrong, respondAndClose(c)
  PROVE  RestStrong'
<1> DEFINE s == Rest
           u == deactivate(s, c)
           g == [s.conn[c] EXCEPT !.open = FALSE, !.queue = << >>, !.buffer = 0]
<1>1. StrongAt(s) /\ s.conn[c].open
  BY DEF RestStrong, respondAndClose, Rest
<1>1a. PICK x \in BOOLEAN : RestBecomes([u EXCEPT !.conn[c].up = x, !.conn[c].lingered = @ \/ x])
  BY DEF respondAndClose
<1> DEFINE f == [g EXCEPT !.up = x, !.lingered = @ \/ x]
           t == [u EXCEPT !.conn[c].up = x, !.conn[c].lingered = @ \/ x]
<1>0. RestBecomes(t)
  BY <1>1a
<1> HIDE DEF s
<1>2. s \in RestStates /\ s.conn \in [RestConns -> HTTPConnObject] /\ s.conn[c] \in HTTPConnObject
  BY <1>1, StrongTypes, StateFacts
<1>3. /\ u = [conn |-> [s.conn EXCEPT ![c] = g], ongoing |-> {r \in s.ongoing : r.cb # c \/ r.async},
              asked |-> s.asked, flags |-> s.flags]
      /\ g \in HTTPConnObject
  BY <1>2, DeactivateFacts
<1>4. g.open = FALSE /\ g.queue = <<>> /\ g.buffer = 0 /\ g.next = s.conn[c].next /\ g.client = s.conn[c].client
      /\ g.body = s.conn[c].body /\ g.lingered = s.conn[c].lingered /\ g.lingers = s.conn[c].lingers /\ g.up = s.conn[c].up
  BY <1>2 DEF HTTPConnObject
<1> HIDE DEF u, g
<1>5. /\ f \in HTTPConnObject
      /\ f.open = FALSE /\ f.queue = <<>> /\ f.buffer = 0 /\ f.next = s.conn[c].next /\ f.client = s.conn[c].client
      /\ f.body = s.conn[c].body /\ f.lingered = (s.conn[c].lingered \/ x) /\ f.lingers = s.conn[c].lingers /\ f.up = x
  BY <1>3, <1>4 DEF HTTPConnObject
<1>6. t = [conn |-> [s.conn EXCEPT ![c] = f], ongoing |-> {r \in s.ongoing : r.cb # c \/ r.async},
           asked |-> s.asked, flags |-> s.flags]
  <2> DEFINE h == [s.conn EXCEPT ![c] = g]
             o == {r \in s.ongoing : r.cb # c \/ r.async}
             h2 == [h EXCEPT ![c].up = x, ![c].lingered = @ \/ x]
  <2>1. h2 = [s.conn EXCEPT ![c] = f]
    BY <1>2
  <2>2. u = [conn |-> h, ongoing |-> o, asked |-> s.asked, flags |-> s.flags]
    BY <1>3
  <2> HIDE DEF h, o, f
  <2>3. t = [u EXCEPT !.conn = h2]
    BY <2>2
  <2> HIDE DEF t, h2
  <2>4. t = [conn |-> h2, ongoing |-> o, asked |-> s.asked, flags |-> s.flags]
    BY <2>2, <2>3
  <2> QED
    BY <2>1, <2>4 DEF o
<1> HIDE DEF f, t
<1>7. t.conn[c] = f /\ (\A d \in RestConns : d # c => t.conn[d] = s.conn[d]) /\ t.conn \in [RestConns -> HTTPConnObject]
  BY <1>2, <1>5, <1>6
<1>8. t.ongoing = {r \in s.ongoing : r.cb # c \/ r.async} /\ t.asked = s.asked /\ t.flags = s.flags
  BY <1>6
<1>9. t \in RestStates
  <2>1. t = [conn |-> t.conn, ongoing |-> t.ongoing, asked |-> t.asked, flags |-> t.flags]
    BY <1>6
  <2>2. t.ongoing \in SUBSET OngoingRequest /\ t.asked \in [waiting : SUBSET Question, ready : SUBSET Question]
        /\ t.flags \in [clients : 0..MaxClients, requests : 0..MaxRequests, failed : BOOLEAN]
    BY <1>2, <1>8, StateFacts
  <2> QED
    BY ONLY <1>7, <2>1, <2>2 DEF RestStates
<1>10. ~s.conn[c].lingered => s.conn[c].lingers = FALSE
  <2>1. ConnOK(s.conn[c], s.flags.requests) /\ s.conn[c].lingers \in BOOLEAN
    BY <1>1, <1>2, StrongTypes DEF HTTPConnObject
  <2> QED
    BY <2>1 DEF ConnOK
<1>10a. ~f.lingered => f.up = FALSE /\ f.lingers = FALSE
  BY <1>5, <1>10
<1>10b. f.up => s.conn[c].up \/ s.conn[c].open
  BY <1>1
<1>10c. s.conn[c].lingered => f.lingered
  BY <1>5
<1>10d. /\ t.conn[c].open = FALSE /\ t.conn[c].queue = << >> /\ t.conn[c].buffer = 0
        /\ t.conn[c].next = s.conn[c].next /\ t.conn[c].client = s.conn[c].client /\ t.conn[c].body = s.conn[c].body
  BY <1>5, <1>7
<1>10e. /\ s.conn[c].lingered => t.conn[c].lingered
        /\ ~t.conn[c].lingered => t.conn[c].up = FALSE /\ t.conn[c].lingers = FALSE
        /\ t.conn[c].up => s.conn[c].up \/ s.conn[c].open
  BY <1>7, <1>10a, <1>10b, <1>10c
<1>11. StrongAt(t)
  BY ONLY c \in RestConns, <1>1, <1>7, <1>8, <1>9, <1>10d, <1>10e, ClosedStrong
<1> QED
  BY <1>0, <1>9, <1>11, BecomesStrong

LEMMA FormerStep ==
  ASSUME NEW c \in RestConns, RestStrong, FDDisconnectedFormer(c)
  PROVE  RestStrong'
<1> DEFINE s == Rest
           u == deactivate(s, c)
           g == [s.conn[c] EXCEPT !.open = FALSE, !.queue = << >>, !.buffer = 0]
<1>1. StrongAt(s) /\ s.conn[c].lingers
  BY DEF RestStrong, FDDisconnectedFormer, Rest
<1> DEFINE f == [g EXCEPT !.lingers = FALSE]
           t == [u EXCEPT !.conn[c].lingers = FALSE]
<1>0. RestBecomes(t)
  BY DEF FDDisconnectedFormer
<1> HIDE DEF s
<1>2. s \in RestStates /\ s.conn \in [RestConns -> HTTPConnObject] /\ s.conn[c] \in HTTPConnObject
  BY <1>1, StrongTypes, StateFacts
<1>3. /\ u = [conn |-> [s.conn EXCEPT ![c] = g], ongoing |-> {r \in s.ongoing : r.cb # c \/ r.async},
              asked |-> s.asked, flags |-> s.flags]
      /\ g \in HTTPConnObject
  BY <1>2, DeactivateFacts
<1>4. g.open = FALSE /\ g.queue = <<>> /\ g.buffer = 0 /\ g.next = s.conn[c].next /\ g.client = s.conn[c].client
      /\ g.body = s.conn[c].body /\ g.lingered = s.conn[c].lingered /\ g.lingers = s.conn[c].lingers /\ g.up = s.conn[c].up
  BY <1>2 DEF HTTPConnObject
<1> HIDE DEF u, g
<1>5. /\ f \in HTTPConnObject
      /\ f.open = FALSE /\ f.queue = <<>> /\ f.buffer = 0 /\ f.next = s.conn[c].next /\ f.client = s.conn[c].client
      /\ f.body = s.conn[c].body /\ f.lingered = s.conn[c].lingered /\ f.lingers = FALSE /\ f.up = s.conn[c].up
  BY <1>3, <1>4 DEF HTTPConnObject
<1>6. t = [conn |-> [s.conn EXCEPT ![c] = f], ongoing |-> {r \in s.ongoing : r.cb # c \/ r.async},
           asked |-> s.asked, flags |-> s.flags]
  <2> DEFINE h == [s.conn EXCEPT ![c] = g]
             o == {r \in s.ongoing : r.cb # c \/ r.async}
             h2 == [h EXCEPT ![c].lingers = FALSE]
  <2>1. h2 = [s.conn EXCEPT ![c] = f]
    BY <1>2
  <2>2. u = [conn |-> h, ongoing |-> o, asked |-> s.asked, flags |-> s.flags]
    BY <1>3
  <2> HIDE DEF h, o, f
  <2>3. t = [u EXCEPT !.conn = h2]
    BY <2>2
  <2> HIDE DEF t, h2
  <2>4. t = [conn |-> h2, ongoing |-> o, asked |-> s.asked, flags |-> s.flags]
    BY <2>2, <2>3
  <2> QED
    BY <2>1, <2>4 DEF o
<1> HIDE DEF f, t
<1>7. t.conn[c] = f /\ (\A d \in RestConns : d # c => t.conn[d] = s.conn[d]) /\ t.conn \in [RestConns -> HTTPConnObject]
  BY <1>2, <1>5, <1>6
<1>8. t.ongoing = {r \in s.ongoing : r.cb # c \/ r.async} /\ t.asked = s.asked /\ t.flags = s.flags
  BY <1>6
<1>9. t \in RestStates
  <2>1. t = [conn |-> t.conn, ongoing |-> t.ongoing, asked |-> t.asked, flags |-> t.flags]
    BY <1>6
  <2>2. t.ongoing \in SUBSET OngoingRequest /\ t.asked \in [waiting : SUBSET Question, ready : SUBSET Question]
        /\ t.flags \in [clients : 0..MaxClients, requests : 0..MaxRequests, failed : BOOLEAN]
    BY <1>2, <1>8, StateFacts
  <2> QED
    BY ONLY <1>7, <2>1, <2>2 DEF RestStates
<1>10. ~s.conn[c].lingered => s.conn[c].lingers = FALSE
  <2>1. ConnOK(s.conn[c], s.flags.requests) /\ s.conn[c].lingers \in BOOLEAN
    BY <1>1, <1>2, StrongTypes DEF HTTPConnObject
  <2> QED
    BY <2>1 DEF ConnOK
<1>13. s.conn[c].lingers => s.conn[c].lingered
  BY <1>10
<1>12. /\ t.conn[c].open = FALSE /\ t.conn[c].queue = << >> /\ t.conn[c].buffer = 0
       /\ t.conn[c].next = s.conn[c].next /\ t.conn[c].client = s.conn[c].client /\ t.conn[c].body = s.conn[c].body
       /\ s.conn[c].lingered => t.conn[c].lingered
       /\ ~t.conn[c].lingered => t.conn[c].up = FALSE /\ t.conn[c].lingers = FALSE
       /\ t.conn[c].up => s.conn[c].up \/ s.conn[c].open
  BY <1>1, <1>5, <1>7, <1>10, <1>13
<1>11. StrongAt(t)
  BY ONLY <1>1, <1>7, <1>8, <1>9, <1>12, ClosedStrong, c \in RestConns
<1> QED
  BY <1>0, <1>9, <1>11, BecomesStrong

\* A state in which one connection has been replaced.
Replaced(s, c, f) == [s EXCEPT !.conn[c] = f]

LEMMA ReplacedFacts ==
  ASSUME NEW s \in RestStates, NEW c \in RestConns, NEW f \in HTTPConnObject
  PROVE  LET t == Replaced(s, c, f)
         IN /\ t \in RestStates /\ t.conn[c] = f /\ \A d \in RestConns : d # c => t.conn[d] = s.conn[d]
            /\ t.ongoing = s.ongoing /\ t.asked = s.asked /\ t.flags = s.flags
<1> DEFINE t == Replaced(s, c, f)
<1>1. /\ s.conn \in [RestConns -> HTTPConnObject] /\ s.ongoing \in SUBSET OngoingRequest
      /\ s.asked \in [waiting : SUBSET Question, ready : SUBSET Question]
      /\ s.flags \in [clients : 0..MaxClients, requests : 0..MaxRequests, failed : BOOLEAN]
  BY StateFacts
<1> DEFINE h == [s.conn EXCEPT ![c] = f]
<1>2. t = [s EXCEPT !.conn = h]
  BY DEF Replaced
<1>3. h \in [RestConns -> HTTPConnObject] /\ h[c] = f /\ \A d \in RestConns : d # c => h[d] = s.conn[d]
  BY <1>1
<1> HIDE DEF h, t
<1>4. t.conn = h /\ t.ongoing = s.ongoing /\ t.asked = s.asked /\ t.flags = s.flags
  BY <1>2 DEF RestStates
<1>5. t \in RestStates
  BY <1>2, <1>3 DEF RestStates
<1> QED
  BY <1>3, <1>4, <1>5 DEF t

LEMMA NewStep ==
  ASSUME NEW c \in RestConns, RestStrong, FDNew(c)
  PROVE  RestStrong'
<1> DEFINE s == Rest
           m == restFlags.clients + 1
           v == [s EXCEPT !.flags.clients = @ + 1]
           k == hconn[c]
           l == k.lingers \/ k.up
           f == [v.conn[c] EXCEPT !.open = TRUE, !.up = TRUE, !.lingers = hconn[c].lingers \/ hconn[c].up,
                  !.client = restFlags.clients + 1, !.next = 0, !.latest = -1, !.paused = FALSE]
           t == [v EXCEPT !.conn[c] = f]
<1>1. StrongAt(s) /\ ~k.open /\ s.flags.clients < MaxClients /\ m = s.flags.clients + 1 /\ k = s.conn[c]
  BY DEF RestStrong, FDNew, Rest
<1>2. RestBecomes(t)
  BY DEF FDNew
<1>2a. v = [s EXCEPT !.flags.clients = m] /\ v.conn[c] = k
  BY DEF Rest
<1>2b. f = [k EXCEPT !.open = TRUE, !.up = TRUE, !.lingers = l, !.client = m, !.next = 0, !.latest = -1, !.paused = FALSE]
  BY <1>2a
<1> HIDE DEF s
<1>3. s \in RestStates /\ k \in HTTPConnObject /\ ConnOK(k, s.flags.requests) /\ BodyOK(k, s.flags.clients)
      /\ s.flags.clients \in 0..MaxClients /\ s.flags.requests \in Nat
  BY <1>1, StrongTypes
<1> HIDE DEF m, v
<1>4. m \in 1..MaxClients /\ m > s.flags.clients /\ l \in BOOLEAN
  BY <1>1, <1>3, Bounds
<1>5. -1 \in RestIds /\ 0 \in RestIds
  BY Bounds
<1> HIDE DEF k, l, f
<1>6. f \in HTTPConnObject
  <2>1. m \in 0..MaxClients
    BY <1>4
  <2> QED
    BY <1>2b, <1>3, <1>4, <1>5, <2>1 DEF HTTPConnObject
<1>7. f.open /\ f.up /\ f.lingers = l /\ f.client = m /\ f.next = 0 /\ f.latest = -1 /\ f.paused = FALSE
      /\ f.queue = k.queue /\ f.buffer = k.buffer /\ f.body = k.body /\ f.lingered = k.lingered
  BY <1>2b, <1>3 DEF HTTPConnObject
<1>8. /\ v \in RestStates /\ v.conn = s.conn /\ v.ongoing = s.ongoing /\ v.asked = s.asked
      /\ v.flags.clients = m /\ v.flags.requests = s.flags.requests /\ v.flags.failed = s.flags.failed
  <2> DEFINE g == [s.flags EXCEPT !.clients = m]
  <2>1. g \in [clients : 0..MaxClients, requests : 0..MaxRequests, failed : BOOLEAN]
        /\ g.clients = m /\ g.requests = s.flags.requests /\ g.failed = s.flags.failed
    <3>1. s.flags \in [clients : 0..MaxClients, requests : 0..MaxRequests, failed : BOOLEAN] /\ m \in 0..MaxClients
      BY <1>3, <1>4, StateFacts
    <3> QED
      BY <3>1
  <2>2. v = [s EXCEPT !.flags = g]
    BY <1>2a
  <2> HIDE DEF g
  <2> QED
    BY <1>3, <2>1, <2>2 DEF RestStates
<1>9a. t = Replaced(v, c, f)
  BY DEF Replaced
<1> HIDE DEF t
<1>9. /\ t \in RestStates /\ t.conn[c] = f /\ \A d \in RestConns : d # c => t.conn[d] = v.conn[d]
      /\ t.ongoing = v.ongoing /\ t.asked = v.asked /\ t.flags = v.flags
  BY <1>6, <1>8, <1>9a, ReplacedFacts
<1>10. ~f.lingered => k.queue = <<>> /\ k.buffer = 0 /\ ~l
  BY <1>1, <1>3, <1>7 DEF ConnOK, l
<1>11. ~f.lingered => QueueOK(f) /\ HeldOK(f) /\ Ids(f) = {}
  <2> SUFFICES ASSUME ~f.lingered PROVE QueueOK(f) /\ HeldOK(f) /\ Ids(f) = {}
    OBVIOUS
  <2>1. f.queue = <<>>
    BY <1>7, <1>10
  <2>2. Ids(f) = {}
    BY <2>1 DEF Ids
  <2> QED
    BY <1>7, <1>10, <2>1, <2>2 DEF QueueOK, HeldOK
<1>12. ConnOK(f, s.flags.requests)
  <2>1. 0 \in 0..s.flags.requests
    BY <1>3
  <2> QED
    BY <1>7, <1>10, <1>11, <2>1 DEF ConnOK
<1>13. BodyOK(f, m)
  <2>1. \A p \in f.body : p[1] <= s.flags.clients /\ p[1] \in Int
    BY <1>3, <1>7, Bounds DEF BodyOK, HTTPConnObject, Piece
  <2>2. s.flags.clients \in Int /\ m \in Int /\ m >= 1
    BY <1>3, <1>4, Bounds
  <2> QED
    BY <1>4, <1>7, <2>1, <2>2 DEF BodyOK
<1>14. ~f.lingered => \A r \in s.ongoing : r.cb # c
  <2>1. \A r \in s.ongoing : ~s.conn[r.cb].lingered => s.conn[r.cb].open
    BY <1>1 DEF StrongAt, RestGoodBut, ToCome
  <2> QED
    BY <1>1, <1>7, <2>1
<1>15. (f.latest + 1)..(f.next - 1) = {}
  BY <1>7
<1>16. s.flags.clients <= m
  BY <1>3, <1>4, Bounds
<1>17. StrongAt(t)
  BY <1>1, <1>7, <1>8, <1>9, <1>12, <1>13, <1>14, <1>15, <1>16, ConnChangedStrong
<1> QED
  BY <1>2, <1>9, <1>17, BecomesStrong

LEMMA SendCompleteStep ==
  ASSUME NEW c \in RestConns, RestStrong, FDSendComplete(c)
  PROVE  RestStrong'
<1> DEFINE s == Rest
           k == s.conn[c]
           g == [k EXCEPT !.paused = FALSE]
           f == sendResponses(g)
           t == [s EXCEPT !.conn[c] = f]
<1>1. StrongAt(s) /\ k.open /\ k.paused
  BY DEF RestStrong, FDSendComplete, Rest
<1>2. RestBecomes(t)
  BY DEF FDSendComplete
<1> HIDE DEF s
<1>3. s \in RestStates /\ k \in HTTPConnObject /\ ConnOK(k, s.flags.requests) /\ BodyOK(k, s.flags.clients)
      /\ s.flags.clients \in Int
  BY <1>1, StrongTypes
<1> HIDE DEF k
<1>4. g \in HTTPConnObject /\ SameBut(k, g) /\ g.queue = k.queue /\ g.latest = k.latest
  BY <1>3 DEF HTTPConnObject, SameBut
<1> HIDE DEF g
<1>5. f \in HTTPConnObject /\ SameBut(g, f) /\ (QueueOK(g) => Moves(g, f, {}))
  BY <1>4, SendResponsesGood
<1> HIDE DEF f
<1>6. SameBut(k, f)
  BY <1>4, <1>5 DEF SameBut
<1>7. QueueOK(k) => Moves(k, f, {})
  <2>1. Ids(g) = Ids(k) /\ g.next = k.next
    BY <1>4 DEF Ids, SameBut
  <2>2. QueueOK(k) => QueueOK(g)
    BY <1>4, <2>1 DEF QueueOK
  <2> QED
    BY <1>4, <1>5, <2>1, <2>2 DEF Moves
<1>8. ~k.lingered => Moves(k, f, {})
  BY <1>1, <1>3, <1>7 DEF ConnOK
<1>9. ConnOK(f, s.flags.requests)
  BY <1>1, <1>3, <1>5, <1>6, <1>8, ConnMoves
<1>10. BodyOK(f, s.flags.clients)
  BY <1>3, <1>6 DEF BodyOK, SameBut
<1>11a. t = Replaced(s, c, f)
  BY DEF Replaced
<1> HIDE DEF t
<1>11. /\ t \in RestStates /\ t.conn[c] = f /\ \A d \in RestConns : d # c => t.conn[d] = s.conn[d]
       /\ t.ongoing = s.ongoing /\ t.asked = s.asked /\ t.flags = s.flags
  BY <1>3, <1>5, <1>11a, ReplacedFacts
<1>12. f.lingered = k.lingered /\ f.open = k.open /\ f.next = k.next
  BY <1>6 DEF SameBut
<1>13. ASSUME ~f.lingered, NEW r \in t.ongoing, r.cb = c PROVE ToCome(f, r.id)
  <2>1. ToCome(k, r.id)
    BY <1>1, <1>11, <1>12, <1>13 DEF StrongAt, RestGoodBut, k
  <2> QED
    BY <1>8, <1>12, <1>13, <2>1 DEF ToCome, Moves
<1>14. ASSUME f.open, ~f.lingered, NEW id \in (f.latest + 1)..(f.next - 1)
       PROVE  id \in Ids(f) \/ \E r \in t.ongoing : r.cb = c /\ r.id = id
  <2>1. k.latest \in Int /\ f.latest \in Int /\ f.next \in Int /\ k.latest <= f.latest
    BY <1>3, <1>5, <1>8, <1>12, <1>14, HTTPConnFacts DEF Moves
  <2>2. id \in Int /\ f.latest < id /\ id \in (k.latest + 1)..(k.next - 1)
    BY <1>12, <1>14, <2>1
  <2>3. id \in Ids(k) \/ \E r \in s.ongoing : r.cb = c /\ r.id = id
    BY <1>1, <1>12, <1>14, <2>2 DEF StrongAt, RestGoodBut, k
  <2> QED
    BY <1>8, <1>11, <1>12, <1>14, <2>2, <2>3 DEF Moves
<1>15. StrongAt(t)
  BY <1>1, <1>3, <1>9, <1>10, <1>11, <1>12, <1>13, <1>14, ConnChangedStrong DEF k
<1> QED
  BY <1>2, <1>11, <1>15, BecomesStrong

LEMMA BodyStep ==
  ASSUME NEW c \in RestConns, RestStrong, BodyArrives(c)
  PROVE  RestStrong'
<1> DEFINE s == Rest
           k == s.conn[c]
           b == k.body \cup {<<k.client, k.next>>}
           f == [k EXCEPT !.body = b]
           t == [s EXCEPT !.conn[c] = f]
<1>1. StrongAt(s) /\ k.up
  BY DEF RestStrong, BodyArrives, Rest
<1>2. RestBecomes(t)
  BY DEF BodyArrives, Rest
<1> HIDE DEF s
<1>3. s \in RestStates /\ k \in HTTPConnObject /\ ConnOK(k, s.flags.requests) /\ BodyOK(k, s.flags.clients)
      /\ s.flags.clients \in Int
  BY <1>1, StrongTypes
<1> HIDE DEF k
<1>4. b \in SUBSET Piece
  <2>1. k.client \in 1..MaxClients /\ k.next \in RestIds /\ k.body \subseteq Piece
    BY <1>1, <1>3, Bounds DEF HTTPConnObject, BodyOK
  <2> QED
    BY <2>1 DEF Piece
<1>5. BodyOK(f, s.flags.clients)
  <2>1. f.client = k.client /\ f.up = k.up /\ f.open = k.open /\ f.lingered = k.lingered /\ f.next = k.next /\ f.body = b
    BY <1>3 DEF HTTPConnObject
  <2>2. ASSUME NEW p \in b
        PROVE  p[1] <= s.flags.clients /\ (p[1] = k.client /\ k.open /\ ~k.lingered => p[2] = k.next)
    BY <1>3, <2>2 DEF BodyOK
  <2>3. k.client <= s.flags.clients /\ (k.up \/ k.open => k.client >= 1)
    BY <1>3 DEF BodyOK
  <2> HIDE DEF b, f
  <2> QED
    BY <2>1, <2>2, <2>3 DEF BodyOK
<1> HIDE DEF b
<1>6. f \in HTTPConnObject /\ f.queue = k.queue /\ f.latest = k.latest /\ f.paused = k.paused /\ f.buffer = k.buffer
      /\ f.open = k.open /\ f.client = k.client /\ f.next = k.next /\ f.up = k.up /\ f.lingers = k.lingers /\ f.lingered = k.lingered
  BY <1>3, <1>4 DEF HTTPConnObject
<1> HIDE DEF f
<1>7. Ids(f) = Ids(k)
  BY <1>6 DEF Ids
<1>8. ConnOK(f, s.flags.requests)
  BY <1>3, <1>6, <1>7 DEF ConnOK, QueueOK, HeldOK
<1>9a. t = Replaced(s, c, f)
  BY DEF Replaced
<1> HIDE DEF t
<1>9. /\ t \in RestStates /\ t.conn[c] = f /\ \A d \in RestConns : d # c => t.conn[d] = s.conn[d]
      /\ t.ongoing = s.ongoing /\ t.asked = s.asked /\ t.flags = s.flags
  BY <1>3, <1>6, <1>9a, ReplacedFacts
<1>10. ASSUME ~f.lingered, NEW r \in t.ongoing, r.cb = c PROVE ToCome(f, r.id)
  <2>1. ToCome(k, r.id)
    BY <1>1, <1>6, <1>9, <1>10 DEF StrongAt, RestGoodBut, k
  <2> QED
    BY <1>6, <1>7, <2>1 DEF ToCome
<1>11. ASSUME f.open, ~f.lingered, NEW id \in (f.latest + 1)..(f.next - 1)
       PROVE  id \in Ids(f) \/ \E r \in t.ongoing : r.cb = c /\ r.id = id
  <2>1. id \in (k.latest + 1)..(k.next - 1)
    BY <1>6
  <2>2. id \in Ids(k) \/ \E r \in s.ongoing : r.cb = c /\ r.id = id
    BY <1>1, <1>6, <1>11, <2>1 DEF StrongAt, RestGoodBut, k
  <2> QED
    BY <1>7, <1>9, <2>2
<1>12. StrongAt(t)
  BY <1>1, <1>3, <1>5, <1>6, <1>8, <1>9, <1>10, <1>11, ConnChangedStrong DEF k
<1> QED
  BY <1>2, <1>9, <1>12, BecomesStrong

-----------------------------------------------------------------------------
(***************************************************************************)
(* A request arrives                                                       *)
(***************************************************************************)

\* The request has a number, and an answer to it is to come.
Numbered(s, c) == [s EXCEPT !.conn[c].next = @ + 1]

LEMMA NumberedGood ==
  ASSUME NEW s, NEW n \in Nat, NEW c \in RestConns, RestGoodBut(s, {}, n), n < MaxRequests, s.conn[c].up
  PROVE  LET x == s.conn[c].next
             u == Numbered(s, c)
         IN /\ RestGoodBut(u, {<<c, x>>}, n + 1) /\ x \in RestIds
            /\ u.ongoing = s.ongoing /\ u.asked = s.asked /\ u.flags = s.flags
            /\ \A d \in RestConns : d # c => u.conn[d] = s.conn[d]
            /\ u.conn[c] = [s.conn[c] EXCEPT !.next = x + 1]
<1> DEFINE k == s.conn[c]
           x == k.next
           f == [k EXCEPT !.next = x + 1]
           u == Numbered(s, c)
           D == {<<c, x>>}
<1>1. s \in RestStates /\ s.ongoing \subseteq OngoingRequest /\ k \in HTTPConnObject
  BY StateFacts DEF RestGoodBut
<1>2. /\ \A d \in RestConns : ConnOK(s.conn[d], n)
      /\ \A o \in s.ongoing : WaitOK(s, o, n)
      /\ \A p, o \in s.ongoing : p.api = o.api => p = o
      /\ \A o \in s.ongoing : ~s.conn[o.cb].lingered => ToCome(s.conn[o.cb], o.id)
      /\ \A p, o \in s.ongoing : ~s.conn[p.cb].lingered /\ p.cb = o.cb /\ p.id = o.id => p = o
      /\ s.flags.failed => \E d \in RestConns : s.conn[d].lingered
  BY DEF RestGoodBut
<1>3. u = Replaced(s, c, f)
  BY DEF Replaced, Numbered
<1>4. ConnOK(k, n) /\ k.up
  BY <1>2
<1>5. \A o \in s.ongoing : o.cb = c /\ ~k.lingered => ToCome(k, o.id)
  BY <1>2
<1>6. k.open /\ ~k.lingered => \A id \in (k.latest + 1)..(k.next - 1) :
        id \in Ids(k) \/ \E r \in s.ongoing : r.cb = c /\ r.id = id
  BY DEF RestGoodBut
<1> HIDE DEF k, u
<1>7. x \in 0..n /\ x \in Int /\ k.latest \in Int /\ x \in RestIds /\ x + 1 \in RestIds /\ x + 1 \in 0..(n + 1)
  <2>1. x \in 0..n
    BY <1>4 DEF ConnOK
  <2>2. k.latest \in Int
    BY <1>1, HTTPConnFacts
  <2> HIDE DEF x
  <2> QED
    BY <2>1, <2>2, Bounds
<1> HIDE DEF x
<1>8. /\ f \in HTTPConnObject /\ f.next = x + 1 /\ f.latest = k.latest /\ f.queue = k.queue /\ f.buffer = k.buffer
      /\ f.paused = k.paused /\ f.open = k.open /\ f.up = k.up /\ f.lingers = k.lingers /\ f.lingered = k.lingered
  BY <1>1, <1>7 DEF HTTPConnObject
<1>8a. f = [k EXCEPT !.next = x + 1]
  OBVIOUS
<1> HIDE DEF f
<1>9. /\ u \in RestStates /\ u.conn[c] = f /\ \A d \in RestConns : d # c => u.conn[d] = s.conn[d]
      /\ u.ongoing = s.ongoing /\ u.asked = s.asked /\ u.flags = s.flags
  BY <1>1, <1>3, <1>8, ReplacedFacts
<1>10. Ids(f) = Ids(k) /\ x = k.next
  BY <1>8 DEF Ids, x
<1>11. ~k.lingered => k.open /\ QueueOK(k) /\ HeldOK(k)
  BY <1>4 DEF ConnOK
<1>12. ~k.lingered => QueueOK(f) /\ HeldOK(f)
  <2> SUFFICES ASSUME ~k.lingered PROVE QueueOK(f) /\ HeldOK(f)
    OBVIOUS
  <2>1. QueueOK(k) /\ HeldOK(k)
    BY <1>11
  <2>2. \A id \in Ids(k) : id \in Int
    BY <1>1, HTTPConnFacts DEF Ids
  <2>3. f.latest < f.next /\ \A id \in Ids(f) : f.latest < id /\ id < f.next
    BY <1>7, <1>8, <1>10, <2>1, <2>2 DEF QueueOK
  <2>4. HeldOK(f)
    BY <1>8, <1>10, <2>1 DEF HeldOK
  <2> QED
    BY <1>8, <2>1, <2>3, <2>4 DEF QueueOK
<1>13. ConnOK(f, n + 1)
  BY <1>4, <1>7, <1>8, <1>11, <1>12 DEF ConnOK
<1>14. ASSUME NEW d \in RestConns PROVE ConnOK(u.conn[d], n + 1)
  <2>1. CASE d = c
    BY <1>9, <1>13, <2>1
  <2>2. CASE d # c
    <3>1. ConnOK(s.conn[d], n)
      BY <1>2
    <3>2. 0..n \subseteq 0..(n + 1)
      OBVIOUS
    <3>3. ConnOK(s.conn[d], n + 1)
      BY <3>1, <3>2 DEF ConnOK
    <3> QED
      BY <1>9, <2>2, <3>3
  <2> QED
    BY <2>1, <2>2
<1>15. ASSUME NEW o \in u.ongoing PROVE WaitOK(u, o, n + 1)
  <2>1. WaitOK(s, o, n) /\ o \in OngoingRequest
    BY <1>1, <1>2, <1>9
  <2>2. 0..(n - 1) \subseteq 0..((n + 1) - 1)
    OBVIOUS
  <2> QED
    BY <1>9, <2>1, <2>2 DEF WaitOK
<1>16. ASSUME NEW j, ToCome(k, j) PROVE ToCome(f, j) /\ j # x
  BY <1>7, <1>8, <1>10, <1>16 DEF ToCome
<1>17. ASSUME NEW o \in u.ongoing, ~u.conn[o.cb].lingered
       PROVE  ToCome(u.conn[o.cb], o.id) /\ <<o.cb, o.id>> \notin D
  <2>1. o \in s.ongoing /\ o.cb \in RestConns
    BY <1>1, <1>9, OngoingFacts
  <2>2. CASE o.cb = c
    <3>1. ToCome(k, o.id)
      BY <1>5, <1>8, <1>9, <1>17, <2>1, <2>2
    <3>2. ToCome(f, o.id) /\ o.id # x
      BY <1>16, <3>1
    <3> QED
      BY <1>9, <2>2, <3>2
  <2>3. CASE o.cb # c
    BY <1>2, <1>9, <1>17, <2>1, <2>3
  <2> QED
    BY <2>2, <2>3
<1>18. ASSUME NEW p \in D, ~u.conn[p[1]].lingered PROVE ToCome(u.conn[p[1]], p[2])
  <2>1. p[1] = c /\ p[2] = x
    OBVIOUS
  <2>2. ~k.lingered
    BY <1>8, <1>9, <1>18, <2>1
  <2>3. x \notin Ids(k) /\ k.latest < x
    BY <1>7, <1>10, <1>11, <2>2 DEF QueueOK
  <2>4. ToCome(f, x)
    BY <1>7, <1>8, <1>10, <1>11, <2>2, <2>3 DEF ToCome
  <2> QED
    BY <1>9, <2>1, <2>4
<1>19. ASSUME NEW d \in RestConns, u.conn[d].open, ~u.conn[d].lingered,
              NEW id \in (u.conn[d].latest + 1)..(u.conn[d].next - 1)
       PROVE  \/ id \in Ids(u.conn[d]) \/ <<d, id>> \in D
              \/ \E r \in u.ongoing : r.cb = d /\ r.id = id
  <2>1. CASE d = c
    <3>1. id \in (k.latest + 1)..((x + 1) - 1) /\ k.open /\ ~k.lingered
      BY <1>8, <1>9, <1>19, <2>1
    <3>2. CASE id = x
      BY <2>1, <3>2
    <3>3. CASE id # x
      <4>1. id \in (k.latest + 1)..(k.next - 1)
        BY <1>7, <1>10, <3>1, <3>3
      <4>2. id \in Ids(k) \/ \E r \in s.ongoing : r.cb = c /\ r.id = id
        BY <1>6, <3>1, <4>1
      <4> QED
        BY <1>9, <1>10, <2>1, <4>2
    <3> QED
      BY <3>2, <3>3
  <2>2. CASE d # c
    <3>1. u.conn[d] = s.conn[d]
      BY <1>9, <2>2
    <3>2. id \in Ids(s.conn[d]) \/ \E r \in s.ongoing : r.cb = d /\ r.id = id
      BY <1>19, <3>1 DEF RestGoodBut
    <3> QED
      BY <1>9, <3>1, <3>2
  <2> QED
    BY <2>1, <2>2
<1>20. \A p, o \in u.ongoing : p.api = o.api => p = o
  BY <1>2, <1>9
<1>21. \A d \in RestConns : u.conn[d].lingered <=> s.conn[d].lingered
  BY <1>8, <1>9 DEF k
<1>22. \A p, o \in u.ongoing : ~u.conn[p.cb].lingered /\ p.cb = o.cb /\ p.id = o.id => p = o
  BY <1>1, <1>2, <1>9, <1>21, OngoingFacts
<1>23. u.flags.failed => \E d \in RestConns : u.conn[d].lingered
  BY <1>2, <1>9, <1>21
<1> HIDE DEF D
<1>24. RestGoodBut(u, D, n + 1)
  BY <1>9, <1>14, <1>15, <1>17, <1>18, <1>19, <1>20, <1>22, <1>23 DEF RestGoodBut
<1>25. u.conn[c] = [k EXCEPT !.next = x + 1]
  BY <1>8a, <1>9
<1> QED
  BY <1>7, <1>9, <1>24, <1>25 DEF D, u, x, k

\* The request waits for some sites.
SyncWait(s, type, c, id, left, sites) == Wait(s, type, c, id, left, FALSE, sites)

LEMMA WaitGood ==
  ASSUME NEW s, NEW n \in Nat, NEW c \in RestConns, NEW id \in RestIds, NEW left \in 0..MaxTimeout,
         NEW type \in OngoingType, NEW sites \in SUBSET RestSites, sites # {}, n < MaxRequests,
         s.flags.requests = n, RestGoodBut(s, {<<c, id>>}, n + 1), \A o \in s.ongoing : o.api < n
  PROVE  LET t == SyncWait(s, type, c, id, left, sites)
         IN /\ RestGoodBut(t, {}, n + 1) /\ t.conn = s.conn /\ t.flags = s.flags
            /\ \A o \in t.ongoing : o \in s.ongoing \/ o.left >= 0
<1> DEFINE w == {<<q, s.flags.requests>> : q \in sites}
           r == [type |-> type, cb |-> c, id |-> id, api |-> s.flags.requests, left |-> left, async |-> FALSE, waits |-> w]
           m == s.asked.waiting \cup w
           o1 == s.ongoing \cup {r}
           t == SyncWait(s, type, c, id, left, sites)
           D == {<<c, id>>}
<1>1. s \in RestStates /\ s.ongoing \subseteq OngoingRequest
      /\ s.asked \in [waiting : SUBSET Question, ready : SUBSET Question]
  BY StateFacts DEF RestGoodBut
<1>2. n \in RestIds /\ w \subseteq Question /\ w # {} /\ \A q \in w : q[2] = n
  <2>1. n \in RestIds
    BY Bounds
  <2>2. w = {<<q, n>> : q \in sites}
    OBVIOUS
  <2> HIDE DEF w
  <2>3. w # {}
    BY <2>2
  <2> QED
    BY <2>1, <2>2, <2>3 DEF Question
<1>3. t = [[s EXCEPT !.asked.waiting = m] EXCEPT !.ongoing = o1]
  BY DEF SyncWait, Wait, Ask
<1> HIDE DEF w
<1>4. r \in OngoingRequest /\ r.cb = c /\ r.id = id /\ r.api = n /\ r.left = left /\ r.async = FALSE /\ r.waits = w
  <2>1. left \in -1..MaxTimeout
    BY Bounds
  <2>2. w \in SUBSET (RestSites \X RestIds)
    BY <1>2 DEF Question
  <2> QED
    BY <1>2, <2>1, <2>2 DEF OngoingRequest
<1> HIDE DEF r, t
<1>5. /\ t \in RestStates /\ t.conn = s.conn /\ t.flags = s.flags /\ t.ongoing = o1
      /\ t.asked.waiting = m
  <2> DEFINE a == [s.asked EXCEPT !.waiting = m]
             v == [s EXCEPT !.asked = a]
  <2>1. a \in [waiting : SUBSET Question, ready : SUBSET Question] /\ a.waiting = m
    BY <1>1, <1>2
  <2>2. t = [v EXCEPT !.ongoing = o1]
    BY <1>3
  <2>3. o1 \in SUBSET OngoingRequest
    BY <1>1, <1>4
  <2> HIDE DEF a, m, o1
  <2>4. v \in RestStates /\ v.conn = s.conn /\ v.flags = s.flags /\ v.asked = a
    BY <1>1, <2>1 DEF RestStates
  <2> HIDE DEF v
  <2> QED
    BY <2>1, <2>2, <2>3, <2>4 DEF RestStates
<1>6. /\ \A d \in RestConns : ConnOK(s.conn[d], n + 1)
      /\ \A o \in s.ongoing : WaitOK(s, o, n + 1)
      /\ \A p, o \in s.ongoing : p.api = o.api => p = o
      /\ \A o \in s.ongoing : ~s.conn[o.cb].lingered => ToCome(s.conn[o.cb], o.id) /\ <<o.cb, o.id>> \notin D
      /\ \A p, o \in s.ongoing : ~s.conn[p.cb].lingered /\ p.cb = o.cb /\ p.id = o.id => p = o
      /\ s.flags.failed => \E d \in RestConns : s.conn[d].lingered
  BY DEF RestGoodBut
<1>7. ~s.conn[c].lingered => ToCome(s.conn[c], id)
  <2>1. \A p \in D : ~s.conn[p[1]].lingered => ToCome(s.conn[p[1]], p[2])
    BY DEF RestGoodBut
  <2>2. <<c, id>> \in D /\ <<c, id>>[1] = c /\ <<c, id>>[2] = id
    OBVIOUS
  <2> HIDE DEF D
  <2> QED
    BY <2>1, <2>2
<1>8. \A o \in t.ongoing : o \in s.ongoing \/ o = r
  BY <1>5
<1>9. ASSUME NEW o \in t.ongoing PROVE WaitOK(t, o, n + 1)
  <2>1. CASE o \in s.ongoing
    BY <1>5, <1>6, <2>1 DEF WaitOK
  <2>2. CASE o = r
    <3>1. n \in 0..((n + 1) - 1)
      OBVIOUS
    <3> QED
      BY <1>2, <1>4, <1>5, <2>2, <3>1 DEF WaitOK
  <2> QED
    BY <1>8, <2>1, <2>2
<1>10. ASSUME NEW p \in t.ongoing, NEW o \in t.ongoing, p.api = o.api PROVE p = o
  <2>1. \A e \in s.ongoing : e.api # n
    BY <1>1, OngoingFacts
  <2> QED
    BY <1>4, <1>6, <1>8, <1>10, <2>1
<1>11. ASSUME NEW o \in t.ongoing, ~t.conn[o.cb].lingered PROVE ToCome(t.conn[o.cb], o.id) /\ <<o.cb, o.id>> \notin {}
  BY <1>4, <1>5, <1>6, <1>7, <1>8, <1>11
<1>12. ASSUME NEW p \in t.ongoing, NEW o \in t.ongoing, ~t.conn[p.cb].lingered, p.cb = o.cb, p.id = o.id PROVE p = o
  <2>1. \A e \in s.ongoing : ~s.conn[e.cb].lingered => ~(e.cb = c /\ e.id = id)
    BY <1>6
  <2> QED
    BY <1>4, <1>5, <1>6, <1>8, <1>12, <2>1
<1>13. ASSUME NEW d \in RestConns, t.conn[d].open, ~t.conn[d].lingered,
              NEW j \in (t.conn[d].latest + 1)..(t.conn[d].next - 1)
       PROVE  \/ j \in Ids(t.conn[d]) \/ <<d, j>> \in {}
              \/ \E e \in t.ongoing : e.cb = d /\ e.id = j
  <2>1. j \in Ids(s.conn[d]) \/ <<d, j>> \in D \/ \E e \in s.ongoing : e.cb = d /\ e.id = j
    BY <1>5, <1>13 DEF RestGoodBut
  <2>2. CASE <<d, j>> \in D
    <3>1. d = c /\ j = id
      BY <2>2
    <3>2. r \in t.ongoing
      BY <1>5
    <3> QED
      BY <1>4, <3>1, <3>2
  <2>3. CASE j \in Ids(s.conn[d])
    BY <1>5, <2>3
  <2>4. CASE \E e \in s.ongoing : e.cb = d /\ e.id = j
    BY <1>5, <2>4
  <2> QED
    BY <2>1, <2>2, <2>3, <2>4
<1>14. \A d \in RestConns : ConnOK(t.conn[d], n + 1)
  BY <1>5, <1>6
<1>15. t.flags.failed => \E d \in RestConns : t.conn[d].lingered
  BY <1>5, <1>6
<1>16. RestGoodBut(t, {}, n + 1)
  BY ONLY <1>5, <1>9, <1>10, <1>11, <1>12, <1>13, <1>14, <1>15 DEF RestGoodBut
<1>17. \A o \in t.ongoing : o \in s.ongoing \/ o.left >= 0
  BY <1>4, <1>8
<1> QED
  BY <1>5, <1>16, <1>17 DEF t

\* What answering and waiting leave alone
Held(s, t) ==
  /\ t.flags.clients = s.flags.clients /\ t.flags.requests = s.flags.requests
  /\ \A d \in RestConns : SameBut(s.conn[d], t.conn[d])

LEMMA HandleRequestGood ==
  ASSUME NEW s, NEW n \in Nat, NEW c \in RestConns, NEW id \in RestIds, NEW r \in RestRequest, NEW blocks \in 1..MaxBlocks,
         AsyncRaw = FALSE, n < MaxRequests, s.flags.requests = n, RestGoodBut(s, {<<c, id>>}, n + 1),
         \A o \in s.ongoing : o.api < n /\ o.left >= 0
  PROVE  LET t == handleRequest(s, c, id, r, blocks)
         IN RestGoodBut(t, {}, n + 1) /\ Held(s, t) /\ \A o \in t.ongoing : o.left >= 0
<1> DEFINE t == handleRequest(s, c, id, r, blocks)
<1>1. \/ r.kind = "immediate"
      \/ r.kind \in {"filelist", "file"} /\ r.site \in RestSites /\ r.left = MaxTimeout
      \/ r.kind = "raw" /\ r.sites \in SUBSET RestSites /\ r.sites # {} /\ r.left = MaxTimeout /\ r.async = FALSE
  <2> DEFINE A == [kind : {"immediate"}]
             B == [kind : {"filelist", "file"}, site : RestSites, left : {MaxTimeout}]
             C == [kind : {"raw"}, sites : (SUBSET RestSites) \ {{}}, left : {MaxTimeout}, async : {FALSE}]
  <2>1. RestRequest = A \cup B \cup C
    BY DEF RestRequest
  <2>2. r \in A => r.kind = "immediate"
    OBVIOUS
  <2>3. r \in B => r.kind \in {"filelist", "file"} /\ r.site \in RestSites /\ r.left = MaxTimeout
    OBVIOUS
  <2>4. r \in C => r.kind = "raw" /\ r.sites \in SUBSET RestSites /\ r.sites # {} /\ r.left = MaxTimeout /\ r.async = FALSE
    <3> SUFFICES ASSUME r \in C PROVE r.kind = "raw" /\ r.sites \in SUBSET RestSites /\ r.sites # {} /\ r.left = MaxTimeout /\ r.async = FALSE
      OBVIOUS
    <3>1. r.kind \in {"raw"} /\ r.sites \in (SUBSET RestSites) \ {{}} /\ r.left \in {MaxTimeout}
      OBVIOUS
    <3>2. r.async \in {FALSE}
      OBVIOUS
    <3>3. r.async = FALSE
      BY ONLY <3>2
    <3> QED
      BY <3>1, <3>3
  <2> HIDE DEF A, B, C
  <2> QED
    BY <2>1, <2>2, <2>3, <2>4
<1>2a. \A o \in s.ongoing : o.api < n
  OBVIOUS
<1>2. n + 1 \in Nat /\ MaxTimeout \in 0..MaxTimeout
  BY Bounds
<1>3. CASE r.kind = "immediate"
  <2> DEFINE v == requestHandled(s, c, id, blocks)
  <2>1. t = v
    BY <1>3 DEF handleRequest
  <2> HIDE DEF t
  <2>2. RestGoodBut(v, {}, n + 1) /\ Kept(s, v) /\ v.ongoing = s.ongoing
    BY <1>2, HandledGood
  <2> HIDE DEF v
  <2> QED
    BY <2>1, <2>2 DEF Kept, Held, t
<1>4. CASE r.kind \in {"filelist", "file"} /\ r.site \in RestSites /\ r.left = MaxTimeout
  <2> DEFINE type == IF r.kind = "file" THEN "DOWNLOAD_FILE" ELSE "FILE_LIST"
             sites == {r.site}
             v == SyncWait(s, type, c, id, r.left, sites)
  <2>1. t = v
    BY <1>4 DEF handleRequest, handlePathGet, SyncWait
  <2>2. type \in OngoingType /\ sites \in SUBSET RestSites /\ sites # {} /\ r.left \in 0..MaxTimeout
    BY <1>2, <1>4 DEF OngoingType
  <2> HIDE DEF t, type, sites
  <2>3. /\ RestGoodBut(v, {}, n + 1) /\ v.conn = s.conn /\ v.flags = s.flags
        /\ \A o \in v.ongoing : o \in s.ongoing \/ o.left >= 0
    BY <1>2a, <2>2, WaitGood
  <2> HIDE DEF v
  <2> QED
    BY <2>1, <2>3 DEF Held, SameBut, t
<1>5. CASE r.kind = "raw" /\ r.sites \in SUBSET RestSites /\ r.sites # {} /\ r.left = MaxTimeout /\ r.async = FALSE
  <2> DEFINE v == SyncWait(s, "RAW_COMMAND", c, id, r.left, r.sites)
  <2>1. t = v
    BY <1>5 DEF handleRequest, handleRawPost, SyncWait
  <2>2. "RAW_COMMAND" \in OngoingType /\ r.left \in 0..MaxTimeout
    BY <1>2, <1>5 DEF OngoingType
  <2> HIDE DEF t
  <2>3. /\ RestGoodBut(v, {}, n + 1) /\ v.conn = s.conn /\ v.flags = s.flags
        /\ \A o \in v.ongoing : o \in s.ongoing \/ o.left >= 0
    BY <1>2a, <1>5, <2>2, WaitGood
  <2> HIDE DEF v
  <2> QED
    BY <2>1, <2>3 DEF Held, SameBut, t
<1> QED
  BY <1>1, <1>3, <1>4, <1>5

LEMMA DataStep ==
  ASSUME NEW c \in RestConns, NEW r \in RestRequest, AsyncRaw = FALSE, RestStrong, FDData(c, r)
  PROVE  RestStrong'
<1> DEFINE s == Rest
           n == s.flags.requests
           u == Numbered(s, c)
           id == s.conn[c].next
<1>1. StrongAt(s) /\ s.conn[c].up /\ n < MaxRequests
  BY DEF RestStrong, FDData, Rest
<1>2. PICK blocks \in 1..MaxBlocks :
        RestBecomes([handleRequest(u, c, id, r, blocks) EXCEPT !.conn[c].body = {}, !.flags.requests = @ + 1])
  BY DEF FDData, Rest, Numbered
<1> DEFINE v == handleRequest(u, c, id, r, blocks)
           t == [v EXCEPT !.conn[c].body = {}, !.flags.requests = @ + 1]
<1>3. RestBecomes(t)
  BY <1>2
<1> HIDE DEF s
<1>4. n \in Nat /\ RestGoodBut(s, {}, n) /\ s.flags.clients \in Int
      /\ \A d \in RestConns : s.conn[d] \in HTTPConnObject /\ BodyOK(s.conn[d], s.flags.clients)
  BY <1>1, StrongTypes
<1>5. /\ RestGoodBut(u, {<<c, id>>}, n + 1) /\ id \in RestIds
      /\ u.ongoing = s.ongoing /\ u.asked = s.asked /\ u.flags = s.flags
      /\ \A d \in RestConns : d # c => u.conn[d] = s.conn[d]
      /\ u.conn[c] = [s.conn[c] EXCEPT !.next = id + 1]
  BY <1>1, <1>4, NumberedGood
<1>6. \A o \in u.ongoing : o.api < n /\ o.left >= 0
  <2>1. \A o \in s.ongoing : o.api \in 0..(n - 1) /\ o.left >= 0
    BY <1>1, <1>4 DEF StrongAt, RestGoodBut, WaitOK
  <2> QED
    BY <1>4, <1>5, <2>1
<1> HIDE DEF u, id, n
<1>7. RestGoodBut(v, {}, n + 1) /\ Held(u, v) /\ \A o \in v.ongoing : o.left >= 0
  BY <1>1, <1>4, <1>5, <1>6, HandleRequestGood DEF n
<1> HIDE DEF v
<1> DEFINE f == [v.conn[c] EXCEPT !.body = {}]
           w == Replaced(v, c, f)
           m == n + 1
           g == [v.flags EXCEPT !.requests = m]
<1>8. v \in RestStates /\ v.conn[c] \in HTTPConnObject /\ ConnOK(v.conn[c], m)
  BY <1>7, StateFacts DEF RestGoodBut
<1>9. /\ f \in HTTPConnObject /\ f.queue = v.conn[c].queue /\ f.latest = v.conn[c].latest /\ f.paused = v.conn[c].paused
      /\ f.buffer = v.conn[c].buffer /\ f.open = v.conn[c].open /\ f.client = v.conn[c].client /\ f.next = v.conn[c].next
      /\ f.up = v.conn[c].up /\ f.lingers = v.conn[c].lingers /\ f.lingered = v.conn[c].lingered /\ f.body = {}
  BY <1>8 DEF HTTPConnObject
<1>10. v.flags.requests = n /\ v.flags.clients = s.flags.clients
       /\ \A d \in RestConns : SameBut(u.conn[d], v.conn[d])
  BY <1>5, <1>7 DEF Held, n
<1>11. m \in 0..MaxRequests /\ m \in Nat
  BY <1>1, <1>4, Bounds
<1>12. t = [w EXCEPT !.flags = g]
  <2>1. v.flags.requests + 1 = m
    BY <1>10
  <2>2. w.flags = v.flags
    BY <1>8, <1>9, ReplacedFacts
  <2>3. t = [w EXCEPT !.flags.requests = v.flags.requests + 1]
    BY DEF Replaced
  <2> HIDE DEF w, f, m, t
  <2> QED
    BY <2>1, <2>2, <2>3
<1> HIDE DEF f, m, t
<1>13. /\ w \in RestStates /\ w.conn[c] = f /\ \A d \in RestConns : d # c => w.conn[d] = v.conn[d]
       /\ w.ongoing = v.ongoing /\ w.asked = v.asked /\ w.flags = v.flags
  BY <1>8, <1>9, ReplacedFacts
<1> HIDE DEF w
<1>14. /\ t \in RestStates /\ t.conn = w.conn /\ t.ongoing = w.ongoing /\ t.asked = w.asked
       /\ t.flags.clients = v.flags.clients /\ t.flags.failed = v.flags.failed /\ t.flags.requests = m
  <2>1. /\ g \in [clients : 0..MaxClients, requests : 0..MaxRequests, failed : BOOLEAN]
        /\ g.clients = v.flags.clients /\ g.failed = v.flags.failed /\ g.requests = m
    <3>1. v.flags \in [clients : 0..MaxClients, requests : 0..MaxRequests, failed : BOOLEAN]
      BY <1>8, StateFacts
    <3> QED
      BY <1>11, <3>1
  <2> HIDE DEF g
  <2> QED
    BY <1>12, <1>13, <2>1 DEF RestStates
<1>15. Ids(f) = Ids(v.conn[c])
  BY <1>9 DEF Ids
<1>16. ConnOK(f, m)
  BY <1>8, <1>9, <1>15 DEF ConnOK, QueueOK, HeldOK
<1>17. ASSUME ~f.lingered, NEW o \in t.ongoing, o.cb = c PROVE ToCome(f, o.id)
  <2>1. ToCome(v.conn[c], o.id)
    BY <1>7, <1>9, <1>13, <1>14, <1>17 DEF RestGoodBut
  <2> QED
    BY <1>9, <1>15, <2>1 DEF ToCome
<1>18. ASSUME f.open, ~f.lingered, NEW j \in (f.latest + 1)..(f.next - 1)
       PROVE  j \in Ids(f) \/ \E o \in t.ongoing : o.cb = c /\ o.id = j
  <2>1. j \in Ids(v.conn[c]) \/ \E o \in v.ongoing : o.cb = c /\ o.id = j
    BY <1>7, <1>9, <1>18 DEF RestGoodBut
  <2> QED
    BY <1>13, <1>14, <1>15, <2>1
<1>19. RestGoodBut(t, {}, m)
  <2>1. RestGoodBut(v, {}, m)
    BY <1>7 DEF m
  <2> QED
    BY <1>9, <1>11, <1>13, <1>14, <1>16, <1>17, <1>18, <2>1, ConnChangedGood
<1>20. ASSUME NEW d \in RestConns PROVE BodyOK(t.conn[d], t.flags.clients)
  <2>1. BodyOK(s.conn[d], s.flags.clients) /\ s.conn[d] \in HTTPConnObject
    BY <1>4
  <2>2. t.flags.clients = s.flags.clients
    BY <1>10, <1>14
  <2>3. CASE d # c
    <3>1. SameBut(s.conn[d], t.conn[d])
      BY <1>5, <1>10, <1>13, <1>14, <2>3
    <3> QED
      BY <2>1, <2>2, <3>1 DEF BodyOK, SameBut
  <2>4. CASE d = c
    <3>1. u.conn[c].client = s.conn[c].client /\ u.conn[c].up = s.conn[c].up /\ u.conn[c].open = s.conn[c].open
      BY <1>5, <2>1, <2>4 DEF HTTPConnObject
    <3>2. t.conn[c].client = s.conn[c].client /\ t.conn[c].up = s.conn[c].up /\ t.conn[c].open = s.conn[c].open
          /\ t.conn[c].body = {}
      BY <1>9, <1>10, <1>13, <1>14, <3>1 DEF SameBut
    <3> QED
      BY <2>1, <2>2, <2>4, <3>2 DEF BodyOK
  <2> QED
    BY <2>3, <2>4
<1>21. StrongAt(t)
  BY <1>7, <1>13, <1>14, <1>19, <1>20 DEF StrongAt
<1> QED
  BY <1>3, <1>14, <1>21, BecomesStrong

-----------------------------------------------------------------------------
(***************************************************************************)
(* A site answers, and time passes                                         *)
(***************************************************************************)

\* What a state in which only the requests that wait and the questions have changed needs.
LEMMA KeptStrong ==
  ASSUME NEW s, NEW t, StrongAt(s), Held(s, t), RestGoodBut(t, {}, s.flags.requests), \A r \in t.ongoing : r.left >= 0
  PROVE  StrongAt(t) /\ t \in RestStates
<1>1. \A c \in RestConns : BodyOK(t.conn[c], t.flags.clients)
  BY StrongTypes DEF Held, SameBut, BodyOK
<1> QED
  BY <1>1 DEF StrongAt, Held, RestGoodBut

\* A question to a site is no longer one.
NoLonger(s, q, ready, o) == [s EXCEPT !.asked = [waiting |-> s.asked.waiting \ {q}, ready |-> ready], !.ongoing = o]

LEMMA NoLongerFacts ==
  ASSUME NEW s, NEW q, NEW ready, NEW o, s \in RestStates, ready \subseteq Question, o \subseteq OngoingRequest
  PROVE  LET u == NoLonger(s, q, ready, o)
         IN /\ u \in RestStates /\ u.conn = s.conn /\ u.flags = s.flags /\ u.ongoing = o
            /\ u.asked.waiting = s.asked.waiting \ {q}
<1> DEFINE a == [waiting |-> s.asked.waiting \ {q}, ready |-> ready]
           v == [s EXCEPT !.asked = a]
           u == NoLonger(s, q, ready, o)
<1>1. a \in [waiting : SUBSET Question, ready : SUBSET Question] /\ a.waiting = s.asked.waiting \ {q}
  BY StateFacts
<1>2. u = [v EXCEPT !.ongoing = o]
  BY DEF NoLonger
<1> HIDE DEF a, u
<1>3. v \in RestStates /\ v.conn = s.conn /\ v.flags = s.flags /\ v.asked = a
  BY <1>1 DEF RestStates
<1> HIDE DEF v
<1>4. u \in RestStates /\ u.conn = v.conn /\ u.flags = v.flags /\ u.ongoing = o /\ u.asked = v.asked
  BY <1>2, <1>3 DEF RestStates
<1> QED
  BY <1>1, <1>3, <1>4 DEF u

\* The requests are as before, but may wait for less sites: same tells which one each was.
Fewer(s, u, Q, same) ==
  /\ u.conn = s.conn /\ u.flags = s.flags /\ u.asked.waiting = s.asked.waiting \ Q
  /\ \A o \in u.ongoing : same[o] \in s.ongoing /\ o.cb = same[o].cb /\ o.id = same[o].id /\ o.api = same[o].api
       /\ o.async = same[o].async /\ o.waits # {} /\ o.waits = same[o].waits \ Q
  /\ \A o, p \in u.ongoing : same[o] = same[p] => o = p
  /\ \A r \in s.ongoing : \E o \in u.ongoing : same[o] = r

LEMMA LessGood ==
  ASSUME NEW s, NEW n \in Nat, NEW Q, NEW u, NEW same, u \in RestStates, RestGoodBut(s, {}, n), Fewer(s, u, Q, same)
  PROVE  RestGoodBut(u, {}, n)
<1>0. /\ u.conn = s.conn /\ u.flags = s.flags /\ u.asked.waiting = s.asked.waiting \ Q
      /\ \A o \in u.ongoing : same[o] \in s.ongoing /\ o.cb = same[o].cb /\ o.id = same[o].id /\ o.api = same[o].api
           /\ o.async = same[o].async /\ o.waits # {} /\ o.waits = same[o].waits \ Q
      /\ \A o, p \in u.ongoing : same[o] = same[p] => o = p
      /\ \A r \in s.ongoing : \E o \in u.ongoing : same[o] = r
  BY DEF Fewer
<1>1. s \in RestStates
  BY DEF RestGoodBut
<1>2. /\ \A d \in RestConns : ConnOK(s.conn[d], n)
      /\ \A o \in s.ongoing : WaitOK(s, o, n)
      /\ \A p, o \in s.ongoing : p.api = o.api => p = o
      /\ \A o \in s.ongoing : ~s.conn[o.cb].lingered => ToCome(s.conn[o.cb], o.id)
      /\ \A p, o \in s.ongoing : ~s.conn[p.cb].lingered /\ p.cb = o.cb /\ p.id = o.id => p = o
      /\ s.flags.failed => \E d \in RestConns : s.conn[d].lingered
  BY DEF RestGoodBut
<1>3. ASSUME NEW o \in u.ongoing PROVE WaitOK(u, o, n)
  <2>1. WaitOK(s, same[o], n)
    BY <1>0, <1>2
  <2> QED
    BY <1>0, <2>1 DEF WaitOK
<1>4. \A o \in u.ongoing : ~u.conn[o.cb].lingered => ToCome(u.conn[o.cb], o.id) /\ <<o.cb, o.id>> \notin {}
  BY <1>0, <1>2
<1>5. ASSUME NEW o \in u.ongoing, NEW p \in u.ongoing, o.api = p.api PROVE o = p
  <2>1. same[o] = same[p]
    BY <1>0, <1>2, <1>5
  <2> QED
    BY <1>0, <2>1
<1>6. ASSUME NEW o \in u.ongoing, NEW p \in u.ongoing, ~u.conn[o.cb].lingered, o.cb = p.cb, o.id = p.id PROVE o = p
  <2>1. same[o] = same[p]
    BY <1>0, <1>2, <1>6
  <2> QED
    BY <1>0, <2>1
<1>7. ASSUME NEW d \in RestConns, u.conn[d].open, ~u.conn[d].lingered,
             NEW j \in (u.conn[d].latest + 1)..(u.conn[d].next - 1)
      PROVE  \/ j \in Ids(u.conn[d]) \/ <<d, j>> \in {}
             \/ \E r \in u.ongoing : r.cb = d /\ r.id = j
  <2>1. j \in Ids(s.conn[d]) \/ \E r \in s.ongoing : r.cb = d /\ r.id = j
    BY <1>0, <1>7 DEF RestGoodBut
  <2>2. ASSUME NEW r \in s.ongoing, r.cb = d, r.id = j PROVE \E o \in u.ongoing : o.cb = d /\ o.id = j
    <3>1. PICK o \in u.ongoing : same[o] = r
      BY <1>0
    <3> QED
      BY <1>0, <2>2, <3>1
  <2> QED
    BY <1>0, <2>1, <2>2
<1>8. (\A d \in RestConns : ConnOK(u.conn[d], n)) /\ (u.flags.failed => \E d \in RestConns : u.conn[d].lingered)
  BY <1>0, <1>2
<1> QED
  BY ONLY u \in RestStates, <1>3, <1>4, <1>5, <1>6, <1>7, <1>8 DEF RestGoodBut

LEMMA AnswersStep ==
  ASSUME NEW q \in asked.waiting, RestStrong, SiteAnswers(q)
  PROVE  RestStrong'
<1> DEFINE s == Rest
           n == s.flags.requests
           done == {o \in s.ongoing : q \in o.waits}
           r == CHOOSE o \in done : TRUE
           less == [r EXCEPT !.waits = @ \ {q}]
           more == s.asked.ready \cup {q}
           same == s.asked.ready
<1>1. StrongAt(s) /\ q \in s.asked.waiting
  BY DEF RestStrong, Rest
<1>2. PICK status \in BOOLEAN, blocks \in 1..MaxBlocks : RestBecomes(requestReady(q, status, blocks))
  BY DEF SiteAnswers
<1> DEFINE t == requestReady(q, status, blocks)
           ready == [s EXCEPT !.asked.waiting = @ \ {q}]
           gone == [ready EXCEPT !.ongoing = @ \ {r}]
           some == [ready EXCEPT !.ongoing = (@ \ {r}) \cup {less}]
           b == IF status THEN blocks ELSE 1
<1>3. t = IF done = {} THEN [ready EXCEPT !.asked.ready = @ \cup {q}]
          ELSE IF r.type # "RAW_COMMAND" THEN requestHandled(gone, r.cb, r.id, b)
          ELSE IF less.waits = {} /\ ~r.async THEN finalize(some, less, blocks) ELSE some
  BY DEF requestReady, Rest
<1> HIDE DEF s, t
<1>4. s \in RestStates /\ RestGoodBut(s, {}, n) /\ n \in Nat /\ \A o \in s.ongoing : o.left >= 0
  BY <1>1, StrongTypes DEF StrongAt
<1>5. /\ s.ongoing \subseteq OngoingRequest /\ s.asked \in [waiting : SUBSET Question, ready : SUBSET Question]
      /\ \A o \in s.ongoing : WaitOK(s, o, n)
      /\ \A p, o \in s.ongoing : p.api = o.api => p = o
  BY <1>4, StateFacts DEF RestGoodBut
<1>6. q \in Question
  BY <1>1, <1>5
\* At most one request waits for the site.
<1>7. \A p, o \in s.ongoing : q \in p.waits /\ q \in o.waits => p = o
  BY <1>5 DEF WaitOK
<1> HIDE DEF n
<1>8. /\ ready = [s EXCEPT !.asked = [waiting |-> s.asked.waiting \ {q}, ready |-> same]]
      /\ ready.ongoing = s.ongoing
      /\ [ready EXCEPT !.asked.ready = @ \cup {q}] = [s EXCEPT !.asked = [waiting |-> s.asked.waiting \ {q}, ready |-> more]]
  <2> DEFINE w == s.asked.waiting \ {q}
             y == s.asked
             a == [y EXCEPT !.waiting = w]
  <2>0. y \in [waiting : SUBSET Question, ready : SUBSET Question] /\ same = y.ready
    BY <1>5
  <2>2. ready = [s EXCEPT !.asked = a]
    OBVIOUS
  <2> HIDE DEF w, y
  <2>1. a = [waiting |-> w, ready |-> same]
    BY <2>0
  <2> HIDE DEF a
  <2>3a. same \cup {q} = more /\ a.ready = same
    BY <2>1
  <2> HIDE DEF same, more
  <2>3. [a EXCEPT !.ready = same \cup {q}] = [waiting |-> w, ready |-> same \cup {q}]
    BY <2>1
  <2>4. ready.asked = a /\ ready.ongoing = s.ongoing
    BY <1>4, <2>2 DEF RestStates
  <2> HIDE DEF ready, more
  <2>5. [ready EXCEPT !.asked.ready = ready.asked.ready \cup {q}] = [ready EXCEPT !.asked = [a EXCEPT !.ready = same \cup {q}]]
    BY <2>3a, <2>4
  <2>6. [ready EXCEPT !.asked = [waiting |-> w, ready |-> more]] = [s EXCEPT !.asked = [waiting |-> w, ready |-> more]]
    BY <1>4, <2>2 DEF RestStates
  <2> QED
    BY <2>1, <2>2, <2>3a, <2>3, <2>4, <2>5, <2>6 DEF w
<1> HIDE DEF ready
<1>9. CASE done = {}
  <2> DEFINE u == NoLonger(s, q, more, s.ongoing)
             id == [o \in s.ongoing |-> o]
  <2>1. t = u
    <3>1. t = [s EXCEPT !.asked = [waiting |-> s.asked.waiting \ {q}, ready |-> more]]
      BY <1>3, <1>8, <1>9
    <3>2. [s EXCEPT !.asked = [waiting |-> s.asked.waiting \ {q}, ready |-> more]]
          = [s EXCEPT !.asked = [waiting |-> s.asked.waiting \ {q}, ready |-> more], !.ongoing = s.ongoing]
      BY <1>4 DEF RestStates
    <3> QED
      BY <3>1, <3>2 DEF NoLonger
  <2>2. more \in SUBSET Question /\ s.ongoing \in SUBSET OngoingRequest
    BY <1>5, <1>6
  <2> HIDE DEF done, r, less, more
  <2>3. /\ u \in RestStates /\ u.conn = s.conn /\ u.flags = s.flags /\ u.ongoing = s.ongoing
        /\ u.asked.waiting = s.asked.waiting \ {q}
    BY <1>4, <2>2, NoLongerFacts
  <2> HIDE DEF u, done, r, less, more, id
  <2>4. \A o \in u.ongoing : id[o] = o
    BY <2>3 DEF id
  <2>5. \A o \in u.ongoing : o.waits # {} /\ o.waits = o.waits \ {q}
    <3>1. \A o \in s.ongoing : o.waits # {} /\ q \notin o.waits
      BY <1>5, <1>9 DEF done, WaitOK
    <3> QED
      BY <2>3, <3>1
  <2>6. RestGoodBut(u, {}, n)
    <3>1. \A o \in u.ongoing : id[o] \in s.ongoing /\ o.cb = id[o].cb /\ o.id = id[o].id /\ o.api = id[o].api
            /\ o.async = id[o].async /\ o.waits # {} /\ o.waits = id[o].waits \ {q}
      BY <2>3, <2>4, <2>5
    <3>2. \A o, p \in u.ongoing : id[o] = id[p] => o = p
      BY <2>4
    <3>3. \A o \in s.ongoing : \E p \in u.ongoing : id[p] = o
      BY <2>3, <2>4
    <3>4. Fewer(s, u, {q}, id)
      BY <2>3, <3>1, <3>2, <3>3 DEF Fewer
    <3> QED
      BY <1>4, <2>3, <3>4, LessGood
  <2>7. Held(s, u) /\ \A o \in u.ongoing : o.left >= 0
    BY <1>4, <2>3 DEF Held, SameBut
  <2>8. StrongAt(u) /\ u \in RestStates
    BY <1>1, <2>6, <2>7, KeptStrong DEF n
  <2> QED
    BY <1>2, <2>1, <2>8, BecomesStrong DEF t
<1>10. CASE done # {} /\ (r.type # "RAW_COMMAND" \/ (less.waits = {} /\ ~r.async))
  <2> DEFINE o == s.ongoing \ {r}
             u == NoLonger(s, q, same, o)
             v == requestHandled(u, r.cb, r.id, b)
             c == IF r.type = "RAW_COMMAND" THEN blocks ELSE b
             x == requestHandled(u, r.cb, r.id, c)
  <2>1. r \in s.ongoing /\ q \in r.waits /\ r \in OngoingRequest
    BY <1>5, <1>10
  <2>2. same \in SUBSET Question /\ o \in SUBSET OngoingRequest
    BY <1>5
  <2> HIDE DEF r, done, same
  <2>3. less.api = r.api /\ less.cb = r.cb /\ less.id = r.id /\ less.type = r.type /\ less # r
    <3>1. less.waits = r.waits \ {q} /\ less.api = r.api /\ less.cb = r.cb /\ less.id = r.id /\ less.type = r.type
      BY <2>1 DEF OngoingRequest
    <3> QED
      BY <2>1, <3>1
  <2> HIDE DEF less
  <2>4. less \notin s.ongoing
    BY <1>5, <2>1, <2>3
  <2>5. gone = u
    BY <1>8 DEF NoLonger
  <2>6. [some EXCEPT !.ongoing = @ \ {less}] = u
    <3> DEFINE y == o \cup {less}
    <3>1. some = [[s EXCEPT !.asked = [waiting |-> s.asked.waiting \ {q}, ready |-> same]] EXCEPT !.ongoing = y]
      BY <1>8
    <3>2. y \ {less} = o
      BY <2>4
    <3> HIDE DEF y, o, some
    <3>3. some.ongoing = y
      BY <1>4, <3>1 DEF RestStates
    <3>4. [some EXCEPT !.ongoing = o] = u
      BY <1>4, <3>1 DEF NoLonger, RestStates
    <3> QED
      BY <3>2, <3>3, <3>4
  <2> HIDE DEF u
  <2>7. t = x
    <3>1. CASE r.type # "RAW_COMMAND"
      BY <1>3, <1>10, <2>5, <3>1
    <3>2. CASE r.type = "RAW_COMMAND"
      <4>1. t = finalize(some, less, blocks)
        BY <1>3, <1>10, <3>2
      <4> HIDE DEF some
      <4>2. finalize(some, less, blocks) = requestHandled([some EXCEPT !.ongoing = @ \ {less}], less.cb, less.id,
                IF less.type = "RAW_COMMAND" THEN blocks ELSE 1)
        BY DEF finalize
      <4> QED
        BY <2>3, <2>6, <3>2, <4>1, <4>2
    <3> QED
      BY <3>1, <3>2
  <2>8. /\ u \in RestStates /\ u.conn = s.conn /\ u.flags = s.flags /\ u.ongoing = o
        /\ u.asked.waiting = s.asked.waiting \ {q}
    BY <1>4, <2>2, NoLongerFacts DEF u
  <2>9. c \in 1..MaxBlocks
    BY Bounds
  <2> HIDE DEF c, o
  <2>10. RestGoodBut(x, {}, n) /\ Kept(u, x) /\ x.ongoing = s.ongoing \ {r}
    BY <1>4, <2>1, <2>8, <2>9, AnsweredGood DEF o
  <2> HIDE DEF x
  <2>11. Held(s, x) /\ \A p \in x.ongoing : p.left >= 0
    BY <1>4, <2>8, <2>10 DEF Held, Kept
  <2>12. StrongAt(x) /\ x \in RestStates
    BY <1>1, <2>10, <2>11, KeptStrong DEF n
  <2> QED
    BY <1>2, <2>7, <2>12, BecomesStrong DEF t
<1>11. CASE done # {} /\ ~(r.type # "RAW_COMMAND" \/ (less.waits = {} /\ ~r.async))
  <2> DEFINE o == (s.ongoing \ {r}) \cup {less}
             u == NoLonger(s, q, same, o)
             id == [p \in o |-> IF p = less THEN r ELSE p]
  <2>1. r \in s.ongoing /\ q \in r.waits /\ r \in OngoingRequest
    BY <1>5, <1>11
  <2>2. t = some
    BY <1>3, <1>11
  <2> HIDE DEF r, done
  <2>3. ~r.async
    BY <1>5, <2>1 DEF WaitOK
  <2>4. less.waits # {}
    BY <1>11, <2>3
  <2>5. /\ less \in OngoingRequest /\ less.waits = r.waits \ {q} /\ less.api = r.api /\ less.cb = r.cb /\ less.id = r.id
        /\ less.async = r.async /\ less.left = r.left
    <3>1. r.waits \ {q} \in SUBSET (RestSites \X RestIds)
      BY <2>1 DEF OngoingRequest
    <3> QED
      BY <2>1, <3>1 DEF OngoingRequest
  <2> HIDE DEF less
  <2>6. t = u
    BY <1>8, <2>2 DEF NoLonger
  <2>7. same \in SUBSET Question /\ o \in SUBSET OngoingRequest
    BY <1>5, <2>5
  <2> HIDE DEF u
  <2>8. /\ u \in RestStates /\ u.conn = s.conn /\ u.flags = s.flags /\ u.ongoing = o
        /\ u.asked.waiting = s.asked.waiting \ {q}
    BY <1>4, <2>7, NoLongerFacts DEF u
  <2>9. less \notin s.ongoing
    <3>1. less # r
      BY <2>1, <2>5
    <3> QED
      BY <1>5, <2>1, <2>5, <3>1
  <2>10. id[less] = r /\ \A p \in o : p # less => id[p] = p /\ p \in s.ongoing /\ p # r
    OBVIOUS
  <2>11. \A p \in o : p = less \/ p # less
    OBVIOUS
  <2>12. ASSUME NEW p \in o
         PROVE  id[p] \in s.ongoing /\ p.cb = id[p].cb /\ p.id = id[p].id /\ p.api = id[p].api
                  /\ p.async = id[p].async /\ p.waits # {} /\ p.waits = id[p].waits \ {q}
    <3>1. CASE p = less
      BY <2>1, <2>4, <2>5, <2>10, <3>1
    <3>2. CASE p # less
      <4>1. id[p] = p /\ p \in s.ongoing /\ p # r
        BY <2>10, <3>2
      <4> HIDE DEF id, o
      <4>2. q \notin p.waits /\ p.waits # {}
        BY <1>5, <1>7, <2>1, <4>1 DEF WaitOK
      <4> QED
        BY <4>1, <4>2
    <3> QED
      BY <3>1, <3>2
  <2>13. \A p \in s.ongoing : p # r => p \in o /\ p # less
    BY <2>9
  <2>14. less \in o
    OBVIOUS
  <2> HIDE DEF id, o
  <2>15. \A p, e \in o : id[p] = id[e] => p = e
    BY <2>10
  <2>16. ASSUME NEW p \in s.ongoing PROVE \E e \in o : id[e] = p
    <3>1. CASE p = r
      BY <2>10, <2>14, <3>1
    <3>2. CASE p # r
      BY <2>10, <2>13, <3>2
    <3> QED
      BY <3>1, <3>2
  <2>17. RestGoodBut(u, {}, n)
    <3>1. \A p \in u.ongoing : id[p] \in s.ongoing /\ p.cb = id[p].cb /\ p.id = id[p].id /\ p.api = id[p].api
                  /\ p.async = id[p].async /\ p.waits # {} /\ p.waits = id[p].waits \ {q}
      BY <2>8, <2>12
    <3>2. Fewer(s, u, {q}, id)
      BY <2>8, <2>15, <2>16, <3>1 DEF Fewer
    <3> QED
      BY <1>4, <2>8, <3>2, LessGood
  <2>18. Held(s, u) /\ \A p \in u.ongoing : p.left >= 0
    <3>1. \A p \in o : p.left >= 0
      BY <1>4, <2>1, <2>5, <2>10
    <3> QED
      BY <2>8, <3>1 DEF Held, SameBut
  <2>19. StrongAt(u) /\ u \in RestStates
    BY <1>1, <2>17, <2>18, KeptStrong DEF n
  <2> QED
    BY <1>2, <2>6, <2>19, BecomesStrong DEF t
<1> QED
  BY <1>9, <1>10, <1>11

LEMMA FinalizeIfLateGood ==
  ASSUME NEW s, NEW n \in Nat, NEW api \in Nat, NEW blocks \in 1..MaxBlocks, RestGoodBut(s, {}, n)
  PROVE  LET t == finalizeIfLate(s, api, blocks)
         IN /\ RestGoodBut(t, {}, n) /\ Held(s, t) /\ t.ongoing \subseteq s.ongoing
            /\ \A r \in t.ongoing : r.api = api => r.left >= 0
<1> DEFINE late == {r \in s.ongoing : r.api = api /\ r.left < 0}
           l == CHOOSE r \in late : TRUE
           t == finalizeIfLate(s, api, blocks)
<1>1. \A r \in s.ongoing : r.left \in Int /\ \A o \in s.ongoing : r.api = o.api => r = o
  BY StateFacts, OngoingFacts DEF RestGoodBut
<1>2. CASE late = {}
  <2>1. t = s
    BY <1>2 DEF finalizeIfLate
  <2>2. \A r \in s.ongoing : r.api = api => r.left >= 0
    BY <1>1, <1>2
  <2> HIDE DEF t
  <2> QED
    BY <2>1, <2>2 DEF Held, SameBut, t
<1>3. CASE late # {}
  <2>1. t = finalize(s, l, blocks)
    BY <1>3 DEF finalizeIfLate
  <2>2. l \in s.ongoing /\ l.api = api
    BY <1>3
  <2> HIDE DEF t, l, late
  <2>3. RestGoodBut(t, {}, n) /\ Kept(s, t) /\ t.ongoing = s.ongoing \ {l}
    BY <2>1, <2>2, FinalizeGood
  <2>4. \A r \in t.ongoing : r.api # api
    BY <1>1, <2>2, <2>3
  <2> QED
    BY <2>3, <2>4 DEF Kept, Held, t
<1> QED
  BY <1>2, <1>3

\* The recursion of finalizeLate defines a function.
LEMMA UptoExists ==
  ASSUME NEW s, NEW blocks, NEW n \in Nat
  PROVE  \E f : f = [i \in 0..n |-> IF i = 0 THEN s ELSE finalizeIfLate(f[i - 1], i - 1, blocks)]
<1> DEFINE Next(t, i) == finalizeIfLate(t, i - 1, blocks)
           Step(g, i) == IF i = 0 THEN s ELSE Next(g[i - 1], i)
           Has(m) == \E f : f = [i \in 0..m |-> Step(f, i)]
           S == {m \in Nat : Has(m)}
<1>1. 0 \in S
  <2> DEFINE f == [i \in 0..0 |-> s]
  <2>1. f = [i \in 0..0 |-> Step(f, i)]
    OBVIOUS
  <2> QED
    BY <2>1
<1> HIDE DEF Next
<1>2. ASSUME NEW k \in Nat, k \in S PROVE k + 1 \in S
  <2>1. PICK f : f = [i \in 0..k |-> Step(f, i)]
    BY <1>2
  <2> DEFINE m == k + 1
             g == [i \in 0..m |-> IF i < m THEN f[i] ELSE Next(f[m - 1], m)]
  <2>2. m \in Nat /\ m - 1 = k /\ m # 0
    OBVIOUS
  <2> HIDE DEF m
  <2>3. \A i \in 0..m : g[i] = Step(g, i)
    <3> SUFFICES ASSUME NEW i \in 0..m PROVE g[i] = Step(g, i)
      OBVIOUS
    <3>1. CASE i = 0
      <4>1. f[0] = Step(f, 0)
        BY <2>1
      <4> QED
        BY <2>2, <3>1, <4>1
    <3>2. CASE i # 0 /\ i < m
      <4>1. i \in 0..k /\ i - 1 \in 0..m /\ i - 1 < m
        BY <2>2, <3>2
      <4>2. f[i] = Next(f[i - 1], i)
        BY <2>1, <3>2, <4>1
      <4>3. g[i] = f[i] /\ g[i - 1] = f[i - 1]
        BY <3>2, <4>1
      <4> HIDE DEF g
      <4> QED
        BY <3>2, <4>2, <4>3
    <3>3. CASE i = m
      <4>1. m - 1 \in 0..m /\ m - 1 < m /\ ~(m < m)
        BY <2>2
      <4>2. g[m] = Next(f[m - 1], m) /\ g[m - 1] = f[m - 1]
        BY <2>2, <4>1
      <4> HIDE DEF g
      <4> QED
        BY <2>2, <3>3, <4>2
    <3> QED
      BY <2>2, <3>1, <3>2, <3>3
  <2>4. g = [i \in 0..m |-> Step(g, i)]
    <3>1. g = [i \in 0..m |-> g[i]]
      OBVIOUS
    <3> HIDE DEF g
    <3> QED
      BY <2>3, <3>1
  <2>5. Has(m)
    BY <2>4
  <2> QED
    BY <2>2, <2>5 DEF m
<1> HIDE DEF S
<1>3. n \in S
  BY <1>1, <1>2, NatSetInduction
<1> QED
  BY <1>3 DEF S, Next

\* What is left when the late requests with numbers below m have been finalized
TickedTo(s, t, n, m) ==
  /\ RestGoodBut(t, {}, n) /\ Held(s, t)
  /\ \A r \in t.ongoing : r.api < m => r.left >= 0

LEMMA FinalizeLateGood ==
  ASSUME NEW s, NEW n \in Nat, NEW blocks \in 1..MaxBlocks, RestGoodBut(s, {}, n), n <= MaxRequests
  PROVE  LET t == finalizeLate(s, blocks)
         IN RestGoodBut(t, {}, n) /\ Held(s, t) /\ \A r \in t.ongoing : r.left >= 0
<1> DEFINE f == CHOOSE g : g = [i \in 0..MaxRequests |-> IF i = 0 THEN s ELSE finalizeIfLate(g[i - 1], i - 1, blocks)]
           S == {m \in Nat : m <= MaxRequests => TickedTo(s, f[m], n, m)}
           t == finalizeLate(s, blocks)
<1>1. MaxRequests \in Nat
  BY Bounds
<1>2. f = [i \in 0..MaxRequests |-> IF i = 0 THEN s ELSE finalizeIfLate(f[i - 1], i - 1, blocks)]
  BY <1>1, UptoExists
<1>3. t = f[MaxRequests]
  BY DEF finalizeLate
<1> HIDE DEF f, t
<1>4. 0 \in S
  <2>1. f[0] = s
    BY <1>1, <1>2
  <2>2. \A r \in s.ongoing : r.api \in 0..(n - 1)
    BY DEF RestGoodBut, WaitOK
  <2>3. TickedTo(s, s, n, 0)
    BY <2>2 DEF TickedTo, Held, SameBut
  <2> QED
    BY <2>1, <2>3
<1>5. ASSUME NEW m \in Nat, m \in S PROVE m + 1 \in S
  <2> SUFFICES ASSUME m + 1 <= MaxRequests PROVE TickedTo(s, f[m + 1], n, m + 1)
    OBVIOUS
  <2>1. TickedTo(s, f[m], n, m)
    BY <1>1, <1>5
  <2> DEFINE u == f[m]
             v == finalizeIfLate(u, m, blocks)
  <2>2. f[m + 1] = v
    <3> DEFINE k == m + 1
    <3>1. k \in 0..MaxRequests /\ k # 0 /\ k - 1 = m
      BY <1>1
    <3> HIDE DEF k
    <3>2. f[k] = finalizeIfLate(f[k - 1], k - 1, blocks)
      BY <1>2, <3>1
    <3> QED
      BY <3>1, <3>2 DEF k
  <2> HIDE DEF u
  <2>3. RestGoodBut(u, {}, n) /\ Held(s, u) /\ \A r \in u.ongoing : r.api < m => r.left >= 0
    BY <2>1 DEF TickedTo, u
  <2>4. /\ RestGoodBut(v, {}, n) /\ Held(u, v) /\ v.ongoing \subseteq u.ongoing
        /\ \A r \in v.ongoing : r.api = m => r.left >= 0
    BY <2>3, FinalizeIfLateGood
  <2> HIDE DEF v
  <2>5. Held(s, v)
    BY <2>3, <2>4 DEF Held, SameBut
  <2>6. \A r \in v.ongoing : r.api < m + 1 => r.left >= 0
    <3>1. \A r \in v.ongoing : r.api \in Int
      BY <2>4, StateFacts, OngoingFacts DEF RestGoodBut
    <3> QED
      BY <2>3, <2>4, <3>1
  <2> QED
    BY <2>2, <2>4, <2>5, <2>6 DEF TickedTo
<1> HIDE DEF S
<1>6. MaxRequests \in S
  BY <1>1, <1>4, <1>5, NatSetInduction
<1>7. TickedTo(s, t, n, MaxRequests)
  BY <1>1, <1>3, <1>6 DEF S
<1>8. \A r \in t.ongoing : r.api < MaxRequests
  <2>1. \A r \in t.ongoing : r.api \in 0..(n - 1)
    BY <1>7 DEF TickedTo, RestGoodBut, WaitOK
  <2> QED
    BY <1>1, <2>1
<1> QED
  BY <1>7, <1>8 DEF TickedTo, t

Aged(r) == [r EXCEPT !.left = @ - 1]

LEMMA TickStep ==
  ASSUME RestStrong, RestTick
  PROVE  RestStrong'
<1> DEFINE s == Rest
           n == s.flags.requests
           o == {Aged(r) : r \in s.ongoing}
           u == [s EXCEPT !.ongoing = o]
           same == [p \in o |-> CHOOSE r \in s.ongoing : p = Aged(r)]
<1>1. StrongAt(s)
  BY DEF RestStrong
<1>2. PICK blocks \in 1..MaxBlocks : RestBecomes(finalizeLate(u, blocks))
  BY DEF RestTick, Aged
<1> HIDE DEF s
<1>3. s \in RestStates /\ RestGoodBut(s, {}, n) /\ n \in Nat /\ n <= MaxRequests /\ \A r \in s.ongoing : r.left >= 0
  BY <1>1, StrongTypes DEF StrongAt
<1>4. ASSUME NEW r \in s.ongoing
      PROVE  /\ Aged(r) \in OngoingRequest /\ Aged(r).cb = r.cb /\ Aged(r).id = r.id /\ Aged(r).api = r.api
             /\ Aged(r).async = r.async /\ Aged(r).waits = r.waits
  <2>1. r \in OngoingRequest /\ r.left >= 0
    BY <1>3, StateFacts
  <2> DEFINE l == r.left - 1
  <2>2. l \in -1..MaxTimeout
    <3>1. r.left \in -1..MaxTimeout
      BY <2>1 DEF OngoingRequest
    <3> QED
      BY <2>1, <3>1, Bounds
  <2>3. Aged(r) = [r EXCEPT !.left = l]
    BY DEF Aged
  <2> HIDE DEF l
  <2> QED
    BY <2>1, <2>2, <2>3 DEF OngoingRequest
<1>5. o \in SUBSET OngoingRequest
  BY <1>4
<1>6. \A p \in o : same[p] \in s.ongoing /\ p = Aged(same[p])
  OBVIOUS
<1> HIDE DEF o, same
<1>7. u \in RestStates /\ u.conn = s.conn /\ u.flags = s.flags /\ u.ongoing = o /\ u.asked = s.asked
  BY <1>3, <1>5 DEF RestStates
<1> HIDE DEF u
<1>8. ASSUME NEW p \in o
      PROVE  same[p] \in s.ongoing /\ p.cb = same[p].cb /\ p.id = same[p].id /\ p.api = same[p].api
             /\ p.async = same[p].async /\ p.waits # {} /\ p.waits = same[p].waits \ {}
  <2>1. same[p] \in s.ongoing /\ p = Aged(same[p])
    BY <1>6
  <2> DEFINE r == same[p]
  <2> HIDE DEF r
  <2>2. r \in s.ongoing /\ p = Aged(r)
    BY <2>1 DEF r
  <2>3. r.waits # {}
    BY <1>3, <2>2 DEF RestGoodBut, WaitOK
  <2>4. p.cb = r.cb /\ p.id = r.id /\ p.api = r.api /\ p.async = r.async /\ p.waits = r.waits
    BY <1>4, <2>2
  <2> QED
    BY <2>2, <2>3, <2>4 DEF r
<1>9. \A p, e \in o : same[p] = same[e] => p = e
  BY <1>6
<1>10. ASSUME NEW r \in s.ongoing PROVE \E p \in o : same[p] = r
  <2> DEFINE p == Aged(r)
  <2>1. p \in o
    BY DEF o
  <2>2. p.api = r.api
    BY <1>4
  <2> HIDE DEF p
  <2>3. same[p] \in s.ongoing /\ same[p].api = r.api
    BY <1>8, <2>1, <2>2
  <2>4. same[p] = r
    BY <1>3, <2>3 DEF RestGoodBut
  <2> QED
    BY <2>1, <2>4
<1>11. Fewer(s, u, {}, same)
  BY <1>7, <1>8, <1>9, <1>10 DEF Fewer
<1>12. RestGoodBut(u, {}, n)
  BY <1>3, <1>7, <1>11, LessGood
<1> DEFINE t == finalizeLate(u, blocks)
<1> HIDE DEF n
<1>13. RestGoodBut(t, {}, n) /\ Held(u, t) /\ \A r \in t.ongoing : r.left >= 0
  BY <1>3, <1>12, FinalizeLateGood
<1>14. RestBecomes(t)
  BY <1>2
<1> HIDE DEF t
<1>15. Held(s, t)
  BY <1>7, <1>13 DEF Held
<1>16. StrongAt(t) /\ t \in RestStates
  BY <1>1, <1>13, <1>15, KeptStrong DEF n
<1> QED
  BY <1>14, <1>16, BecomesStrong

-----------------------------------------------------------------------------
LEMMA RestNextStrong ==
  ASSUME AsyncRaw = FALSE, RestStrong, [RestNext]_restVars
  PROVE  RestStrong'
<1>1. CASE UNCHANGED restVars
  <2>1. Rest' = Rest
    BY <1>1 DEF Rest, restVars
  <2> QED
    BY <2>1 DEF RestStrong
<1>2. ASSUME NEW c \in RestConns, FDNew(c) PROVE RestStrong'
  BY <1>2, NewStep
<1>3. ASSUME NEW c \in RestConns, FDDisconnectedHTTP(c) PROVE RestStrong'
  BY <1>3, DisconnectedStep
<1>4. ASSUME NEW c \in RestConns, FDSendComplete(c) PROVE RestStrong'
  BY <1>4, SendCompleteStep
<1>5. ASSUME NEW c \in RestConns, BodyArrives(c) PROVE RestStrong'
  BY <1>5, BodyStep
<1>6. ASSUME NEW c \in RestConns, respondAndClose(c) PROVE RestStrong'
  BY <1>6, RespondStep
<1>7. ASSUME NEW c \in RestConns, NEW r \in RestRequest, FDData(c, r) PROVE RestStrong'
  BY <1>7, DataStep
<1>8. ASSUME NEW c \in RestConns, FDDisconnectedFormer(c) PROVE RestStrong'
  BY <1>8, FormerStep
<1>9. ASSUME NEW q \in asked.waiting, SiteAnswers(q) PROVE RestStrong'
  BY <1>9, AnswersStep
<1>10. CASE RestTick
  BY <1>10, TickStep
<1> QED
  BY <1>1, <1>2, <1>3, <1>4, <1>5, <1>6, <1>7, <1>8, <1>9, <1>10 DEF RestNext, Clients

LEMMA RestInitStrong ==
  ASSUME RestInit
  PROVE  RestStrong
<1> DEFINE s == Rest
           k == [open |-> FALSE, client |-> 0, next |-> 0, latest |-> -1, queue |-> << >>,
                 buffer |-> 0, paused |-> FALSE, body |-> {}, up |-> FALSE, lingers |-> FALSE, lingered |-> FALSE]
<1>1. s = [conn |-> [c \in RestConns |-> k], ongoing |-> {}, asked |-> [waiting |-> {}, ready |-> {}],
           flags |-> [clients |-> 0, requests |-> 0, failed |-> FALSE]]
  BY DEF RestInit, Rest
<1>2. k \in HTTPConnObject
  <2>1. -1 \in RestIds /\ 0 \in RestIds /\ 0 \in 0..MaxClients /\ 0 \in 0..MaxBlocks
    BY Bounds
  <2>2. << >> \in Seq([id : RestIds, blocks : 1..MaxBlocks]) /\ {} \in SUBSET Piece
    OBVIOUS
  <2> QED
    BY ONLY <2>1, <2>2 DEF HTTPConnObject
<1>3. k.open = FALSE /\ k.client = 0 /\ k.next = 0 /\ k.queue = << >> /\ k.buffer = 0 /\ k.body = {} /\ k.up = FALSE
      /\ k.lingers = FALSE /\ k.lingered = FALSE
  OBVIOUS
<1> HIDE DEF s, k
<1>4. \A c \in RestConns : s.conn[c] = k
  BY <1>1
<1>5. s.ongoing = {} /\ s.flags.clients = 0 /\ s.flags.requests = 0 /\ s.flags.failed = FALSE
  BY <1>1
<1>6. s \in RestStates
  <2> DEFINE h == [c \in RestConns |-> k]
             a == [waiting |-> {}, ready |-> {}]
             g == [clients |-> 0, requests |-> 0, failed |-> FALSE]
  <2>1. h \in [RestConns -> HTTPConnObject]
    BY <1>2
  <2>2. a \in [waiting : SUBSET Question, ready : SUBSET Question]
    OBVIOUS
  <2>3. g \in [clients : 0..MaxClients, requests : 0..MaxRequests, failed : BOOLEAN]
    BY Bounds
  <2>4. s = [conn |-> h, ongoing |-> {}, asked |-> a, flags |-> g]
    BY <1>1
  <2> HIDE DEF h, a, g
  <2> QED
    BY <2>1, <2>2, <2>3, <2>4 DEF RestStates
<1>7. ConnOK(k, 0) /\ BodyOK(k, 0)
  <2>1. 0 \in 0..0 /\ 0 <= 0
    OBVIOUS
  <2>2. ~(k.open = TRUE) /\ ~k.open /\ ~k.up /\ ~k.lingers /\ k.open = k.up
    BY <1>3
  <2>3. ConnOK(k, 0)
    BY <1>3, <2>1, <2>2 DEF ConnOK
  <2>4. BodyOK(k, 0)
    BY <1>3, <2>1, <2>2 DEF BodyOK
  <2> QED
    BY <2>3, <2>4
<1>8. RestGoodBut(s, {}, 0)
  BY <1>3, <1>4, <1>5, <1>6, <1>7 DEF RestGoodBut
<1>9. StrongAt(s)
  BY <1>4, <1>5, <1>7, <1>8 DEF StrongAt
<1> QED
  BY <1>9 DEF RestStrong, s

\* An answer is in the queue, or it is owed, or it has been given.
LEMMA OnceOfStrong ==
  ASSUME RestStrong, NEW c \in RestConns, Serves(c), NEW id \in 0..(hconn[c].next - 1)
  PROVE  Cardinality(Queued(c, id)) + Cardinality(Owed(c, id)) = IF id <= hconn[c].latest THEN 0 ELSE 1
<1> DEFINE k == hconn[c]
           q == k.queue
           m == Len(q)
<1>1. RestGoodBut(Rest, {}, restFlags.requests) /\ k \in HTTPConnObject /\ ConnOK(k, restFlags.requests)
  BY StrongTypes DEF RestStrong, Rest
<1>2. k.open /\ ~k.lingered /\ QueueOK(k)
  BY <1>1 DEF ConnOK, Serves
<1>3. m \in Nat /\ DOMAIN q = 1..m /\ (\A i \in 1..m : q[i].id \in Int) /\ k.latest \in Int /\ k.next \in Int
  BY <1>1, HTTPConnFacts
<1>4. /\ \A r \in ongoing : ~r.async
      /\ \A r \in ongoing : r.cb = c => ToCome(k, r.id)
      /\ \A r, o \in ongoing : r.cb = c /\ r.cb = o.cb /\ r.id = o.id => r = o
      /\ \A j \in (k.latest + 1)..(k.next - 1) : j \in Ids(k) \/ \E r \in ongoing : r.cb = c /\ r.id = j
  <2>1. Rest.conn = hconn /\ Rest.ongoing = ongoing
    BY DEF Rest
  <2> HIDE DEF k
  <2>2. \A r \in Rest.ongoing : ~r.async
    BY <1>1 DEF RestGoodBut, WaitOK
  <2>3. \A r \in Rest.ongoing : ~Rest.conn[r.cb].lingered => ToCome(Rest.conn[r.cb], r.id)
    BY <1>1 DEF RestGoodBut
  <2>4. \A r, o \in Rest.ongoing : ~Rest.conn[r.cb].lingered /\ r.cb = o.cb /\ r.id = o.id => r = o
    BY <1>1 DEF RestGoodBut
  <2>5. Rest.conn[c].open /\ ~Rest.conn[c].lingered =>
          \A j \in (Rest.conn[c].latest + 1)..(Rest.conn[c].next - 1) :
             j \in Ids(Rest.conn[c]) \/ \E r \in Rest.ongoing : r.cb = c /\ r.id = j
    BY <1>1 DEF RestGoodBut
  <2> QED
    BY <1>2, <2>1, <2>2, <2>3, <2>4, <2>5 DEF k
<1>5. Ids(k) = {q[i].id : i \in 1..m} /\ Queued(c, id) = {i \in 1..m : q[i].id = id}
  BY <1>3 DEF Ids, Queued
<1>6. \A i, j \in 1..m : i < j => q[i].id < q[j].id
  BY <1>2, <1>3 DEF QueueOK
<1>7. Owed(c, id) = {r \in ongoing : r.cb = c /\ r.id = id}
  BY <1>4 DEF Owed
<1>8. \A j \in Ids(k) : k.latest < j
  BY <1>2 DEF QueueOK
<1>9. id \in Int /\ id < k.next
  BY <1>3
<1> HIDE DEF k, q, m
<1>10. CASE id <= k.latest
  <2>0. id \notin Ids(k)
    BY <1>3, <1>8, <1>9, <1>10
  <2>1. Queued(c, id) = {}
    BY <1>5, <2>0
  <2>2. Owed(c, id) = {}
    BY <1>3, <1>4, <1>7, <1>9, <1>10 DEF ToCome
  <2> QED
    BY <1>10, <2>1, <2>2, FS_EmptySet DEF k
<1>11. CASE ~(id <= k.latest) /\ id \in Ids(k)
  <2>1. PICK i \in 1..m : q[i].id = id
    BY <1>5, <1>11
  <2>2. \A j \in 1..m : q[j].id = id => j = i
    <3> SUFFICES ASSUME NEW j \in 1..m, q[j].id = id, j # i PROVE FALSE
      OBVIOUS
    <3>1. j < i \/ i < j
      BY <1>3
    <3> QED
      BY <1>3, <1>6, <2>1, <3>1
  <2>3. Queued(c, id) = {i}
    BY <1>5, <2>1, <2>2
  <2>4. Owed(c, id) = {}
    BY <1>4, <1>7, <1>11 DEF ToCome
  <2>5. Cardinality(Queued(c, id)) = 1 /\ Cardinality(Owed(c, id)) = 0
    BY <2>3, <2>4, FS_EmptySet, FS_Singleton
  <2> QED
    BY <1>11, <2>5 DEF k
<1>12. CASE ~(id <= k.latest) /\ id \notin Ids(k)
  <2>1. PICK r \in ongoing : r.cb = c /\ r.id = id
    BY <1>3, <1>4, <1>9, <1>12
  <2>2. Queued(c, id) = {}
    BY <1>5, <1>12
  <2>3. Owed(c, id) = {r}
    BY <1>4, <1>7, <2>1
  <2>4. Cardinality(Queued(c, id)) = 0 /\ Cardinality(Owed(c, id)) = 1
    BY <2>2, <2>3, FS_EmptySet, FS_Singleton
  <2> QED
    BY <1>12, <2>4 DEF k
<1> QED
  BY <1>10, <1>11, <1>12

LEMMA RestInvOfStrong ==
  ASSUME RestStrong
  PROVE  RestInv
<1>1. /\ StrongAt(Rest) /\ Rest \in RestStates
      /\ Rest.conn = hconn /\ Rest.ongoing = ongoing /\ Rest.asked = asked /\ Rest.flags = restFlags
  BY StrongTypes DEF RestStrong, Rest
<1>2. \A c \in RestConns : hconn[c] \in HTTPConnObject /\ ConnOK(hconn[c], restFlags.requests) /\ BodyOK(hconn[c], restFlags.clients)
  BY <1>1, StrongTypes
<1>3. ongoing \subseteq OngoingRequest /\ asked \in [waiting : SUBSET Question, ready : SUBSET Question]
      /\ restFlags \in [clients : 0..MaxClients, requests : 0..MaxRequests, failed : BOOLEAN]
  BY <1>1, StateFacts
<1>4. RestTypeOK
  <2>1. ASSUME NEW c \in RestConns
        PROVE  LET k == hconn[c] IN
               /\ k.open \in BOOLEAN /\ k.up \in BOOLEAN /\ k.paused \in BOOLEAN /\ k.lingers \in BOOLEAN /\ k.client \in 0..MaxClients
               /\ k.next \in RestIds /\ k.latest \in RestIds /\ k.buffer \in 0..MaxBlocks /\ k.body \subseteq Piece
               /\ \A i \in DOMAIN k.queue : k.queue[i] \in [id : RestIds, blocks : 1..MaxBlocks]
    <3> DEFINE k == hconn[c]
    <3>1. k \in HTTPConnObject
      BY <1>2
    <3> HIDE DEF k
    <3>2. /\ k.open \in BOOLEAN /\ k.up \in BOOLEAN /\ k.paused \in BOOLEAN /\ k.lingers \in BOOLEAN /\ k.client \in 0..MaxClients
          /\ k.next \in RestIds /\ k.latest \in RestIds /\ k.buffer \in 0..MaxBlocks /\ k.body \subseteq Piece
      BY <3>1 DEF HTTPConnObject
    <3>3. \A i \in DOMAIN k.queue : k.queue[i] \in [id : RestIds, blocks : 1..MaxBlocks]
      BY <3>1, HTTPConnFacts DEF Entries
    <3> QED
      BY <3>2, <3>3 DEF k
  <2>2. asked.waiting \cup asked.ready \subseteq RestSites \X RestIds
    BY <1>3 DEF Question
  <2>3. restFlags.requests \in 0..MaxRequests /\ restFlags.failed \in BOOLEAN
    BY <1>3
  <2> QED
    BY <1>3, <2>1, <2>2, <2>3 DEF RestTypeOK
<1>5. AnsweredOnce
  <2>1. ASSUME NEW c \in RestConns, Serves(c), NEW i \in DOMAIN hconn[c].queue
        PROVE  hconn[c].queue[i].id \in 0..(hconn[c].next - 1)
    <3> DEFINE k == hconn[c]
    <3>1. k \in HTTPConnObject /\ QueueOK(k)
      BY <1>2, <2>1 DEF ConnOK, Serves
    <3> HIDE DEF k
    <3>2. k.latest \in RestIds /\ k.latest \in Int /\ k.next \in Int /\ \A j \in DOMAIN k.queue : k.queue[j].id \in Int
      BY <3>1, HTTPConnFacts DEF HTTPConnObject
    <3>3. k.latest >= -1
      BY <3>2, Bounds
    <3>4. \A j \in DOMAIN k.queue : k.latest < k.queue[j].id /\ k.queue[j].id < k.next
      BY <3>1 DEF QueueOK, Ids
    <3>5. \A j \in DOMAIN k.queue : k.queue[j].id \in 0..(k.next - 1)
      BY <3>2, <3>3, <3>4
    <3> QED
      BY <2>1, <3>5 DEF k
  <2> QED
    BY <2>1, OnceOfStrong DEF AnsweredOnce
<1>6. NothingHeldBack
  <2> SUFFICES ASSUME NEW c \in RestConns, Serves(c), ~hconn[c].paused
               PROVE  hconn[c].buffer = 0 /\ \A i \in DOMAIN hconn[c].queue : hconn[c].queue[i].id # hconn[c].latest + 1
    BY DEF NothingHeldBack
  <2>1. HeldOK(hconn[c])
    BY <1>2 DEF ConnOK, Serves
  <2> QED
    BY <2>1 DEF HeldOK, Ids
<1>7. RestNoAssert
  BY <1>1 DEF RestNoAssert, StrongAt, RestGoodBut
<1>8. BodyOfRequest
  BY <1>2 DEF BodyOfRequest, BodyOK, Serves
<1>9. WaitsForSomeone
  <2>1. \A r \in ongoing : WaitOK(Rest, r, restFlags.requests) /\ r.left >= 0
    BY <1>1 DEF StrongAt, RestGoodBut
  <2>2. \A r, o \in ongoing : r.api = o.api => r = o
    BY <1>1 DEF StrongAt, RestGoodBut
  <2>3. \A r \in ongoing : r.waits \subseteq asked.waiting /\ (r.async \/ r.waits # {}) /\ r.left >= 0
    BY <1>1, <2>1 DEF WaitOK
  <2>4. ASSUME NEW r \in ongoing, NEW o \in ongoing, r.waits \cap o.waits # {} PROVE r = o
    <3>1. PICK q \in r.waits : q \in o.waits
      BY <2>4
    <3>2. q[2] = r.api /\ q[2] = o.api
      BY <2>1, <3>1 DEF WaitOK
    <3> QED
      BY <2>2, <3>2
  <2> QED
    BY <2>3, <2>4 DEF WaitsForSomeone
<1> QED
  BY <1>4, <1>5, <1>6, <1>7, <1>8, <1>9 DEF RestInv

\* Every request is answered once, in turn and to the client that made it, none is
\* held back or forgotten, and no answer is given to a connection whose client has
\* gone unless a socket of it lingered (HTTPConn, RestApi).  Clients that post raw
\* commands with "async" are left out: with them a request is really never answered.
THEOREM RestCorrect ==
  ASSUME AsyncRaw = FALSE
  PROVE  RestSpec => []RestInv
<1>1. RestInit => RestStrong
  BY RestInitStrong
<1>2. RestStrong /\ [RestNext]_restVars => RestStrong'
  BY RestNextStrong
<1>3. RestStrong => RestInv
  BY RestInvOfStrong
<1> QED
  BY <1>1, <1>2, <1>3, PTL DEF RestSpec
=============================================================================
