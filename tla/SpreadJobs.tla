----------------------------- MODULE SpreadJobs -----------------------------
(***************************************************************************)
(* The life of spread jobs: Engine's lists of jobs, prepared jobs and its  *)
(* one second tick (src/src/engine.cpp), the Race with its reports of      *)
(* finished sites (race.cpp), the SiteRace of each site (siterace.cpp) and *)
(* the jobs a SiteLogic serves (sitelogic.cpp).                            *)
(*                                                                         *)
(* Every handler runs in the one main thread and is one action; the tick   *)
(* is a sequence of them (TickBegin, one TickJob per current job, TickEnd) *)
(* during which nothing else runs.  What the file lists say is an input:   *)
(* a refreshed list may report any combination of directory states.  Jobs  *)
(* are told apart by name and section; two jobs with the same name in      *)
(* different sections, which SiteLogic::getRace confuses, are outside the  *)
(* model.                                                                  *)
(***************************************************************************)
EXTENDS Integers, FiniteSets, Sequences, SequencesExt

CONSTANTS Race,          \* jobs that may be started
          Site,
          Affil,         \* sites affiliated with the group: download-only
          Upload,        \* sites that allow uploads
          Timed,         \* sites with a maximum spread job time
          MaxHistory,    \* maxspreadjobshistory
          Ask,           \* the jobs the user asks for
          MaxPrepared,   \* bound on the prepared jobs kept
          MaxFlight,     \* bound on the listings under way
          ExpiryTime,    \* preparedraceexpirytime, in ticks
          SoftChecks,    \* MAX_CHECKS_BEFORE_TIMEOUT
          HardChecks,    \* MAX_CHECKS_BEFORE_HARD_TIMEOUT
          EmptyDirs      \* whether listed subdirectories may stay empty

Profiles == {"race", "distribute", "prepare"}

ASSUME SpreadAssumption ==
  /\ Affil \subseteq Site /\ Upload \subseteq Site /\ Timed \subseteq Site
  /\ {MaxHistory, MaxPrepared, MaxFlight, ExpiryTime, SoftChecks, HardChecks} \subseteq Nat
  /\ SoftChecks < HardChecks /\ EmptyDirs \in BOOLEAN /\ IsFiniteSet(Site)
  /\ Ask \subseteq [race : Race, sites : SUBSET Site, dl : SUBSET Site,
                     reset : BOOLEAN, prof : Profiles]

VARIABLES
  job,       \* the Race of each job, with the states of its SiteRaces
  enlisted,  \* SiteLogic::currentraces of each site
  flight,    \* listings under way on behalf of a SiteRace
  eng,       \* the engine's lists, timers and poke
  todo,      \* the tick: the jobs it has still to visit
  crashed    \* checkIfRaceComplete has used the null SiteRace

spvars == <<job, enlisted, flight, eng, todo, crashed>>

Over == {"DONE", "ABORTED", "TIMEOUT"}
NotTicking == [on |-> FALSE, quiet |-> FALSE, left |-> {}]

JobRec == [st : Over \cup {"none", "RUNNING"},
           sr : [Site -> Over \cup {"out", "RUNNING"}],
           dl : SUBSET Site, semi : SUBSET Site, done : SUBSET Site,
           prof : Profiles, checks : 0..HardChecks, cleared : BOOLEAN,
           poke : BOOLEAN]
Prepared == [race : Race, sites : SUBSET Site, dl : SUBSET Site,
             reset : BOOLEAN, ttl : -1..ExpiryTime]

NoJob == [st |-> "none", sr |-> [s \in Site |-> "out"], dl |-> {},
          semi |-> {}, done |-> {}, prof |-> "race", checks |-> 0,
          cleared |-> FALSE, poke |-> FALSE]

Sites(j) == {s \in Site : j.sr[s] # "out"}
Running(j) == {s \in Site : j.sr[s] = "RUNNING"}

SpreadTypeOK ==
  /\ job \in [Race -> JobRec]
  /\ enlisted \in [Site -> SUBSET Race]
  /\ flight \in [Race -> [Site -> {"no", "stat", "data"}]]
  /\ eng \in [current : SUBSET Race, all : SUBSET Race, finished : Seq(Race),
              prepared : Seq(Prepared), startnext : BOOLEAN, poke : BOOLEAN]
  /\ Len(eng.prepared) <= MaxPrepared
  /\ todo \in [on : BOOLEAN, quiet : BOOLEAN, left : SUBSET Race]
  /\ crashed \in BOOLEAN

SpreadInit ==
  /\ job = [r \in Race |-> NoJob]
  /\ enlisted = [s \in Site |-> {}]
  /\ flight = [r \in Race |-> [s \in Site |-> "no"]]
  /\ eng = [current |-> {}, finished |-> <<>>, all |-> {}, prepared |-> <<>>,
            startnext |-> FALSE, poke |-> FALSE]
  /\ todo = NotTicking
  /\ crashed = FALSE

Ready == ~todo.on /\ ~crashed

(***************************************************************************)
(* Race: the reports of its sites.                                         *)
(***************************************************************************)
setDone(j) == [j EXCEPT !.st = "DONE", !.poke = FALSE]

setUndone(j) == [j EXCEPT !.st = "RUNNING", !.cleared = FALSE,
                          !.checks = 0, !.poke = TRUE]

remainingSitesAreDownloadOnly(j, reported) ==
  Sites(j) \ reported \subseteq j.dl

AllReported(j, reported) ==
  \/ Cardinality(reported) = Cardinality(Sites(j))
  \/ remainingSitesAreDownloadOnly(j, reported)

\* SiteRace::complete, abort and timeout: a SiteRace leaves RUNNING once.
SiteEnds(j, S, how) ==
  [j EXCEPT !.sr = [s \in Site |->
     IF s \in S /\ j.sr[s] = "RUNNING" THEN how ELSE j.sr[s]]]

checkIfAllSemiDone(j) ==
  IF AllReported(j, j.semi)
  THEN SiteEnds(setDone(j), Site, "DONE")
  ELSE j

reportSemiDone(j, s) ==
  IF s \in j.semi THEN j
  ELSE checkIfAllSemiDone([j EXCEPT !.semi = @ \cup {s}])

reportDone(j, s) ==
  IF s \in j.done THEN j
  ELSE LET k == [reportSemiDone(j, s) EXCEPT !.done = @ \cup {s}]
       IN IF AllReported(k, k.done) THEN setDone(k) ELSE k

\* Variant: a removed site stays among the sites that have reported.
removeSiteKeepsReports(j, s) == [j EXCEPT !.sr[s] = "out", !.dl = @ \ {s}]

removeSite(j, s) ==
  [j EXCEPT !.sr[s] = "out", !.dl = @ \ {s}, !.semi = @ \ {s},
            !.done = @ \ {s}]

\* Race::reset and SiteRace::reset of every site.
ResetRec(j) ==
  [(IF j.st = "RUNNING" THEN j ELSE setUndone(j)) EXCEPT
     !.cleared = FALSE, !.checks = 0, !.semi = {}, !.done = {},
     !.sr = [s \in Site |-> IF s \in Sites(j) THEN "RUNNING" ELSE "out"]]

(***************************************************************************)
(* SiteLogic::removeRace: the job leaves the list of the site, and a       *)
(* connection that lists for it by STAT forgets its owner.  A LIST over a  *)
(* data connection keeps its owner in the transfer monitor.                *)
(***************************************************************************)
RemoveRace(r, S) ==
  /\ enlisted' = [s \in Site |->
       IF s \in S THEN enlisted[s] \ {r} ELSE enlisted[s]]
  /\ flight' = [flight EXCEPT ![r] = [s \in Site |->
       IF s \in S /\ @[s] = "stat" THEN "no" ELSE @[s]]]

Enlist(r, S) ==
  enlisted' = [s \in Site |->
    IF s \in S THEN enlisted[s] \cup {r} ELSE enlisted[s]]

(***************************************************************************)
(* The engine's lists.                                                     *)
(***************************************************************************)
rotateSpreadJobsHistory(e) ==
  LET over == Cardinality(e.all) - MaxHistory
      n == IF over > Len(e.finished) THEN Len(e.finished) ELSE over
  IN IF over <= 0 THEN e
     ELSE [e EXCEPT !.all = @ \ ToSet(SubSeq(e.finished, 1, n)),
                    !.finished = SubSeq(e.finished, n + 1, Len(e.finished))]

\* A job the history drops is destroyed.
Forgotten(jobs, e) == [r \in Race |-> IF r \in e.all THEN jobs[r] ELSE NoJob]

Finish(e, r) ==
  rotateSpreadJobsHistory(
    [e EXCEPT !.current = @ \ {r},
              !.finished = IF r \in e.current THEN Append(@, r) ELSE @])

checkStartPoke(e) == [e EXCEPT !.poke = TRUE]
removeFromFinished(e, r) ==
  [e EXCEPT !.current = @ \cup {r}, !.finished = RemoveFirst(@, r)]

\* A job ends: issueGlobalComplete takes it from every site it is on.
raceComplete(r, j) ==
  /\ eng' = Finish(eng, r)
  /\ job' = Forgotten([job EXCEPT ![r] = j], eng')
  /\ RemoveRace(r, Sites(j))

(***************************************************************************)
(* newSpreadJob: a new job, sites for a known one (append), or a prepared  *)
(* job.  The sites asked for that may not take part are left out.          *)
(***************************************************************************)
DownloadOnly(s, dlw, prof) == s \in dlw \/ (s \in Affil /\ prof # "distribute")

AddSites(r, want, dlw) ==
  {s \in want \cup dlw : job[r].st = "none" \/ s \notin Sites(job[r])}

TransferPossible(add, dl) ==
  \E src, dst \in add : src # dst /\ dst \notin dl /\ dst \in Upload

Prepare(r, add, dl, reset) ==
  /\ Len(eng.prepared) < MaxPrepared
  /\ eng' = [checkStartPoke(eng) EXCEPT !.prepared =
               Append(@, [race |-> r, sites |-> add \ dl,
                          dl |-> dl, reset |-> reset, ttl |-> ExpiryTime])]
  /\ UNCHANGED <<job, enlisted, flight>>

\* addSiteToRace decides download-only by the profile the job was made with.
WithSites(j, add, dlw) ==
  [j EXCEPT !.sr = [s \in Site |-> IF s \in add THEN "RUNNING" ELSE j.sr[s]],
            !.dl = @ \cup {s \in add : DownloadOnly(s, dlw, j.prof)}]

\* e is the engine's state with the prepared job taken out, if one is started.
StartNew(r, add, dl, prof, e) ==
  /\ job[r].st = "none"
  /\ LET j == WithSites([setUndone(NoJob) EXCEPT !.prof = prof], add, dl)
         f == checkStartPoke(e)
     IN /\ eng' = rotateSpreadJobsHistory(
                    [f EXCEPT !.current = @ \cup {r}, !.all = @ \cup {r}])
        /\ job' = Forgotten([job EXCEPT ![r] = j], eng')
  /\ Enlist(r, add)
  /\ UNCHANGED flight

AppendTo(r, add, dl, reset, e) ==
  /\ job[r].st # "none"
  /\ LET known == job[r]
         base == IF reset THEN ResetRec(known)
                 ELSE IF r \in e.current THEN known ELSE setUndone(known)
     IN /\ job' = [job EXCEPT ![r] = WithSites(base, add, dl)]
        /\ Enlist(r, IF reset \/ r \notin e.current
                     THEN Sites(known) \cup add ELSE add)
        /\ eng' = checkStartPoke(removeFromFinished(e, r))
  /\ UNCHANGED flight

\* The checks that make newSpreadJob ignore the attempt.
Startable(r, add, dl, prof) ==
  job[r].st = "none" =>
    /\ Cardinality(add) >= 2
    /\ prof = "distribute" \/ TransferPossible(add, dl)

Start(r, add, dl, reset, prof, e) ==
  StartNew(r, add, dl, prof, e) \/ AppendTo(r, add, dl, reset, e)

newSpreadJob(r, want, dlw, reset, prof) ==
  /\ Ready
  /\ LET add == AddSites(r, want, dlw)
         dl == {s \in add : DownloadOnly(s, dlw, prof)}
     IN /\ Startable(r, add, dl, prof)
        /\ IF prof = "prepare" /\ ~eng.startnext
           THEN Prepare(r, add, dl, reset)
           ELSE Start(r, add, dl, reset, prof,
                      [eng EXCEPT !.startnext = @ /\ prof # "prepare"])
  /\ UNCHANGED <<todo, crashed>>

\* startPreparedRace; the prepared job goes away even when it cannot start.
startPreparedRace(i) ==
  /\ Ready
  /\ LET p == eng.prepared[i]
         e == [eng EXCEPT !.prepared = RemoveAt(@, i)]
         add == AddSites(p.race, p.sites, p.dl)
         dl == {s \in add : DownloadOnly(s, p.dl, "race")}
     IN IF Startable(p.race, add, dl, "race")
        THEN Start(p.race, add, dl, p.reset, "race", e)
        ELSE eng' = e /\ UNCHANGED <<job, enlisted, flight>>
  /\ UNCHANGED <<todo, crashed>>

deletePreparedRace(i) ==
  /\ Ready
  /\ eng' = [eng EXCEPT !.prepared = RemoveAt(@, i)]
  /\ UNCHANGED <<job, enlisted, flight, todo, crashed>>

toggleStartNextPreparedRace ==
  /\ Ready
  /\ eng' = IF eng.startnext THEN [eng EXCEPT !.startnext = FALSE]
            ELSE [checkStartPoke(eng) EXCEPT !.startnext = TRUE]
  /\ UNCHANGED <<job, enlisted, flight, todo, crashed>>

(***************************************************************************)
(* The user takes a site from a job, aborts a job or resets it.            *)
(***************************************************************************)
removeSiteFromRace(r, s) ==
  /\ Ready /\ job[r].st # "none" /\ s \in Sites(job[r])
  /\ job' = [job EXCEPT ![r] = removeSite(job[r], s)]
  /\ enlisted' = [enlisted EXCEPT ![s] = @ \ {r}]
  /\ flight' = [flight EXCEPT ![r][s] = "no"]
  /\ UNCHANGED <<eng, todo, crashed>>

abortRace(r) ==
  /\ Ready /\ job[r].st = "RUNNING"
  /\ raceComplete(r, SiteEnds([setDone(job[r]) EXCEPT !.st = "ABORTED"],
                              Site, "ABORTED"))
  /\ UNCHANGED <<todo, crashed>>

resetRace(r) ==
  /\ Ready /\ job[r].st # "none"
  /\ job' = [job EXCEPT ![r] = ResetRec(job[r])]
  /\ Enlist(r, Sites(job[r]))
  /\ eng' = checkStartPoke(removeFromFinished(eng, r))
  /\ UNCHANGED <<flight, todo, crashed>>

(***************************************************************************)
(* Listings and transfers.                                                 *)
(***************************************************************************)
Flying == Cardinality({p \in Race \X Site : flight[p[1]][p[2]] # "no"})

\* handleSpreadJob picks a job of the site that is not over there.
ListStart(r, s, how) ==
  /\ Ready /\ r \in enlisted[s] /\ job[r].sr[s] = "RUNNING"
  /\ flight[r][s] = "no" /\ Flying < MaxFlight
  /\ flight' = [flight EXCEPT ![r][s] = how]
  /\ UNCHANGED <<job, enlisted, eng, todo, crashed>>

\* What the directories of the job look like on the site: complete, empty
\* and of unknown size, not (yet) as they should be.
DirStates == IF EmptyDirs THEN {"complete", "empty", "unfinished"}
             ELSE {"complete", "unfinished"}

\* checkIfRaceComplete, with the SiteRace of the site's list of jobs.
checkIfRaceComplete(r, s, dirs) ==
  IF "complete" \in dirs /\ "unfinished" \notin dirs
  THEN LET k == IF "empty" \in dirs THEN reportSemiDone(job[r], s)
                ELSE reportDone(SiteEnds(job[r], {s}, "DONE"), s)
       IN IF k.st = "RUNNING"
          THEN /\ job' = [job EXCEPT ![r] = k]
               /\ flight' = [flight EXCEPT ![r][s] = "no"]
               /\ UNCHANGED <<enlisted, eng>>
          ELSE /\ eng' = Finish(eng, r)
               /\ job' = Forgotten([job EXCEPT ![r] = k], eng')
               /\ enlisted' = [t \in Site |->
                    IF t \in Sites(k) THEN enlisted[t] \ {r} ELSE enlisted[t]]
               /\ flight' = [flight EXCEPT ![r] = [t \in Site |->
                    IF t = s \/ (t \in Sites(k) /\ @[t] = "stat")
                    THEN "no" ELSE @[t]]]
  ELSE /\ flight' = [flight EXCEPT ![r][s] = "no"]
       /\ UNCHANGED <<job, enlisted, eng>>

\* The listing is in; under overload the engine drops the refresh.
jobFileListRefreshed(r, s, overload, dirs) ==
  /\ Ready /\ flight[r][s] # "no"
  /\ LET live == job[r].sr[s] = "RUNNING"
     IN CASE ~live \/ overload ->
               /\ flight' = [flight EXCEPT ![r][s] = "no"]
               /\ UNCHANGED <<job, enlisted, eng, crashed>>
          [] live /\ ~overload /\ r \notin enlisted[s] ->
               /\ crashed' = TRUE
               /\ UNCHANGED <<job, enlisted, flight, eng>>
          [] OTHER -> checkIfRaceComplete(r, s, dirs) /\ UNCHANGED crashed
  /\ UNCHANGED todo

(***************************************************************************)
(* The tick.                                                               *)
(***************************************************************************)
\* quiet: no list has changed since the last tick and no transfer is expected.
TickBegin(quiet) ==
  /\ Ready /\ eng.poke
  /\ todo' = [on |-> TRUE, quiet |-> quiet, left |-> eng.current]
  /\ eng' \in {eng, [eng EXCEPT !.startnext = FALSE]}
  /\ UNCHANGED <<job, enlisted, flight, crashed>>

\* timeoutCheck: whether the job has been quiet for too long, and the
\* counter.  lists: what the lists of the sites look like, "changed" since
\* the last tick, all "refreshed" since the last change, or neither.
TimeoutCheck(j, lists) ==
  LET checks == IF lists = "changed" /\ Running(j) # {} THEN 0 ELSE j.checks
      refreshed == lists = "refreshed" \/ Running(j) = {}
  IN IF j.checks >= HardChecks
     THEN [late |-> TRUE, checks |-> j.checks]
     ELSE IF checks > SoftChecks /\ refreshed
     THEN [late |-> TRUE, checks |-> checks]
     ELSE [late |-> FALSE, checks |-> checks + 1]

\* The job is quiet for too long, or has taken too long.
TimedOut(r, j) ==
  raceComplete(r, SiteEnds([setDone(j) EXCEPT !.st = "TIMEOUT"], Site,
                           "TIMEOUT"))

\* The rest of the visit: sites that have taken too long, and the check
\* whether the remaining sites have all reported.
TickSites(r, j, slow) ==
  LET k == checkIfAllSemiDone(SiteEnds(j, slow, "TIMEOUT"))
  IN IF k.st = "RUNNING"
     THEN job' = [job EXCEPT ![r] = k] /\ UNCHANGED <<enlisted, flight, eng>>
     ELSE raceComplete(r, k)

\* Variant: the attempts are cleared without remembering it.
RetriedForgets(j, what) ==
  [j EXCEPT !.checks = IF what = "attempts" THEN 0 ELSE @]

\* clearTransferAttempts: the failed transfers are tried once more.
Retried(j, what) ==
  [j EXCEPT !.cleared = TRUE, !.checks = IF what = "attempts" THEN 0 ELSE @]

\* what: an element of the scoreboard is expected to be transferred soon
\* ("waiting"), the job has taken too long ("toolong"), transfers of the job
\* were attempted since the last clearing ("attempts"), or nothing of that.
TickJob(r, lists, what, slow) ==
  /\ todo.on /\ r \in todo.left
  /\ todo.quiet => lists # "changed" /\ what # "waiting"
  /\ LET check == TimeoutCheck(job[r], lists)
         quiet == check.late /\ what # "waiting"
         j == [job[r] EXCEPT !.checks = check.checks]
     IN CASE check.late /\ what = "waiting" ->
               /\ job' = [job EXCEPT ![r] = [j EXCEPT !.checks = 0]]
               /\ UNCHANGED <<enlisted, flight, eng>>
          [] (quiet /\ j.cleared) \/ what = "toolong" -> TimedOut(r, j)
          [] OTHER -> TickSites(r, IF quiet THEN Retried(j, what) ELSE j, slow)
  /\ todo' = [todo EXCEPT !.left = @ \ {r}]
  /\ UNCHANGED crashed

StopPoke(e) ==
  IF e.current = {} /\ e.prepared = <<>> /\ ~e.startnext
  THEN [e EXCEPT !.poke = FALSE] ELSE e

\* The prepared jobs that have not expired, one after the other.
Unexpired(list) ==
  LET kept[i \in 0..Len(list)] ==
        IF i = 0 THEN <<>>
        ELSE IF list[i].ttl < 0 THEN kept[i - 1] ELSE Append(kept[i - 1], list[i])
  IN kept[Len(list)]

TickEnd ==
  /\ todo.on /\ todo.left = {}
  /\ LET aged == [i \in DOMAIN eng.prepared |->
                    [eng.prepared[i] EXCEPT !.ttl = @ - 1]]
     IN eng' = StopPoke([eng EXCEPT !.prepared = Unexpired(aged)])
  /\ todo' = NotTicking
  /\ UNCHANGED <<job, enlisted, flight, crashed>>

SpreadUser ==
  \/ \E a \in Ask : newSpreadJob(a.race, a.sites, a.dl, a.reset, a.prof)
  \/ \E i \in DOMAIN eng.prepared : startPreparedRace(i)
  \/ \E i \in DOMAIN eng.prepared : deletePreparedRace(i)
  \/ toggleStartNextPreparedRace
  \/ \E r \in Race, s \in Site : removeSiteFromRace(r, s)
  \/ \E r \in Race : abortRace(r)
  \/ \E r \in Race : resetRace(r)

SpreadList ==
  \/ \E r \in Race, s \in Site, how \in {"stat", "data"} : ListStart(r, s, how)
  \/ \E r \in Race, s \in Site, overload \in BOOLEAN,
        dirs \in (SUBSET DirStates) \ {{}} :
       jobFileListRefreshed(r, s, overload, dirs)

SpreadTick ==
  \/ \E quiet \in BOOLEAN : TickBegin(quiet)
  \/ \E r \in Race, lists \in {"changed", "refreshed", "other"},
        what \in {"waiting", "toolong", "attempts", "nothing"},
        slow \in SUBSET Timed :
       TickJob(r, lists, what, slow)
  \/ TickEnd

SpreadNext == SpreadUser \/ SpreadList \/ SpreadTick
SpreadSpec == SpreadInit /\ [][SpreadNext]_spvars

(***************************************************************************)
(* Properties.                                                             *)
(***************************************************************************)
\* Every job is in the history, and either current and running or finished
\* and over; no job is finished twice, however aborts, resets, restarts and
\* ends follow each other.
JobBooks ==
  /\ eng.all = {r \in Race : job[r].st # "none"}
  /\ eng.current = {r \in Race : job[r].st = "RUNNING"}
  /\ ToSet(eng.finished) = eng.all \ eng.current
  /\ Len(eng.finished) = Cardinality(ToSet(eng.finished))
  /\ Cardinality(eng.all) > MaxHistory => eng.finished = <<>>

\* The engine's poke runs as long as anything waits for its tick, and a
\* Race counts its time exactly while it is running.
TickerRuns ==
  /\ eng.current # {} \/ eng.prepared # <<>> \/ eng.startnext => eng.poke
  /\ \A r \in Race : job[r].poke <=> job[r].st = "RUNNING"

\* A site serves exactly the current jobs it takes part in.
SitesServe ==
  \A s \in Site :
    enlisted[s] = {r \in Race : job[r].st = "RUNNING" /\ s \in Sites(job[r])}

\* Only sites of the job have reported, and a site that has reported done
\* has reported semi done.
ReportsOfSites ==
  \A r \in Race : job[r].done \subseteq job[r].semi
                  /\ job[r].semi \subseteq Sites(job[r])

\* When a job is over, it is over on all its sites but for download-only
\* ones.  Such a site is left running when the last other site was removed
\* after the rest had reported semi done; only the listing that is then still
\* under way meets the null SiteRace.
OverEverywhere ==
  /\ \A r \in Race : job[r].st \in Over => Running(job[r]) \subseteq job[r].dl
  /\ crashed => EmptyDirs /\ \E r \in Race :
                  job[r].st \in Over /\ Running(job[r]) # {}

\* The engine's lists, the sites' lists, the jobs and their pokes tell the same
\* story, whichever way a job starts, grows, loses sites and ends.
SpreadInv ==
  SpreadTypeOK /\ JobBooks /\ TickerRuns /\ SitesServe /\ ReportsOfSites /\ OverEverywhere

\* Fairness: the tick is poked every second and runs to its end.
SpreadFairness == WF_spvars(SpreadTick)
SpreadLiveSpec == SpreadSpec /\ SpreadFairness

\* A job ends, by its reports or by the timeouts, once its ticks are quiet
\* and nobody restarts its count of quiet seconds.
QuietJobEnds ==
  \A r \in Race :
    /\ <>[](todo.on => todo.quiet)
    /\ <>[][~todo.on => job'[r].checks = job[r].checks
                        /\ job'[r].cleared = job[r].cleared]_spvars
    => []<>(job[r].st # "RUNNING" \/ crashed)
=============================================================================
