----------------------------- MODULE RaceProofs -----------------------------
(***************************************************************************)
(* Proofs about the two ends of a race: the spread jobs that start the     *)
(* transfers and the monitor that runs one, for any jobs, sites, requests, *)
(* bounds and transfer modes.                                              *)
(*                                                                         *)
(* SpreadJobs: the engine's lists, the sites' lists, the jobs and their    *)
(* pokes tell the same story.  SpreadInv is not inductive.  That a job     *)
(* which is over is over on every site but for download-only ones needs    *)
(* that a site which has reported done no longer runs; that the null       *)
(* SiteRace is met only where listed directories may stay empty needs that *)
(* otherwise the same sites have reported done and semi done; and the tick *)
(* may visit its jobs one after the other because those still to be        *)
(* visited stay current.                                                   *)
(*                                                                         *)
(* TransferMonitor: a handler passes a state along, so the invariant is of *)
(* states.  GoodBut(s, X) says that s is good but for the sides X whose    *)
(* part has just ended and whose connections are about to be given back;   *)
(* each operation has a lemma saying which X it takes and which it leaves, *)
(* and a handler is good when the chain of its calls ends at the empty X.  *)
(***************************************************************************)
EXTENDS SpreadJobs, TransferMonitor, FiniteSetTheorems, SequenceTheorems, WellFoundedInduction, TLAPS

\* A job, whatever happens to the others.
JobBase(j) ==
  /\ j \in JobRec
  /\ j.st = "none" => j = NoJob
  /\ j.poke <=> j.st = "RUNNING"
  /\ j.done \subseteq j.semi /\ j.semi \subseteq Sites(j)
  /\ j.done \cap Running(j) = {}
  /\ j.st \in Over => Running(j) \subseteq j.dl

\* Where no listed directory stays empty sites report done and semi done at once.
SameReports(j) ==
  ~EmptyDirs => j.semi = j.done /\ (j.st \in Over => Running(j) = {})

JobOK(j) == JobBase(j) /\ SameReports(j)

EngineRec == [current : SUBSET Race, all : SUBSET Race, finished : Seq(Race),
              prepared : Seq(Prepared), startnext : BOOLEAN, poke : BOOLEAN]

NoRepeat(s) == \A i, k \in 1..Len(s) : s[i] = s[k] => i = k

\* The engine's lists against the states of the jobs, before old jobs go.
Listed(jobs, e) ==
  /\ e \in EngineRec /\ IsFiniteSet(e.all)
  /\ e.all = {r \in Race : jobs[r].st # "none"}
  /\ e.current = {r \in Race : jobs[r].st = "RUNNING"}
  /\ NoRepeat(e.finished) /\ ToSet(e.finished) = e.all \ e.current

Poked(e) == e.current # {} \/ e.prepared # <<>> \/ e.startnext => e.poke

\* The lists once old jobs have gone.
EngineOK(jobs, e) ==
  /\ Listed(jobs, e) /\ Poked(e)
  /\ Cardinality(e.all) > MaxHistory => e.finished = <<>>
  /\ Len(e.prepared) <= MaxPrepared

Serves(jobs, lists) ==
  \A s \in Site : lists[s] = {r \in Race : jobs[r].st = "RUNNING" /\ s \in Sites(jobs[r])}

Jobs(jobs) == jobs = [r \in Race |-> jobs[r]]
Flights == [Race -> [Site -> {"no", "stat", "data"}]]

AllOK(jobs) == \A r \in Race : JobOK(jobs[r])

\* Of the jobs R none has changed, some that are over have been forgotten.
AtMostForgotten(jobs2, jobs, R) ==
  \A r \in R : jobs2[r] = jobs[r] \/ (jobs2[r] = NoJob /\ jobs[r].st # "RUNNING")

\* The sites of job r, now j, serve it if it runs.
ServedAs(lists2, lists, j, r) ==
  /\ lists2 \in [Site -> SUBSET Race]
  /\ \A s \in Site : lists2[s] = IF j.st = "RUNNING" /\ s \in Sites(j)
                                THEN lists[s] \cup {r} ELSE lists[s] \ {r}

JobsOK(jobs, lists, fl) ==
  /\ Jobs(jobs) /\ AllOK(jobs)
  /\ lists \in [Site -> SUBSET Race] /\ Serves(jobs, lists)
  /\ fl \in Flights

TodoOK ==
  /\ todo \in [on : BOOLEAN, quiet : BOOLEAN, left : SUBSET Race] /\ crashed \in BOOLEAN
  /\ IF todo.on THEN todo.left \subseteq eng.current /\ ~crashed ELSE todo.left = {}

NullMet ==
  crashed => EmptyDirs /\ \E r \in Race : job[r].st \in Over /\ Running(job[r]) # {}

SpreadStrong ==
  JobsOK(job, enlisted, flight) /\ EngineOK(job, eng) /\ TodoOK /\ NullMet

-----------------------------------------------------------------------------
(***************************************************************************)
(* A job and its reports.                                                  *)
(***************************************************************************)
LEMMA CountStarts == 0 \in 0..HardChecks
BY SpreadAssumption

LEMMA NoJobOK == JobOK(NoJob) /\ Sites(NoJob) = {} /\ NoJob.st = "none"
<1>1. NoJob \in JobRec
  BY SpreadAssumption DEF NoJob, JobRec, Over, Profiles
<1> QED BY <1>1 DEF JobOK, JobBase, SameReports, NoJob, Sites, Running, Over

LEMMA SiteEndsFacts ==
  ASSUME NEW j \in JobRec, NEW S, NEW how \in Over
  PROVE  LET k == SiteEnds(j, S, how)
         IN /\ k \in JobRec /\ Sites(k) = Sites(j) /\ Running(k) = Running(j) \ S
            /\ k.st = j.st /\ k.dl = j.dl /\ k.semi = j.semi /\ k.done = j.done
            /\ k.poke = j.poke /\ k.prof = j.prof
<1> DEFINE k == SiteEnds(j, S, how)
<1>1. k = [j EXCEPT !.sr = [s \in Site |->
             IF s \in S /\ j.sr[s] = "RUNNING" THEN how ELSE j.sr[s]]]
  BY DEF SiteEnds
<1>2. j.sr \in [Site -> Over \cup {"out", "RUNNING"}]
  BY DEF JobRec
<1>3. k.sr = [s \in Site |-> IF s \in S /\ j.sr[s] = "RUNNING" THEN how ELSE j.sr[s]]
  BY <1>1 DEF JobRec
<1>4. k.sr \in [Site -> Over \cup {"out", "RUNNING"}]
  BY <1>2, <1>3
<1>5. k \in JobRec
  BY <1>1, <1>3, <1>4 DEF JobRec
<1>6. k.st = j.st /\ k.dl = j.dl /\ k.semi = j.semi /\ k.done = j.done
      /\ k.poke = j.poke /\ k.prof = j.prof
  BY <1>1 DEF JobRec
<1>7. \A s \in Site : (k.sr[s] # "out" <=> j.sr[s] # "out")
                      /\ (k.sr[s] = "RUNNING" <=> j.sr[s] = "RUNNING" /\ s \notin S)
  BY <1>2, <1>3 DEF Over
<1> HIDE DEF k
<1>8. Sites(k) = Sites(j) /\ Running(k) = Running(j) \ S
  BY <1>7 DEF Sites, Running
<1> QED BY <1>5, <1>6, <1>8 DEF k

\* A job that ends with how on all its sites.
LEMMA EndedOK ==
  ASSUME NEW j, JobBase(j), j.st = "RUNNING", NEW how \in Over, NEW end \in Over
  PROVE  LET k == SiteEnds([setDone(j) EXCEPT !.st = end], Site, how)
         IN /\ JobBase(k) /\ k.st = end /\ Sites(k) = Sites(j) /\ Running(k) = {}
            /\ k.semi = j.semi /\ k.done = j.done
<1> DEFINE d == [setDone(j) EXCEPT !.st = end]
           k == SiteEnds(d, Site, how)
<1>1. /\ d \in JobRec /\ d.st = end /\ d.sr = j.sr /\ ~d.poke
      /\ d.semi = j.semi /\ d.done = j.done
  BY DEF setDone, JobBase, JobRec
<1>2. Sites(d) = Sites(j) /\ Running(d) \subseteq Site
  BY <1>1 DEF Sites, Running
<1> HIDE DEF d
<1>3. /\ k \in JobRec /\ Sites(k) = Sites(d) /\ Running(k) = Running(d) \ Site
      /\ k.st = end /\ k.semi = j.semi /\ k.done = j.done /\ ~k.poke
  BY <1>1, SiteEndsFacts
<1> HIDE DEF k
<1>4. Running(k) = {}
  BY <1>2, <1>3
<1>5. JobBase(k)
  BY <1>2, <1>3, <1>4 DEF JobBase, Over
<1> QED BY <1>2, <1>3, <1>4, <1>5 DEF d, k

\* The check for semi done ends a job or leaves it alone.
LEMMA SemiCheckOK ==
  ASSUME NEW j, JobBase(j), j.st = "RUNNING"
  PROVE  LET k == checkIfAllSemiDone(j)
         IN /\ JobBase(k) /\ Sites(k) = Sites(j) /\ k.semi = j.semi /\ k.done = j.done
            /\ \/ k.st = "DONE" /\ Running(k) = {}
               \/ k = j /\ ~AllReported(j, j.semi)
<1>1. setDone(j) = [setDone(j) EXCEPT !.st = "DONE"]
  BY DEF setDone, JobBase, JobRec
<1>2. "DONE" \in Over
  BY DEF Over
<1> QED BY <1>1, <1>2, EndedOK DEF checkIfAllSemiDone

LEMMA ReportSemiOK ==
  ASSUME NEW j, JobBase(j), j.st = "RUNNING", NEW s \in Sites(j)
  PROVE  LET k == reportSemiDone(j, s)
         IN /\ JobBase(k) /\ Sites(k) = Sites(j) /\ k.done = j.done /\ k.semi = j.semi \cup {s}
            /\ Running(k) \subseteq Running(j)
            /\ k.st = "DONE" => Running(k) = {}
            /\ k.st # "DONE" => /\ k.st = "RUNNING" /\ k.dl = j.dl
                                /\ s \in j.semi \/ ~AllReported(j, j.semi \cup {s})
<1>1. CASE s \in j.semi
  BY <1>1 DEF reportSemiDone
<1>2. CASE s \notin j.semi
  <2> DEFINE i == [j EXCEPT !.semi = @ \cup {s}]
             k == checkIfAllSemiDone(i)
  <2>1. /\ i \in JobRec /\ i.st = j.st /\ i.sr = j.sr /\ i.poke = j.poke /\ i.dl = j.dl
        /\ i.semi = j.semi \cup {s} /\ i.done = j.done
    BY DEF JobBase, JobRec, Sites
  <2> HIDE DEF i
  <2>2. Sites(i) = Sites(j) /\ Running(i) = Running(j)
    BY <2>1 DEF Sites, Running
  <2>3. JobBase(i)
    BY <2>1, <2>2 DEF JobBase, Over
  <2>4. AllReported(i, i.semi) = AllReported(j, j.semi \cup {s})
    BY <2>1, <2>2 DEF AllReported, remainingSitesAreDownloadOnly
  <2>5. /\ JobBase(k) /\ Sites(k) = Sites(i) /\ k.semi = i.semi /\ k.done = i.done
        /\ \/ k.st = "DONE" /\ Running(k) = {}
           \/ k = i /\ ~AllReported(i, i.semi)
    BY <2>1, <2>3, SemiCheckOK
  <2>6. k = reportSemiDone(j, s)
    BY <1>2 DEF reportSemiDone, i
  <2> HIDE DEF k
  <2> QED BY <2>1, <2>2, <2>4, <2>5, <2>6
<1> QED BY <1>1, <1>2

\* All sites have reported done: those that still run are download-only.
LEMMA AllReportedEnds ==
  ASSUME NEW j, NEW R, R \subseteq Sites(j), R \cap Running(j) = {}, AllReported(j, R)
  PROVE  Running(j) \subseteq j.dl
<1>1. Running(j) \subseteq Sites(j)
  BY DEF Running, Sites
<1>2. CASE Cardinality(R) = Cardinality(Sites(j))
  <2>1. Sites(j) \subseteq Site
    BY DEF Sites
  <2>2. IsFiniteSet(Sites(j))
    BY <2>1, SpreadAssumption, FS_Subset
  <2>3. R = Sites(j)
    BY <1>2, <2>2, FS_Subset
  <2> QED BY <1>1, <2>3
<1>3. CASE remainingSitesAreDownloadOnly(j, R)
  BY <1>1, <1>3 DEF remainingSitesAreDownloadOnly
<1> QED BY <1>2, <1>3 DEF AllReported

LEMMA ReportDoneOK ==
  ASSUME NEW j, JobOK(j), j.st = "RUNNING", NEW s \in Sites(j)
  PROVE  LET k == reportDone(SiteEnds(j, {s}, "DONE"), s)
         IN JobOK(k) /\ Sites(k) = Sites(j) /\ k.st \in {"RUNNING", "DONE"}
<1> DEFINE i == SiteEnds(j, {s}, "DONE")
           h == reportSemiDone(i, s)
           k == [h EXCEPT !.done = @ \cup {s}]
<1>1. /\ i \in JobRec /\ Sites(i) = Sites(j) /\ Running(i) = Running(j) \ {s}
      /\ i.st = j.st /\ i.dl = j.dl /\ i.semi = j.semi /\ i.done = j.done /\ i.poke = j.poke
  BY SiteEndsFacts DEF JobOK, JobBase, Over
<1> HIDE DEF i
<1>2. JobBase(i) /\ JobOK(i)
  BY <1>1 DEF JobOK, JobBase, SameReports, Over
<1>3. CASE s \in i.done
  BY <1>1, <1>2, <1>3 DEF reportDone, i
<1>4. CASE s \notin i.done
  <2>1. /\ JobBase(h) /\ Sites(h) = Sites(i) /\ h.done = i.done /\ h.semi = i.semi \cup {s}
        /\ Running(h) \subseteq Running(i)
        /\ h.st = "DONE" => Running(h) = {}
        /\ h.st # "DONE" => /\ h.st = "RUNNING" /\ h.dl = i.dl
                            /\ s \in i.semi \/ ~AllReported(i, i.semi \cup {s})
    BY <1>1, <1>2, ReportSemiOK
  <2> HIDE DEF h
  <2>2. /\ k \in JobRec /\ k.st = h.st /\ k.sr = h.sr /\ k.semi = h.semi /\ k.dl = h.dl
        /\ k.poke = h.poke /\ k.done = h.done \cup {s}
    BY <1>1, <2>1 DEF JobBase, JobRec, Sites
  <2>3. Sites(k) = Sites(h) /\ Running(k) = Running(h)
    BY <2>2 DEF Sites, Running
  <2>4. reportDone(i, s) = IF AllReported(k, k.done) THEN setDone(k) ELSE k
    BY <1>4 DEF reportDone, h
  <2> HIDE DEF k
  <2>5. s \notin Running(k)
    BY <1>1, <2>1, <2>3
  <2>6. JobBase(k)
    BY <1>1, <1>2, <2>1, <2>2, <2>3, <2>5 DEF JobBase, Over
  <2>7. ~EmptyDirs => k.semi = k.done /\ (k.st = "DONE" => Running(k) = {})
    BY <1>2, <2>1, <2>2, <2>3 DEF JobOK, SameReports
  <2>8. k.st \in {"RUNNING", "DONE"}
    BY <2>1, <2>2
  <2>9. CASE AllReported(k, k.done)
    <3> DEFINE d == setDone(k)
    <3>1. /\ d \in JobRec /\ d.st = "DONE" /\ ~d.poke /\ d.sr = k.sr /\ d.semi = k.semi
          /\ d.done = k.done /\ d.dl = k.dl
      BY <2>6 DEF setDone, JobBase, JobRec, Over
    <3>2. Running(k) \subseteq k.dl
      BY <2>6, <2>9, AllReportedEnds DEF JobBase
    <3> HIDE DEF d
    <3>3. Sites(d) = Sites(k) /\ Running(d) = Running(k)
      BY <3>1 DEF Sites, Running
    <3>4. JobBase(d)
      BY <2>6, <3>1, <3>2, <3>3 DEF JobBase
    <3>5. ~EmptyDirs => Running(k) = {}
      <4>1. SUFFICES ASSUME ~EmptyDirs, k.st # "DONE" PROVE FALSE
        BY <2>7
      <4>2. i.semi = i.done
        BY <1>2, <4>1 DEF JobOK, SameReports
      <4>3. ~AllReported(i, i.semi \cup {s})
        BY <1>4, <2>1, <2>2, <4>1, <4>2
      <4>4. AllReported(i, i.semi \cup {s})
        BY <2>1, <2>2, <2>3, <2>9, <4>1, <4>2 DEF AllReported, remainingSitesAreDownloadOnly
      <4> QED BY <4>3, <4>4
    <3>6. JobOK(d)
      BY <2>7, <3>1, <3>3, <3>4, <3>5 DEF JobOK, SameReports
    <3> QED BY <1>1, <2>1, <2>3, <2>4, <2>9, <3>1, <3>3, <3>6 DEF d, i
  <2>10. CASE ~AllReported(k, k.done)
    <3>1. JobOK(k)
      BY <2>6, <2>7, <2>8 DEF JobOK, SameReports, Over
    <3> QED BY <1>1, <2>1, <2>3, <2>4, <2>8, <2>10, <3>1 DEF i
  <2> QED BY <2>9, <2>10
<1> QED BY <1>3, <1>4

\* A site is taken from a job.
LEMMA RemoveSiteOK ==
  ASSUME NEW j, JobOK(j), NEW s \in Sites(j)
  PROVE  LET k == removeSite(j, s)
         IN JobOK(k) /\ Sites(k) = Sites(j) \ {s} /\ k.st = j.st
<1> DEFINE k == removeSite(j, s)
<1>1. j \in JobRec /\ s \in Site
  BY DEF JobOK, JobBase, Sites
<1>2. /\ k \in JobRec /\ k.st = j.st /\ k.poke = j.poke /\ k.sr = [j.sr EXCEPT ![s] = "out"]
      /\ k.dl = j.dl \ {s} /\ k.semi = j.semi \ {s} /\ k.done = j.done \ {s}
  BY <1>1 DEF removeSite, JobRec
<1>3. j.sr \in [Site -> Over \cup {"out", "RUNNING"}]
  BY <1>1 DEF JobRec
<1> HIDE DEF k
<1>4. Sites(k) = Sites(j) \ {s} /\ Running(k) = Running(j) \ {s}
  BY <1>1, <1>2, <1>3 DEF Sites, Running
<1>5. j.st # "none"
  BY NoJobOK DEF JobOK, JobBase
<1>6. JobOK(k)
  BY <1>2, <1>4, <1>5 DEF JobOK, JobBase, SameReports, Over
<1> QED BY <1>2, <1>4, <1>6 DEF k

LEMMA SetUndoneOK ==
  ASSUME NEW j, JobOK(j)
  PROVE  LET k == setUndone(j)
         IN JobOK(k) /\ Sites(k) = Sites(j) /\ k.st = "RUNNING" /\ k.sr = j.sr
<1> DEFINE k == setUndone(j)
<1>1. /\ k \in JobRec /\ k.st = "RUNNING" /\ k.poke = TRUE /\ k.sr = j.sr
      /\ k.dl = j.dl /\ k.semi = j.semi /\ k.done = j.done
  BY CountStarts DEF setUndone, JobOK, JobBase, JobRec
<1> HIDE DEF k
<1>2. Sites(k) = Sites(j) /\ Running(k) = Running(j)
  BY <1>1 DEF Sites, Running
<1>3. JobOK(k)
  BY <1>1, <1>2 DEF JobOK, JobBase, SameReports, Over
<1> QED BY <1>1, <1>2, <1>3 DEF k

LEMMA ResetOK ==
  ASSUME NEW j, JobOK(j), j.st # "none"
  PROVE  LET k == ResetRec(j)
         IN JobOK(k) /\ Sites(k) = Sites(j) /\ k.st = "RUNNING"
<1> DEFINE u == IF j.st = "RUNNING" THEN j ELSE setUndone(j)
           sr2 == [s \in Site |-> IF s \in Sites(j) THEN "RUNNING" ELSE "out"]
           k == ResetRec(j)
<1>1. JobOK(u) /\ Sites(u) = Sites(j) /\ u.st = "RUNNING"
  BY SetUndoneOK
<1>2. k = [u EXCEPT !.cleared = FALSE, !.checks = 0, !.semi = {}, !.done = {}, !.sr = sr2]
  BY DEF ResetRec
<1>3. sr2 \in [Site -> Over \cup {"out", "RUNNING"}]
  OBVIOUS
<1> HIDE DEF u, sr2
<1>4. /\ k \in JobRec /\ k.st = "RUNNING" /\ k.poke = u.poke /\ k.sr = sr2
      /\ k.semi = {} /\ k.done = {}
  BY <1>1, <1>2, <1>3, CountStarts DEF JobOK, JobBase, JobRec
<1> HIDE DEF k
<1>5. Sites(k) = {s \in Site : s \in Sites(j)}
  BY <1>4 DEF Sites, sr2
<1>6. Sites(k) = Sites(j)
  BY <1>5 DEF Sites
<1>7. JobOK(k)
  BY <1>1, <1>4 DEF JobOK, JobBase, SameReports, Over
<1> QED BY <1>4, <1>6, <1>7 DEF k

\* Sites join a running job.
LEMMA WithSitesOK ==
  ASSUME NEW j, JobOK(j), j.st = "RUNNING", NEW add, add \subseteq Site, add \cap Sites(j) = {}, NEW dlw
  PROVE  LET k == WithSites(j, add, dlw)
         IN JobOK(k) /\ Sites(k) = Sites(j) \cup add /\ k.st = "RUNNING"
<1> DEFINE sr2 == [s \in Site |-> IF s \in add THEN "RUNNING" ELSE j.sr[s]]
           more == {s \in add : DownloadOnly(s, dlw, j.prof)}
           k == WithSites(j, add, dlw)
<1>1. j \in JobRec /\ j.sr \in [Site -> Over \cup {"out", "RUNNING"}]
  BY DEF JobOK, JobBase, JobRec
<1>2. k = [j EXCEPT !.sr = sr2, !.dl = @ \cup more]
  BY DEF WithSites
<1>3. sr2 \in [Site -> Over \cup {"out", "RUNNING"}] /\ more \subseteq Site
  BY <1>1
<1> HIDE DEF sr2, more
<1>4. /\ k \in JobRec /\ k.st = j.st /\ k.poke = j.poke /\ k.sr = sr2
      /\ k.semi = j.semi /\ k.done = j.done
  BY <1>1, <1>2, <1>3 DEF JobRec
<1> HIDE DEF k
<1>5. Sites(k) = Sites(j) \cup add /\ Running(k) = Running(j) \cup add
  BY <1>1, <1>4 DEF Sites, Running, sr2
<1>6. JobOK(k)
  BY <1>4, <1>5 DEF JobOK, JobBase, SameReports, Over
<1> QED BY <1>4, <1>5, <1>6 DEF k

\* The counting of the tick leaves the rest of a job alone.
LEMMA CountOK ==
  ASSUME NEW j, JobOK(j), j.st = "RUNNING", NEW k, NEW c \in 0..HardChecks, NEW b \in BOOLEAN,
         k = [j EXCEPT !.checks = c, !.cleared = b]
  PROVE  JobOK(k) /\ Sites(k) = Sites(j) /\ k.st = "RUNNING"
<1>1. /\ k \in JobRec /\ k.st = j.st /\ k.poke = j.poke /\ k.sr = j.sr
      /\ k.dl = j.dl /\ k.semi = j.semi /\ k.done = j.done
  BY DEF JobOK, JobBase, JobRec
<1>2. Sites(k) = Sites(j) /\ Running(k) = Running(j)
  BY <1>1 DEF Sites, Running
<1> QED BY <1>1, <1>2 DEF JobOK, JobBase, SameReports, Over

-----------------------------------------------------------------------------
(***************************************************************************)
(* Lists of jobs without repetitions.                                      *)
(***************************************************************************)
LEMMA AppendFacts ==
  ASSUME NEW S, NEW s \in Seq(S), NEW x \in S, NoRepeat(s), x \notin ToSet(s)
  PROVE  Append(s, x) \in Seq(S) /\ NoRepeat(Append(s, x)) /\ ToSet(Append(s, x)) = ToSet(s) \cup {x}
<1> DEFINE t == Append(s, x)
<1>1. /\ t \in Seq(S) /\ Len(s) \in Nat /\ Len(t) = Len(s) + 1 /\ t[Len(s) + 1] = x
      /\ \A i \in 1..Len(s) : t[i] = s[i]
  OBVIOUS
<1>2. DOMAIN s = 1..Len(s) /\ DOMAIN t = 1..Len(t)
  BY <1>1
<1> HIDE DEF t
<1>3. \A i \in 1..Len(s) : s[i] # x
  BY <1>2 DEF ToSet
<1>4. \A i \in 1..Len(t) : i \in 1..Len(s) \/ i = Len(s) + 1
  BY <1>1
<1>5. NoRepeat(t)
  BY <1>1, <1>3, <1>4 DEF NoRepeat
<1>6. \A i \in 1..Len(s) : i \in 1..Len(t)
  BY <1>1
<1>7. Len(s) + 1 \in 1..Len(t)
  BY <1>1
<1>8. ToSet(t) = ToSet(s) \cup {x}
  <2>1. ToSet(t) \subseteq ToSet(s) \cup {x}
    BY <1>1, <1>2, <1>4 DEF ToSet
  <2>2. ToSet(s) \subseteq ToSet(t)
    BY <1>1, <1>2, <1>6 DEF ToSet
  <2>3. x \in ToSet(t)
    BY <1>1, <1>2, <1>7 DEF ToSet
  <2> QED BY <2>1, <2>2, <2>3
<1> QED BY <1>1, <1>5, <1>8 DEF t

LEMMA SubSeqFacts ==
  ASSUME NEW S, NEW s \in Seq(S), NEW m \in Nat \ {0}, NEW n \in Nat, n <= Len(s), m <= n + 1
  PROVE  /\ SubSeq(s, m, n) \in Seq(S) /\ Len(SubSeq(s, m, n)) = n - m + 1
         /\ \A k \in 1..n - m + 1 : SubSeq(s, m, n)[k] = s[m + k - 1]
<1>1. \A k \in m..n : s[k] \in S
  BY ElementOfSeq, LenProperties
<1>2. /\ SubSeq(s, m, n) \in Seq(S)
      /\ Len(SubSeq(s, m, n)) = IF m <= n THEN n - m + 1 ELSE 0
      /\ \A k \in 1..n - m + 1 : SubSeq(s, m, n)[k] = s[m + k - 1]
  BY <1>1, SubSeqProperties
<1>3. (IF m <= n THEN n - m + 1 ELSE 0) = n - m + 1
  OBVIOUS
<1> QED BY <1>2, <1>3

LEMMA ConcatFacts ==
  ASSUME NEW S, NEW a \in Seq(S), NEW b \in Seq(S)
  PROVE  /\ a \o b \in Seq(S) /\ Len(a \o b) = Len(a) + Len(b)
         /\ \A k \in 1..(Len(a) + Len(b)) : (a \o b)[k] = IF k <= Len(a) THEN a[k] ELSE b[k - Len(a)]
BY ConcatProperties

LEMMA RemoveAtFacts ==
  ASSUME NEW S, NEW s \in Seq(S), NEW i \in 1..Len(s)
  PROVE  /\ RemoveAt(s, i) \in Seq(S) /\ Len(RemoveAt(s, i)) = Len(s) - 1
         /\ \A k \in 1..Len(s) - 1 : RemoveAt(s, i)[k] = IF k < i THEN s[k] ELSE s[k + 1]
<1> DEFINE a == SubSeq(s, 1, i - 1)
           b == SubSeq(s, i + 1, Len(s))
<1>1. Len(s) \in Nat /\ i \in Nat /\ 1 <= i /\ i <= Len(s) /\ \A k \in 1..Len(s) : s[k] \in S
  BY LenProperties, ElementOfSeq
<1>2. /\ a \in Seq(S) /\ Len(a) = i - 1 /\ b \in Seq(S) /\ Len(b) = Len(s) - i
      /\ \A k \in 1..i - 1 : a[k] = s[k]
      /\ \A k \in 1..Len(s) - i : b[k] = s[i + k]
  <2>1. 1 \in Nat \ {0} /\ i - 1 \in Nat /\ i - 1 <= Len(s) /\ 1 <= (i - 1) + 1
    BY <1>1
  <2>2. a \in Seq(S) /\ Len(a) = (i - 1) - 1 + 1 /\ \A k \in 1..(i - 1) - 1 + 1 : a[k] = s[1 + k - 1]
    BY <2>1, SubSeqFacts
  <2>3. i + 1 \in Nat \ {0} /\ i + 1 <= Len(s) + 1
    BY <1>1
  <2>4. /\ b \in Seq(S) /\ Len(b) = Len(s) - (i + 1) + 1
        /\ \A k \in 1..Len(s) - (i + 1) + 1 : b[k] = s[(i + 1) + k - 1]
    BY <1>1, <2>3, SubSeqFacts
  <2> HIDE DEF a, b
  <2> QED BY <1>1, <2>2, <2>4
<1> HIDE DEF a, b
<1>4. /\ a \o b \in Seq(S) /\ Len(a \o b) = Len(a) + Len(b)
      /\ \A k \in 1..(Len(a) + Len(b)) : (a \o b)[k] = IF k <= Len(a) THEN a[k] ELSE b[k - Len(a)]
  BY <1>2, ConcatFacts
<1>5. ASSUME NEW k \in 1..Len(s) - 1 PROVE (a \o b)[k] = IF k < i THEN s[k] ELSE s[k + 1]
  <2>1. (a \o b)[k] = IF k <= i - 1 THEN a[k] ELSE b[k - (i - 1)]
    BY <1>1, <1>2, <1>4
  <2>2. CASE k < i
    BY <1>1, <1>2, <2>1, <2>2
  <2>3. CASE ~(k < i)
    <3>1. k - (i - 1) \in 1..Len(s) - i /\ i + (k - (i - 1)) = k + 1
      BY <1>1, <2>3
    <3> QED BY <1>1, <1>2, <2>1, <2>3, <3>1
  <2> QED BY <2>2, <2>3
<1>6. Len(a \o b) = Len(s) - 1
  BY <1>1, <1>2, <1>4
<1>7. RemoveAt(s, i) = a \o b
  BY DEF RemoveAt, a, b
<1> QED BY <1>4, <1>5, <1>6, <1>7

\* JobList::erase, of a list in which every job is once.
LEMMA RemoveFirstFacts ==
  ASSUME NEW S, NEW s \in Seq(S), NoRepeat(s), NEW x
  PROVE  LET t == RemoveFirst(s, x)
         IN t \in Seq(S) /\ NoRepeat(t) /\ ToSet(t) = ToSet(s) \ {x} /\ (s = << >> => t = << >>)
<1>1. Len(s) \in Nat /\ DOMAIN s = 1..Len(s)
  BY LenProperties
<1>2. CASE ~\E i \in 1..Len(s) : s[i] = x
  BY <1>1, <1>2 DEF RemoveFirst, ToSet
<1>3. CASE \E i \in 1..Len(s) : s[i] = x
  <2>1. PICK i \in 1..Len(s) : s[i] = x
    BY <1>3
  <2>2. {k \in 1..Len(s) : s[k] = x} = {i}
    BY <2>1 DEF NoRepeat
  <2>3. SelectInSeq(s, LAMBDA v : v = x) = i
    <3>1. Min({i}) = i
      BY <1>1 DEF Min
    <3> QED BY <2>2, <3>1 DEF SelectInSeq
  <2> DEFINE t == RemoveAt(s, i)
  <2>4. RemoveFirst(s, x) = t
    BY <1>3, <2>3 DEF RemoveFirst
  <2>5. /\ t \in Seq(S) /\ Len(t) = Len(s) - 1
        /\ \A k \in 1..Len(s) - 1 : t[k] = IF k < i THEN s[k] ELSE s[k + 1]
    BY RemoveAtFacts
  <2> HIDE DEF t
  <2>6. DOMAIN t = 1..(Len(s) - 1)
    BY <2>5
  <2>7. ASSUME NEW k \in 1..Len(s) - 1
        PROVE  LET p == IF k < i THEN k ELSE k + 1 IN p \in 1..Len(s) /\ p # i /\ t[k] = s[p]
    BY <1>1, <2>5
  <2>8. ASSUME NEW p \in 1..Len(s), p # i
        PROVE  LET k == IF p < i THEN p ELSE p - 1 IN k \in 1..Len(s) - 1 /\ t[k] = s[p]
    BY <1>1, <2>5, <2>8
  <2>9. NoRepeat(t)
    <3> SUFFICES ASSUME NEW k \in 1..Len(s) - 1, NEW m \in 1..Len(s) - 1, t[k] = t[m] PROVE k = m
      BY <2>5 DEF NoRepeat
    <3>1. (IF k < i THEN k ELSE k + 1) = (IF m < i THEN m ELSE m + 1)
      BY <2>7 DEF NoRepeat
    <3> QED BY <1>1, <3>1
  <2>10. ToSet(t) \subseteq ToSet(s) \ {x}
    <3> SUFFICES ASSUME NEW k \in 1..Len(s) - 1 PROVE t[k] \in ToSet(s) \ {x}
      BY <2>6 DEF ToSet
    <3> QED BY <1>1, <2>1, <2>7 DEF ToSet, NoRepeat
  <2>11. ToSet(s) \ {x} \subseteq ToSet(t)
    <3> SUFFICES ASSUME NEW p \in 1..Len(s), s[p] # x PROVE s[p] \in ToSet(t)
      BY <1>1 DEF ToSet
    <3>1. p # i
      BY <2>1
    <3> QED BY <2>6, <2>8, <3>1 DEF ToSet
  <2>12. s # << >>
    BY <1>1, <2>1
  <2> QED BY <2>4, <2>5, <2>9, <2>10, <2>11, <2>12
<1> QED BY <1>2, <1>3

\* The first n jobs go.
LEMMA DroppedFacts ==
  ASSUME NEW S, NEW s \in Seq(S), NoRepeat(s), NEW n \in 0..Len(s)
  PROVE  LET front == SubSeq(s, 1, n)
             rest == SubSeq(s, n + 1, Len(s))
         IN /\ front \in Seq(S) /\ Len(front) = n /\ NoRepeat(front)
            /\ rest \in Seq(S) /\ Len(rest) = Len(s) - n /\ NoRepeat(rest)
            /\ ToSet(front) \subseteq ToSet(s) /\ ToSet(rest) = ToSet(s) \ ToSet(front)
<1> DEFINE front == SubSeq(s, 1, n)
           rest == SubSeq(s, n + 1, Len(s))
<1>1. /\ Len(s) \in Nat /\ n \in Nat /\ n <= Len(s) /\ DOMAIN s = 1..Len(s)
      /\ \A k \in 1..Len(s) : s[k] \in S
  BY LenProperties, ElementOfSeq
<1>2. /\ front \in Seq(S) /\ Len(front) = n - 1 + 1
      /\ \A k \in 1..n - 1 + 1 : front[k] = s[1 + k - 1]
  BY <1>1, SubSeqFacts
<1>3. /\ rest \in Seq(S) /\ Len(rest) = Len(s) - (n + 1) + 1
      /\ \A k \in 1..Len(s) - (n + 1) + 1 : rest[k] = s[(n + 1) + k - 1]
  <2>1. n + 1 \in Nat \ {0} /\ Len(s) <= Len(s) /\ n + 1 <= Len(s) + 1
    BY <1>1
  <2> QED BY <1>1, <2>1, SubSeqFacts
<1> HIDE DEF front, rest
<1>4. /\ Len(front) = n /\ \A k \in 1..n : front[k] = s[k]
      /\ Len(rest) = Len(s) - n /\ \A k \in 1..(Len(s) - n) : rest[k] = s[n + k]
  BY <1>1, <1>2, <1>3
<1>5. DOMAIN front = 1..n /\ DOMAIN rest = 1..(Len(s) - n)
  BY <1>2, <1>3, <1>4
<1>6. NoRepeat(front)
  BY <1>1, <1>4 DEF NoRepeat
<1>7. NoRepeat(rest)
  <2> SUFFICES ASSUME NEW k \in 1..(Len(s) - n), NEW m \in 1..(Len(s) - n), rest[k] = rest[m] PROVE k = m
    BY <1>4 DEF NoRepeat
  <2>1. n + k \in 1..Len(s) /\ n + m \in 1..Len(s)
    BY <1>1
  <2>2. n + k = n + m
    BY <1>4, <2>1 DEF NoRepeat
  <2> QED BY <1>1, <2>2
<1>8. ToSet(front) \subseteq ToSet(s)
  BY <1>1, <1>4, <1>5 DEF ToSet
<1>9. ToSet(rest) \subseteq ToSet(s) \ ToSet(front)
  <2> SUFFICES ASSUME NEW k \in 1..(Len(s) - n) PROVE rest[k] \in ToSet(s) \ ToSet(front)
    BY <1>5 DEF ToSet
  <2>1. n + k \in 1..Len(s) /\ rest[k] = s[n + k]
    BY <1>1, <1>4
  <2>2. \A m \in 1..n : front[m] # rest[k]
    <3> SUFFICES ASSUME NEW m \in 1..n, front[m] = rest[k] PROVE FALSE
      OBVIOUS
    <3>1. m \in 1..Len(s) /\ s[m] = s[n + k]
      BY <1>1, <1>4, <2>1
    <3>2. m = n + k
      BY <2>1, <3>1 DEF NoRepeat
    <3> QED BY <1>1, <3>2
  <2> QED BY <1>1, <1>5, <2>1, <2>2 DEF ToSet
<1>10. ToSet(s) \ ToSet(front) \subseteq ToSet(rest)
  <2> SUFFICES ASSUME NEW p \in 1..Len(s), s[p] \notin ToSet(front) PROVE s[p] \in ToSet(rest)
    BY <1>1 DEF ToSet
  <2>1. ~(p <= n)
    BY <1>1, <1>4, <1>5 DEF ToSet
  <2>2. p - n \in 1..(Len(s) - n) /\ n + (p - n) = p
    BY <1>1, <2>1
  <2>3. rest[p - n] = s[p]
    BY <1>4, <2>2
  <2> QED BY <1>5, <2>2, <2>3 DEF ToSet
<1> QED BY <1>2, <1>3, <1>4, <1>6, <1>7, <1>8, <1>9, <1>10 DEF front, rest

LEMMA NoRepeatCount ==
  ASSUME NEW S, NEW s \in Seq(S), NoRepeat(s)
  PROVE  IsFiniteSet(ToSet(s)) /\ Cardinality(ToSet(s)) = Len(s)
<1>1. Len(s) \in Nat /\ DOMAIN s = 1..Len(s)
  BY LenProperties
<1>2. s \in [1..Len(s) -> ToSet(s)]
  BY <1>1, LenProperties DEF ToSet
<1>3. s \in Injection(1..Len(s), ToSet(s))
  BY <1>1, <1>2 DEF Injection, IsInjective, NoRepeat
<1>4. s \in Surjection(1..Len(s), ToSet(s))
  BY <1>1, <1>2 DEF Surjection, ToSet
<1>5. ExistsBijection(1..Len(s), ToSet(s))
  BY <1>3, <1>4 DEF ExistsBijection, Bijection
<1>6. IsFiniteSet(1..Len(s)) /\ Cardinality(1..Len(s)) = Len(s)
  BY <1>1, FS_Interval
<1> QED BY <1>5, <1>6, FS_Bijection

\* The order of the naturals as a set of pairs.
Less == {p \in Nat \X Nat : p[1] < p[2]}

\* A set with 0 and the successor of each of its naturals has them all: the
\* least natural outside would have no predecessor.  Induction is used in this
\* form, on sets, below.
LEMMA NatSetInduction ==
  ASSUME NEW S, 0 \in S, \A m \in Nat : m \in S => m + 1 \in S
  PROVE  Nat \subseteq S
<1> DEFINE T == Nat \ S
<1>1. SUFFICES ASSUME T # {} PROVE FALSE
  OBVIOUS
<1>2. IsWellFoundedOn(Less, Nat)
  BY NatLessThanWellFounded DEF Less, OpToRel
<1>3. PICK x \in T : \A y \in T : ~(<<y, x>> \in Less)
  BY <1>1, <1>2, WFMin
<1>4. \A y \in T : ~(y < x)
  BY <1>3 DEF Less
<1>5. x \in Nat /\ x # 0
  OBVIOUS
<1>6. x - 1 \in Nat /\ x - 1 \in S /\ (x - 1) + 1 = x
  BY <1>4, <1>5
<1> QED BY <1>6

\* The recursion of Unexpired defines a function ...
LEMMA KeptExists ==
  ASSUME NEW list, NEW n \in Nat
  PROVE  \E f : f = [i \in 0..n |-> IF i = 0 THEN << >>
                                     ELSE IF list[i].ttl < 0 THEN f[i - 1] ELSE Append(f[i - 1], list[i])]
<1> DEFINE Grown(q, i) == IF list[i].ttl < 0 THEN q ELSE Append(q, list[i])
           Step(g, i) == IF i = 0 THEN << >> ELSE Grown(g[i - 1], i)
           Has(m) == \E f : f = [i \in 0..m |-> Step(f, i)]
           S == {m \in Nat : Has(m)}
<1>1. 0 \in S
  <2> DEFINE f == [i \in 0..0 |-> << >>]
  <2>1. f = [i \in 0..0 |-> Step(f, i)]
    OBVIOUS
  <2> QED BY <2>1
<1> HIDE DEF Grown
<1>2. ASSUME NEW k \in Nat, k \in S PROVE k + 1 \in S
  <2>1. PICK f : f = [i \in 0..k |-> Step(f, i)]
    BY <1>2
  <2> DEFINE m == k + 1
             g == [i \in 0..m |-> IF i < m THEN f[i] ELSE Grown(f[m - 1], m)]
  <2>2. m \in Nat /\ m - 1 = k /\ m # 0
    OBVIOUS
  <2> HIDE DEF m
  <2>3. \A i \in 0..m : g[i] = Step(g, i)
    <3> SUFFICES ASSUME NEW i \in 0..m PROVE g[i] = Step(g, i)
      OBVIOUS
    <3>1. CASE i = 0
      <4>1. f[0] = Step(f, 0)
        BY <2>1
      <4> QED BY <2>2, <3>1, <4>1
    <3>2. CASE i # 0 /\ i < m
      <4>1. i \in 0..k /\ i - 1 \in 0..m /\ i - 1 < m
        BY <2>2, <3>2
      <4>2. f[i] = Grown(f[i - 1], i)
        BY <2>1, <3>2, <4>1
      <4>3. g[i] = f[i] /\ g[i - 1] = f[i - 1]
        BY <3>2, <4>1
      <4> HIDE DEF g
      <4> QED BY <3>2, <4>2, <4>3
    <3>3. CASE i = m
      <4>1. m - 1 \in 0..m /\ m - 1 < m /\ ~(m < m)
        BY <2>2
      <4>2. g[m] = Grown(f[m - 1], m) /\ g[m - 1] = f[m - 1]
        BY <2>2, <4>1
      <4> HIDE DEF g
      <4> QED BY <2>2, <3>3, <4>2
    <3> QED BY <2>2, <3>1, <3>2, <3>3
  <2>4. g = [i \in 0..m |-> Step(g, i)]
    <3>1. g = [i \in 0..m |-> g[i]]
      OBVIOUS
    <3> HIDE DEF g
    <3> QED BY <2>3, <3>1
  <2>5. Has(m)
    BY <2>4
  <2> QED BY <2>2, <2>5 DEF m
<1> HIDE DEF S
<1>3. n \in S
  BY <1>1, <1>2, NatSetInduction
<1> QED BY <1>3 DEF S, Grown

\* ... so that what is kept is a list of the jobs that have not expired, and no
\* longer one.
LEMMA UnexpiredFacts ==
  ASSUME NEW T, NEW list, Len(list) \in Nat,
         \A i \in 1..Len(list) : ~(list[i].ttl < 0) => list[i] \in T
  PROVE  Unexpired(list) \in Seq(T) /\ Len(Unexpired(list)) <= Len(list)
<1> DEFINE f == CHOOSE g : g = [i \in 0..Len(list) |->
                  IF i = 0 THEN << >>
                  ELSE IF list[i].ttl < 0 THEN g[i - 1] ELSE Append(g[i - 1], list[i])]
           S == {m \in Nat : m <= Len(list) => f[m] \in Seq(T) /\ Len(f[m]) <= m}
<1>1. Len(list) \in Nat
  OBVIOUS
<1>2. f = [i \in 0..Len(list) |->
             IF i = 0 THEN << >>
             ELSE IF list[i].ttl < 0 THEN f[i - 1] ELSE Append(f[i - 1], list[i])]
  BY <1>1, KeptExists
<1>3. Unexpired(list) = f[Len(list)]
  BY DEF Unexpired
<1> HIDE DEF f
<1>4. 0 \in S
  <2>1. f[0] = << >>
    BY <1>1, <1>2
  <2>2. << >> \in Seq(T) /\ Len(<< >>) = 0
    BY EmptySeq
  <2>3. f[0] \in Seq(T) /\ Len(f[0]) <= 0
    BY <2>1, <2>2
  <2> QED BY <2>3
<1>5. ASSUME NEW m \in Nat, m \in S PROVE m + 1 \in S
  <2> SUFFICES ASSUME m + 1 <= Len(list) PROVE f[m + 1] \in Seq(T) /\ Len(f[m + 1]) <= m + 1
    OBVIOUS
  <2>1. f[m] \in Seq(T) /\ Len(f[m]) <= m /\ Len(f[m]) \in Nat
    BY <1>1, <1>5
  <2>2. m + 1 \in 1..Len(list) /\ m + 1 \in 0..Len(list) /\ (m + 1) - 1 = m /\ m + 1 # 0
    BY <1>1
  <2>3. f[m + 1] = IF list[m + 1].ttl < 0 THEN f[m] ELSE Append(f[m], list[m + 1])
    BY <1>2, <2>2
  <2>6. CASE list[m + 1].ttl < 0
    BY <2>1, <2>3, <2>6
  <2>7. CASE ~(list[m + 1].ttl < 0)
    <3>1. list[m + 1] \in T
      BY <2>2, <2>7
    <3>2. Append(f[m], list[m + 1]) \in Seq(T) /\ Len(Append(f[m], list[m + 1])) = Len(f[m]) + 1
      BY <2>1, <3>1
    <3> QED BY <2>1, <2>3, <2>7, <3>2
  <2> QED BY <2>6, <2>7
<1> HIDE DEF S
<1>6. Len(list) \in S
  BY <1>1, <1>4, <1>5, NatSetInduction
<1> QED BY <1>1, <1>3, <1>6 DEF S

-----------------------------------------------------------------------------
(***************************************************************************)
(* The engine's lists.                                                     *)
(***************************************************************************)
LEMMA RotateFacts ==
  ASSUME NEW e \in EngineRec, IsFiniteSet(e.all), NoRepeat(e.finished),
         ToSet(e.finished) = e.all \ e.current
  PROVE  LET f == rotateSpreadJobsHistory(e)
         IN /\ f \in EngineRec /\ IsFiniteSet(f.all) /\ f.all \subseteq e.all
            /\ f.current = e.current /\ e.all \cap e.current \subseteq f.all
            /\ f.prepared = e.prepared /\ f.startnext = e.startnext /\ f.poke = e.poke
            /\ NoRepeat(f.finished) /\ ToSet(f.finished) = f.all \ f.current
            /\ Cardinality(f.all) > MaxHistory => f.finished = << >>
<1> DEFINE over == Cardinality(e.all) - MaxHistory
           n == IF over > Len(e.finished) THEN Len(e.finished) ELSE over
           f == rotateSpreadJobsHistory(e)
<1>1. /\ e.finished \in Seq(Race) /\ Len(e.finished) \in Nat /\ Cardinality(e.all) \in Nat
      /\ MaxHistory \in Nat
  BY SpreadAssumption, FS_CardinalityType, LenProperties DEF EngineRec
<1>2. CASE over <= 0
  <2>1. f = e
    BY <1>2 DEF rotateSpreadJobsHistory
  <2>2. ~(Cardinality(e.all) > MaxHistory)
    BY <1>1, <1>2
  <2> QED BY <2>1, <2>2
<1>3. CASE ~(over <= 0)
  <2> DEFINE front == SubSeq(e.finished, 1, n)
             rest == SubSeq(e.finished, n + 1, Len(e.finished))
  <2>1. n \in 0..Len(e.finished) /\ (n = over \/ n = Len(e.finished))
    BY <1>1, <1>3
  <2>2. f = [e EXCEPT !.all = @ \ ToSet(front), !.finished = rest]
    BY <1>3 DEF rotateSpreadJobsHistory
  <2> HIDE DEF n, f
  <2>3. /\ front \in Seq(Race) /\ Len(front) = n /\ NoRepeat(front)
        /\ rest \in Seq(Race) /\ Len(rest) = Len(e.finished) - n /\ NoRepeat(rest)
        /\ ToSet(front) \subseteq ToSet(e.finished) /\ ToSet(rest) = ToSet(e.finished) \ ToSet(front)
    BY <1>1, <2>1, DroppedFacts
  <2> HIDE DEF front, rest
  <2>4. /\ f \in EngineRec /\ f.all = e.all \ ToSet(front) /\ f.finished = rest
        /\ f.current = e.current /\ f.prepared = e.prepared
        /\ f.startnext = e.startnext /\ f.poke = e.poke
    BY <2>2, <2>3 DEF EngineRec
  <2>5. IsFiniteSet(f.all) /\ Cardinality(f.all) = Cardinality(e.all) - n
    <3>1. e.all \cap ToSet(front) = ToSet(front)
      BY <2>3
    <3>2. Cardinality(ToSet(front)) = n
      BY <2>3, NoRepeatCount
    <3> QED BY <2>4, <3>1, <3>2, FS_Difference
  <2>6. Cardinality(f.all) > MaxHistory => f.finished = << >>
    <3>1. SUFFICES ASSUME Cardinality(f.all) > MaxHistory PROVE Len(rest) = 0
      BY <2>3, <2>4, EmptySeq
    <3>2. n = Len(e.finished)
      BY <1>1, <2>1, <2>5, <3>1
    <3> QED BY <1>1, <2>3, <3>2
  <2>7. ToSet(f.finished) = f.all \ f.current /\ e.all \cap e.current \subseteq f.all
    BY <2>3, <2>4
  <2> QED BY <2>3, <2>4, <2>5, <2>6, <2>7 DEF f
<1> QED BY <1>2, <1>3

\* The history is rotated and what it drops is forgotten.
LEMMA SettledOK ==
  ASSUME NEW jobs, NEW e, Listed(jobs, e), Poked(e), Len(e.prepared) <= MaxPrepared, AllOK(jobs)
  PROVE  LET f == rotateSpreadJobsHistory(e)
             rest == Forgotten(jobs, f)
         IN /\ EngineOK(rest, f) /\ f.current = e.current
            /\ Jobs(rest) /\ AtMostForgotten(rest, jobs, Race) /\ AllOK(rest)
<1> DEFINE f == rotateSpreadJobsHistory(e)
           rest == Forgotten(jobs, f)
<1>1. /\ f \in EngineRec /\ IsFiniteSet(f.all) /\ f.all \subseteq e.all
      /\ f.current = e.current /\ e.all \cap e.current \subseteq f.all
      /\ f.prepared = e.prepared /\ f.startnext = e.startnext /\ f.poke = e.poke
      /\ NoRepeat(f.finished) /\ ToSet(f.finished) = f.all \ f.current
      /\ Cardinality(f.all) > MaxHistory => f.finished = << >>
  BY RotateFacts DEF Listed
<1> HIDE DEF f
<1>2. rest = [r \in Race |-> IF r \in f.all THEN jobs[r] ELSE NoJob]
  BY DEF Forgotten
<1> HIDE DEF rest
<1>3. /\ e.all = {r \in Race : jobs[r].st # "none"}
      /\ e.current = {r \in Race : jobs[r].st = "RUNNING"}
  BY DEF Listed
<1>4. ASSUME NEW r \in Race
      PROVE  /\ rest[r] = IF r \in f.all THEN jobs[r] ELSE NoJob
             /\ r \notin f.all => jobs[r].st # "RUNNING"
  BY <1>1, <1>2, <1>3
<1>5. NoJob.st = "none"
  BY DEF NoJob
<1>6. f.all = {r \in Race : rest[r].st # "none"}
  <2>1. f.all \subseteq Race
    BY <1>1, <1>3
  <2>2. \A r \in Race : r \in f.all <=> rest[r].st # "none"
    BY <1>1, <1>3, <1>4, <1>5
  <2> QED BY <2>1, <2>2
<1>7. f.current = {r \in Race : rest[r].st = "RUNNING"}
  BY <1>1, <1>3, <1>4, <1>5
<1>8. Listed(rest, f)
  BY <1>1, <1>6, <1>7 DEF Listed
<1>9. EngineOK(rest, f)
  BY <1>1, <1>8 DEF EngineOK, Poked
<1>10. Jobs(rest)
  BY <1>2 DEF Jobs
<1>11. AtMostForgotten(rest, jobs, Race)
  BY <1>4 DEF AtMostForgotten
<1>12. AllOK(rest)
  BY <1>4, NoJobOK DEF AllOK
<1> QED BY <1>1, <1>9, <1>10, <1>11, <1>12 DEF rest, f

\* The jobs and the sites' lists when job r becomes k, others being at most forgotten.
LEMMA ServesAfter ==
  ASSUME NEW jobs, NEW lists, NEW fl, JobsOK(jobs, lists, fl), NEW r \in Race,
         NEW jobs2, NEW lists2, NEW fl2, Jobs(jobs2), JobOK(jobs2[r]),
         AtMostForgotten(jobs2, jobs, Race \ {r}), ServedAs(lists2, lists, jobs2[r], r),
         fl2 \in Flights
  PROVE  JobsOK(jobs2, lists2, fl2)
<1>1. AllOK(jobs2)
  BY NoJobOK DEF JobsOK, AllOK, AtMostForgotten
<1>2. \A q \in Race \ {r} : \A s \in Site :
        (jobs2[q].st = "RUNNING" /\ s \in Sites(jobs2[q])) <=> (jobs[q].st = "RUNNING" /\ s \in Sites(jobs[q]))
  BY NoJobOK DEF AtMostForgotten
<1>3. Serves(jobs2, lists2)
  <2> SUFFICES ASSUME NEW s \in Site
               PROVE  lists2[s] = {q \in Race : jobs2[q].st = "RUNNING" /\ s \in Sites(jobs2[q])}
    BY DEF Serves
  <2>1. lists[s] = {q \in Race : jobs[q].st = "RUNNING" /\ s \in Sites(jobs[q])}
    BY DEF JobsOK, Serves
  <2>2. \A q \in Race \ {r} : q \in lists2[s] <=> q \in lists[s]
    BY DEF ServedAs
  <2>3. \A q \in Race \ {r} : q \in lists2[s] <=> jobs2[q].st = "RUNNING" /\ s \in Sites(jobs2[q])
    BY <1>2, <2>1, <2>2
  <2>4. r \in lists2[s] <=> jobs2[r].st = "RUNNING" /\ s \in Sites(jobs2[r])
    BY DEF ServedAs
  <2>5. lists2[s] \subseteq Race
    BY DEF ServedAs
  <2> QED BY <2>3, <2>4, <2>5
<1>4. lists2 \in [Site -> SUBSET Race]
  BY DEF ServedAs
<1> QED BY <1>1, <1>3, <1>4 DEF JobsOK

-----------------------------------------------------------------------------
(***************************************************************************)
(* The actions.                                                            *)
(***************************************************************************)
\* Job r ends as k.
LEMMA RaceEnds ==
  ASSUME JobsOK(job, enlisted, flight), EngineOK(job, eng), NEW r \in Race, job[r].st = "RUNNING",
         NEW k, JobOK(k), k.st \in Over, Sites(k) = Sites(job[r]),
         eng' = Finish(eng, r), job' = Forgotten([job EXCEPT ![r] = k], eng'),
         enlisted' = [t \in Site |-> IF t \in Sites(k) THEN enlisted[t] \ {r} ELSE enlisted[t]],
         flight' \in Flights
  PROVE  /\ JobsOK(job', enlisted', flight') /\ EngineOK(job', eng')
         /\ eng'.current = eng.current \ {r}
<1> DEFINE e == [eng EXCEPT !.current = @ \ {r}, !.finished = Append(@, r)]
           jobs == [job EXCEPT ![r] = k]
<1>1. /\ Listed(job, eng) /\ Poked(eng) /\ Len(eng.prepared) <= MaxPrepared
      /\ eng \in EngineRec /\ r \in eng.current /\ eng.poke
  BY DEF EngineOK, Listed, Poked
<1>2. DOMAIN job = Race /\ \A q \in Race : JobOK(job[q])
  BY DEF JobsOK, Jobs, AllOK
<1>3. jobs[r] = k /\ \A q \in Race \ {r} : jobs[q] = job[q]
  BY <1>2
<1>4. /\ Append(eng.finished, r) \in Seq(Race) /\ NoRepeat(Append(eng.finished, r))
      /\ ToSet(Append(eng.finished, r)) = ToSet(eng.finished) \cup {r}
  <2>1. eng.finished \in Seq(Race) /\ NoRepeat(eng.finished) /\ r \notin ToSet(eng.finished)
    BY <1>1 DEF EngineRec, Listed
  <2> QED BY <2>1, AppendFacts
<1>5. Finish(eng, r) = rotateSpreadJobsHistory(e)
  <2>1. (IF r \in eng.current THEN Append(eng.finished, r) ELSE eng.finished) = Append(eng.finished, r)
    BY <1>1
  <2> QED BY <1>1, <2>1 DEF Finish
<1>6. /\ e \in EngineRec /\ e.current = eng.current \ {r} /\ e.finished = Append(eng.finished, r)
      /\ e.all = eng.all /\ e.prepared = eng.prepared /\ e.startnext = eng.startnext /\ e.poke
  BY <1>1, <1>4 DEF EngineRec
<1> HIDE DEF e, jobs
<1>7. Listed(jobs, e)
  <2>1. \A q \in Race : (q \in eng.all <=> job[q].st # "none") /\ (q \in eng.current <=> job[q].st = "RUNNING")
    BY <1>1 DEF Listed
  <2>2. jobs[r].st # "none" /\ jobs[r].st # "RUNNING"
    BY <1>3 DEF Over
  <2>3. eng.all \subseteq Race /\ eng.current \subseteq Race
    BY <1>1 DEF EngineRec
  <2>4. e.all = {q \in Race : jobs[q].st # "none"}
    BY <1>3, <1>6, <2>1, <2>2, <2>3
  <2>5. e.current = {q \in Race : jobs[q].st = "RUNNING"}
    BY <1>3, <1>6, <2>1, <2>2, <2>3
  <2>6. ToSet(e.finished) = e.all \ e.current
    <3>1. ToSet(eng.finished) = eng.all \ eng.current /\ r \in eng.all
      BY <1>1, <2>1 DEF Listed
    <3> QED BY <1>1, <1>4, <1>6, <3>1
  <2>7. IsFiniteSet(e.all)
    BY <1>1, <1>6 DEF Listed
  <2> QED BY <1>4, <1>6, <2>4, <2>5, <2>6, <2>7 DEF Listed
<1>8. Poked(e) /\ Len(e.prepared) <= MaxPrepared
  BY <1>1, <1>6 DEF Poked
<1>9. AllOK(jobs)
  BY <1>2, <1>3 DEF AllOK
<1>10. /\ EngineOK(job', eng') /\ eng'.current = e.current /\ Jobs(job')
       /\ AtMostForgotten(job', jobs, Race)
  <2>1. job' = Forgotten(jobs, eng') /\ eng' = rotateSpreadJobsHistory(e)
    BY <1>5 DEF jobs
  <2> QED BY <2>1, <1>7, <1>8, <1>9, SettledOK
<1>11. JobOK(job'[r]) /\ job'[r].st # "RUNNING"
  BY <1>3, <1>10, NoJobOK DEF Over, AtMostForgotten
<1>12. AtMostForgotten(job', job, Race \ {r})
  BY <1>3, <1>10 DEF AtMostForgotten
<1>13. enlisted' \in [Site -> SUBSET Race] /\ \A s \in Site : enlisted'[s] = enlisted[s] \ {r}
  <2>1. enlisted \in [Site -> SUBSET Race]
    BY DEF JobsOK
  <2>2. \A s \in Site : s \notin Sites(job[r]) => r \notin enlisted[s]
    BY DEF JobsOK, Serves
  <2> QED BY <2>1, <2>2
<1>14. JobsOK(job', enlisted', flight')
  <2>1. ServedAs(enlisted', enlisted, job'[r], r)
    BY <1>11, <1>13 DEF ServedAs
  <2> QED BY <1>10, <1>11, <1>12, <2>1, ServesAfter
<1> QED BY <1>6, <1>10, <1>14

\* Job r, known before or not, runs as k.
LEMMA RaceRuns ==
  ASSUME JobsOK(job, enlisted, flight), NEW r \in Race,
         NEW k, JobOK(k), k.st = "RUNNING", Jobs(job'), job'[r] = k,
         AtMostForgotten(job', job, Race \ {r}),
         NEW S, enlisted' = [s \in Site |-> IF s \in S THEN enlisted[s] \cup {r} ELSE enlisted[s]],
         IF job[r].st = "RUNNING" THEN Sites(k) = Sites(job[r]) \cup S ELSE Sites(k) = S,
         flight' \in Flights
  PROVE  JobsOK(job', enlisted', flight')
<1>1. enlisted \in [Site -> SUBSET Race]
  BY DEF JobsOK
<1>2. enlisted' \in [Site -> SUBSET Race]
  BY <1>1
<1>3. \A s \in Site : r \in enlisted[s] <=> job[r].st = "RUNNING" /\ s \in Sites(job[r])
  BY DEF JobsOK, Serves
<1>4. \A s \in Site : enlisted'[s] = IF s \in Sites(k) THEN enlisted[s] \cup {r} ELSE enlisted[s] \ {r}
  <2> SUFFICES ASSUME NEW s \in Site
               PROVE  enlisted'[s] = IF s \in Sites(k) THEN enlisted[s] \cup {r} ELSE enlisted[s] \ {r}
    OBVIOUS
  <2>1. enlisted'[s] = IF s \in S THEN enlisted[s] \cup {r} ELSE enlisted[s]
    BY <1>1
  <2>2. s \in Sites(k) <=> s \in S \/ r \in enlisted[s]
    BY <1>3
  <2> QED BY <2>1, <2>2
<1>5. ServedAs(enlisted', enlisted, job'[r], r)
  BY <1>2, <1>4 DEF ServedAs
<1> QED BY <1>5, ServesAfter

LEMMA IdleStep ==
  ASSUME SpreadStrong, Ready, UNCHANGED <<todo, crashed>>,
         JobsOK(job', enlisted', flight'), EngineOK(job', eng')
  PROVE  SpreadStrong'
<1>1. ~todo.on /\ ~crashed /\ todo.left = {}
  BY DEF Ready, SpreadStrong, TodoOK
<1>2. TodoOK'
  BY <1>1 DEF SpreadStrong, TodoOK
<1>3. NullMet'
  BY <1>1 DEF NullMet
<1> QED BY <1>2, <1>3 DEF SpreadStrong

LEMMA SameStates ==
  ASSUME NEW jobs, NEW e, Listed(jobs, e), NEW jobs2, \A q \in Race : jobs2[q].st = jobs[q].st
  PROVE  Listed(jobs2, e)
<1>1. {q \in Race : jobs2[q].st # "none"} = {q \in Race : jobs[q].st # "none"}
  OBVIOUS
<1>2. {q \in Race : jobs2[q].st = "RUNNING"} = {q \in Race : jobs[q].st = "RUNNING"}
  OBVIOUS
<1> QED BY <1>1, <1>2 DEF Listed

LEMMA SameLists ==
  ASSUME NEW jobs, NEW e, Listed(jobs, e), NEW e2 \in EngineRec,
         e2.current = e.current, e2.all = e.all, e2.finished = e.finished
  PROVE  Listed(jobs, e2)
BY DEF Listed

\* A running job changes and keeps running on its sites.
LEMMA RaceChanges ==
  ASSUME JobsOK(job, enlisted, flight), EngineOK(job, eng), NEW r \in Race, job[r].st = "RUNNING",
         NEW k, JobOK(k), k.st = "RUNNING", Sites(k) = Sites(job[r]),
         job' = [job EXCEPT ![r] = k], UNCHANGED <<enlisted, eng>>, flight' \in Flights
  PROVE  JobsOK(job', enlisted', flight') /\ EngineOK(job', eng')
<1>1. job = [q \in Race |-> job[q]]
  BY DEF JobsOK, Jobs
<1>2. job'[r] = k /\ (\A q \in Race \ {r} : job'[q] = job[q]) /\ Jobs(job')
  BY <1>1 DEF Jobs
<1>3. ServedAs(enlisted', enlisted, job'[r], r)
  <2>1. enlisted \in [Site -> SUBSET Race] /\ enlisted' = enlisted
    BY DEF JobsOK
  <2>2. \A s \in Site : r \in enlisted[s] <=> s \in Sites(k)
    BY DEF JobsOK, Serves
  <2> QED BY <1>2, <2>1, <2>2 DEF ServedAs
<1>4. JobsOK(job', enlisted', flight')
  <2>1. AtMostForgotten(job', job, Race \ {r})
    BY <1>2 DEF AtMostForgotten
  <2> QED BY <1>2, <1>3, <2>1, ServesAfter
<1>5. \A q \in Race : job'[q].st = job[q].st
  BY <1>2
<1>6. Listed(job', eng)
  BY <1>5, SameStates DEF EngineOK
<1> QED BY <1>4, <1>6 DEF EngineOK

\* A job known before is current again.
LEMMA ResumeOK ==
  ASSUME JobsOK(job, enlisted, flight), NEW e, Listed(job, e), Len(e.prepared) <= MaxPrepared,
         Cardinality(e.all) > MaxHistory => e.finished = << >>,
         NEW r \in Race, job[r].st # "none", NEW k, k.st = "RUNNING", job' = [job EXCEPT ![r] = k]
  PROVE  EngineOK(job', checkStartPoke(removeFromFinished(e, r)))
<1> DEFINE f == checkStartPoke(removeFromFinished(e, r))
           fin == RemoveFirst(e.finished, r)
<1>1. e \in EngineRec /\ e.finished \in Seq(Race) /\ NoRepeat(e.finished)
  BY DEF Listed, EngineRec
<1>2. /\ fin \in Seq(Race) /\ NoRepeat(fin) /\ ToSet(fin) = ToSet(e.finished) \ {r}
      /\ e.finished = << >> => fin = << >>
  BY <1>1, RemoveFirstFacts
<1>3. f = [e EXCEPT !.current = @ \cup {r}, !.finished = fin, !.poke = TRUE]
  BY <1>1 DEF checkStartPoke, removeFromFinished, EngineRec
<1> HIDE DEF fin, f
<1>4. /\ f \in EngineRec /\ f.current = e.current \cup {r} /\ f.finished = fin /\ f.poke = TRUE
      /\ f.all = e.all /\ f.prepared = e.prepared
  BY <1>1, <1>2, <1>3 DEF EngineRec
<1>5. job'[r] = k /\ \A q \in Race \ {r} : job'[q] = job[q]
  BY DEF JobsOK, Jobs
<1>6. /\ e.all = {q \in Race : job[q].st # "none"} /\ e.current = {q \in Race : job[q].st = "RUNNING"}
      /\ IsFiniteSet(e.all) /\ ToSet(e.finished) = e.all \ e.current
  BY DEF Listed
<1>7. f.all = {q \in Race : job'[q].st # "none"}
  BY <1>4, <1>5, <1>6
<1>8. f.current = {q \in Race : job'[q].st = "RUNNING"}
  BY <1>4, <1>5, <1>6
<1>9. ToSet(f.finished) = f.all \ f.current
  BY <1>2, <1>4, <1>6
<1>10. Listed(job', f)
  BY <1>2, <1>4, <1>6, <1>7, <1>8, <1>9 DEF Listed
<1>11. EngineOK(job', f)
  BY <1>2, <1>4, <1>10 DEF EngineOK, Poked
<1> QED BY <1>11 DEF f

LEMMA ProfiledOK ==
  ASSUME NEW prof \in Profiles
  PROVE  LET j == [setUndone(NoJob) EXCEPT !.prof = prof]
         IN JobOK(j) /\ Sites(j) = {} /\ j.st = "RUNNING"
<1> DEFINE u == setUndone(NoJob)
           j == [u EXCEPT !.prof = prof]
<1>1. JobOK(u) /\ Sites(u) = {} /\ u.st = "RUNNING"
  BY NoJobOK, SetUndoneOK
<1> HIDE DEF u
<1>2. u \in JobRec
  BY <1>1 DEF JobOK, JobBase
<1>3. /\ j \in JobRec /\ j.st = u.st /\ j.poke = u.poke /\ j.sr = u.sr
      /\ j.dl = u.dl /\ j.semi = u.semi /\ j.done = u.done
  BY <1>2 DEF JobRec
<1> HIDE DEF j
<1>4. Sites(j) = Sites(u) /\ Running(j) = Running(u)
  BY <1>3 DEF Sites, Running
<1>5. JobOK(j)
  BY <1>1, <1>3, <1>4 DEF JobOK, JobBase, SameReports, Over
<1> QED BY <1>1, <1>3, <1>4, <1>5 DEF u, j

LEMMA StartNewOK ==
  ASSUME JobsOK(job, enlisted, flight), NEW e, Listed(job, e), Len(e.prepared) <= MaxPrepared,
         NEW r \in Race, NEW add, add \subseteq Site, NEW dl, NEW prof \in Profiles,
         StartNew(r, add, dl, prof, e)
  PROVE  JobsOK(job', enlisted', flight') /\ EngineOK(job', eng')
<1> DEFINE base == [setUndone(NoJob) EXCEPT !.prof = prof]
           k == WithSites(base, add, dl)
           g == [checkStartPoke(e) EXCEPT !.current = @ \cup {r}, !.all = @ \cup {r}]
           jobs == [job EXCEPT ![r] = k]
<1>1. JobOK(base) /\ Sites(base) = {} /\ base.st = "RUNNING"
  BY ProfiledOK
<1>2. /\ job[r].st = "none" /\ eng' = rotateSpreadJobsHistory(g) /\ job' = Forgotten(jobs, eng')
      /\ enlisted' = [s \in Site |-> IF s \in add THEN enlisted[s] \cup {r} ELSE enlisted[s]]
      /\ flight' = flight
  BY DEF StartNew, Enlist
<1> HIDE DEF base
<1>3. JobOK(k) /\ Sites(k) = add /\ k.st = "RUNNING"
  <2>1. add \cap Sites(base) = {} /\ Sites(base) \cup add = add
    BY <1>1
  <2>2. JobOK(k) /\ Sites(k) = Sites(base) \cup add /\ k.st = "RUNNING"
    BY <1>1, <2>1, WithSitesOK
  <2> QED BY <2>1, <2>2
<1> HIDE DEF k
<1>4. e \in EngineRec
  BY DEF Listed
<1>5. /\ g \in EngineRec /\ g.current = e.current \cup {r} /\ g.all = e.all \cup {r}
      /\ g.finished = e.finished /\ g.prepared = e.prepared /\ g.poke = TRUE
  BY <1>4 DEF checkStartPoke, EngineRec
<1> HIDE DEF g
<1>6. jobs[r] = k /\ \A q \in Race \ {r} : jobs[q] = job[q]
  BY DEF JobsOK, Jobs
<1> HIDE DEF jobs
<1>7. /\ e.all = {q \in Race : job[q].st # "none"} /\ e.current = {q \in Race : job[q].st = "RUNNING"}
      /\ IsFiniteSet(e.all) /\ ToSet(e.finished) = e.all \ e.current /\ NoRepeat(e.finished)
  BY DEF Listed
<1>8. g.all = {q \in Race : jobs[q].st # "none"} /\ g.current = {q \in Race : jobs[q].st = "RUNNING"}
  BY <1>3, <1>5, <1>6, <1>7
<1>9. ToSet(g.finished) = g.all \ g.current
  BY <1>2, <1>5, <1>7
<1>10. IsFiniteSet(g.all)
  <2>1. IsFiniteSet(e.all)
    BY <1>7
  <2>2. IsFiniteSet(e.all \cup {r})
    BY <2>1, FS_AddElement
  <2> QED BY <1>5, <2>2
<1>11. Listed(jobs, g) /\ Poked(g) /\ Len(g.prepared) <= MaxPrepared
  BY <1>5, <1>7, <1>8, <1>9, <1>10 DEF Listed, Poked
<1>12. AllOK(jobs)
  BY <1>3, <1>6 DEF AllOK, JobsOK
<1>13. EngineOK(job', eng') /\ Jobs(job') /\ AtMostForgotten(job', jobs, Race)
  BY <1>2, <1>11, <1>12, SettledOK
<1>14. job'[r] = k /\ AtMostForgotten(job', job, Race \ {r})
  BY <1>3, <1>6, <1>13 DEF AtMostForgotten
<1>15. flight' \in Flights
  BY <1>2 DEF JobsOK
<1>16. IF job[r].st = "RUNNING" THEN Sites(k) = Sites(job[r]) \cup add ELSE Sites(k) = add
  BY <1>2, <1>3
<1>17. JobsOK(job', enlisted', flight')
  BY <1>2, <1>3, <1>13, <1>14, <1>15, <1>16, RaceRuns
<1> QED BY <1>13, <1>17

LEMMA AppendToOK ==
  ASSUME JobsOK(job, enlisted, flight), NEW e, Listed(job, e), Len(e.prepared) <= MaxPrepared,
         Cardinality(e.all) > MaxHistory => e.finished = << >>,
         NEW r \in Race, NEW add, add \subseteq Site, add \cap Sites(job[r]) = {}, NEW dl,
         NEW again \in BOOLEAN, AppendTo(r, add, dl, again, e)
  PROVE  JobsOK(job', enlisted', flight') /\ EngineOK(job', eng')
<1> DEFINE known == job[r]
           base == IF again THEN ResetRec(known)
                   ELSE IF r \in e.current THEN known ELSE setUndone(known)
           k == WithSites(base, add, dl)
           S == IF again \/ r \notin e.current THEN Sites(known) \cup add ELSE add
<1>1. /\ known.st # "none" /\ job' = [job EXCEPT ![r] = k]
      /\ enlisted' = [s \in Site |-> IF s \in S THEN enlisted[s] \cup {r} ELSE enlisted[s]]
      /\ eng' = checkStartPoke(removeFromFinished(e, r)) /\ flight' = flight
  BY DEF AppendTo, Enlist
<1>2. r \in e.current <=> known.st = "RUNNING"
  BY DEF Listed
<1>3. JobOK(known)
  BY DEF JobsOK, AllOK
<1>4. JobOK(base) /\ Sites(base) = Sites(known) /\ base.st = "RUNNING"
  BY <1>1, <1>2, <1>3, ResetOK, SetUndoneOK
<1> HIDE DEF base
<1>5. JobOK(k) /\ Sites(k) = Sites(known) \cup add /\ k.st = "RUNNING"
  <2>1. add \cap Sites(base) = {}
    BY <1>4
  <2>2. JobOK(k) /\ Sites(k) = Sites(base) \cup add /\ k.st = "RUNNING"
    BY <1>4, <2>1, WithSitesOK
  <2> QED BY <1>4, <2>2
<1> HIDE DEF k
<1>6. IF known.st = "RUNNING" THEN Sites(k) = Sites(known) \cup S ELSE Sites(k) = S
  BY <1>2, <1>5
<1> HIDE DEF S
<1>7. /\ Jobs(job') /\ job'[r] = k /\ AtMostForgotten(job', job, Race \ {r})
  BY <1>1 DEF JobsOK, Jobs, AtMostForgotten
<1>8. flight' \in Flights
  BY <1>1 DEF JobsOK
<1>9. JobsOK(job', enlisted', flight')
  BY <1>1, <1>5, <1>6, <1>7, <1>8, RaceRuns
<1>10. EngineOK(job', eng')
  BY <1>1, <1>5, ResumeOK
<1> QED BY <1>9, <1>10

LEMMA StartOK ==
  ASSUME JobsOK(job, enlisted, flight), NEW e, Listed(job, e), Len(e.prepared) <= MaxPrepared,
         Cardinality(e.all) > MaxHistory => e.finished = << >>,
         NEW r \in Race, NEW add, add \subseteq Site, add \cap Sites(job[r]) = {}, NEW dl,
         NEW again \in BOOLEAN, NEW prof \in Profiles, Start(r, add, dl, again, prof, e)
  PROVE  JobsOK(job', enlisted', flight') /\ EngineOK(job', eng')
BY StartNewOK, AppendToOK DEF Start

LEMMA AddSitesFacts ==
  ASSUME JobsOK(job, enlisted, flight), NEW r \in Race, NEW want \in SUBSET Site, NEW dlw \in SUBSET Site
  PROVE  AddSites(r, want, dlw) \subseteq Site /\ AddSites(r, want, dlw) \cap Sites(job[r]) = {}
<1>1. job[r].st = "none" => Sites(job[r]) = {}
  BY NoJobOK DEF JobsOK, AllOK, JobOK, JobBase
<1> QED BY <1>1 DEF AddSites

LEMMA PrepareOK ==
  ASSUME JobsOK(job, enlisted, flight), EngineOK(job, eng), NEW r \in Race,
         NEW add \in SUBSET Site, NEW dl \in SUBSET Site, NEW again \in BOOLEAN, Prepare(r, add, dl, again)
  PROVE  JobsOK(job', enlisted', flight') /\ EngineOK(job', eng')
<1> DEFINE p == [race |-> r, sites |-> add \ dl, dl |-> dl, reset |-> again, ttl |-> ExpiryTime]
           list == Append(eng.prepared, p)
<1>0. eng \in EngineRec /\ checkStartPoke(eng).prepared = eng.prepared
  BY DEF EngineOK, Listed, EngineRec, checkStartPoke
<1>1. /\ Len(eng.prepared) < MaxPrepared /\ UNCHANGED <<job, enlisted, flight>>
      /\ eng' = [checkStartPoke(eng) EXCEPT !.prepared = list]
  <2>1. [checkStartPoke(eng) EXCEPT !.prepared = Append(@, p)]
        = [checkStartPoke(eng) EXCEPT !.prepared = list]
    BY <1>0
  <2> QED BY <2>1 DEF Prepare
<1>2. ExpiryTime \in -1..ExpiryTime /\ MaxPrepared \in Nat
  BY SpreadAssumption
<1>3. p \in Prepared
  BY <1>2 DEF Prepared
<1> HIDE DEF p
<1>4. eng \in EngineRec /\ eng.prepared \in Seq(Prepared)
  BY DEF EngineOK, Listed, EngineRec
<1>5. list \in Seq(Prepared) /\ Len(list) = Len(eng.prepared) + 1 /\ Len(eng.prepared) \in Nat
  BY <1>3, <1>4
<1> HIDE DEF list
<1>6. /\ eng' \in EngineRec /\ eng'.prepared = list /\ eng'.poke = TRUE
      /\ eng'.current = eng.current /\ eng'.all = eng.all /\ eng'.finished = eng.finished
  BY <1>1, <1>4, <1>5 DEF EngineRec, checkStartPoke
<1>7. Listed(job, eng')
  BY <1>6, SameLists DEF EngineOK
<1>8. Len(list) <= MaxPrepared
  BY <1>1, <1>2, <1>5
<1> QED BY <1>1, <1>6, <1>7, <1>8 DEF EngineOK, Poked

LEMMA NewSpreadJobOK ==
  ASSUME SpreadStrong, NEW a \in Ask, newSpreadJob(a.race, a.sites, a.dl, a.reset, a.prof)
  PROVE  SpreadStrong'
<1> DEFINE add == AddSites(a.race, a.sites, a.dl)
           dl == {s \in add : DownloadOnly(s, a.dl, a.prof)}
           e == [eng EXCEPT !.startnext = @ /\ a.prof # "prepare"]
<1>1. a \in [race : Race, sites : SUBSET Site, dl : SUBSET Site, reset : BOOLEAN, prof : Profiles]
  BY SpreadAssumption
<1>2. /\ a.race \in Race /\ a.sites \in SUBSET Site /\ a.dl \in SUBSET Site
      /\ a.reset \in BOOLEAN /\ a.prof \in Profiles
  BY <1>1
<1>3. /\ Ready /\ UNCHANGED <<todo, crashed>>
      /\ IF a.prof = "prepare" /\ ~eng.startnext THEN Prepare(a.race, add, dl, a.reset)
         ELSE Start(a.race, add, dl, a.reset, a.prof, e)
  BY DEF newSpreadJob
<1>4. JobsOK(job, enlisted, flight) /\ EngineOK(job, eng)
  BY DEF SpreadStrong
<1>5. add \subseteq Site /\ add \cap Sites(job[a.race]) = {} /\ dl \subseteq Site
  BY <1>2, <1>4, AddSitesFacts
<1>6. /\ Listed(job, eng) /\ eng \in EngineRec /\ Len(eng.prepared) <= MaxPrepared
      /\ Cardinality(eng.all) > MaxHistory => eng.finished = << >>
  BY <1>4 DEF EngineOK, Listed
<1>7. /\ e \in EngineRec /\ e.current = eng.current /\ e.all = eng.all
      /\ e.finished = eng.finished /\ e.prepared = eng.prepared
  BY <1>6 DEF EngineRec
<1> HIDE DEF add, dl, e
<1>8. Listed(job, e)
  BY <1>6, <1>7, SameLists
<1>9. CASE a.prof = "prepare" /\ ~eng.startnext
  <2>1. JobsOK(job', enlisted', flight') /\ EngineOK(job', eng')
    BY <1>2, <1>3, <1>4, <1>5, <1>9, PrepareOK
  <2> QED BY <1>3, <2>1, IdleStep
<1>10. CASE ~(a.prof = "prepare" /\ ~eng.startnext)
  <2>1. JobsOK(job', enlisted', flight') /\ EngineOK(job', eng')
    BY <1>2, <1>3, <1>4, <1>5, <1>6, <1>7, <1>8, <1>10, StartOK
  <2> QED BY <1>3, <2>1, IdleStep
<1> QED BY <1>9, <1>10

\* A prepared job is taken out of the list.
LEMMA TakenOut ==
  ASSUME EngineOK(job, eng), NEW i \in DOMAIN eng.prepared
  PROVE  LET e == [eng EXCEPT !.prepared = RemoveAt(@, i)]
         IN /\ EngineOK(job, e) /\ eng.prepared[i] \in Prepared
<1> DEFINE list == RemoveAt(eng.prepared, i)
           e == [eng EXCEPT !.prepared = list]
<1>1. eng \in EngineRec /\ eng.prepared \in Seq(Prepared) /\ Len(eng.prepared) \in Nat /\ MaxPrepared \in Nat
  BY SpreadAssumption, LenProperties DEF EngineOK, Listed, EngineRec
<1>2. i \in 1..Len(eng.prepared) /\ eng.prepared[i] \in Prepared
  BY <1>1, LenProperties, ElementOfSeq
<1>3. list \in Seq(Prepared) /\ Len(list) = Len(eng.prepared) - 1
  BY <1>1, <1>2, RemoveAtFacts
<1> HIDE DEF list
<1>4. /\ e \in EngineRec /\ e.prepared = list /\ e.poke = eng.poke /\ e.startnext = eng.startnext
      /\ e.current = eng.current /\ e.all = eng.all /\ e.finished = eng.finished
  BY <1>1, <1>3 DEF EngineRec
<1> HIDE DEF e
<1>5. Listed(job, e)
  BY <1>4, SameLists DEF EngineOK
<1>6. Len(e.prepared) <= MaxPrepared
  BY <1>1, <1>3, <1>4 DEF EngineOK
<1>7. eng.prepared # << >>
  BY <1>1, <1>2
<1>8. EngineOK(job, e)
  BY <1>4, <1>5, <1>6, <1>7 DEF EngineOK, Poked
<1> QED BY <1>2, <1>8 DEF e, list

LEMMA StartPreparedOK ==
  ASSUME SpreadStrong, NEW i \in DOMAIN eng.prepared, startPreparedRace(i)
  PROVE  SpreadStrong'
<1> DEFINE p == eng.prepared[i]
           e == [eng EXCEPT !.prepared = RemoveAt(@, i)]
           add == AddSites(p.race, p.sites, p.dl)
           dl == {s \in add : DownloadOnly(s, p.dl, "race")}
           Can == Startable(p.race, add, dl, "race")
<1>1. /\ Ready /\ UNCHANGED <<todo, crashed>>
      /\ IF Can THEN Start(p.race, add, dl, p.reset, "race", e)
         ELSE eng' = e /\ UNCHANGED <<job, enlisted, flight>>
  BY DEF startPreparedRace
<1>2. JobsOK(job, enlisted, flight) /\ EngineOK(job, eng)
  BY DEF SpreadStrong
<1>3. EngineOK(job, e) /\ p \in Prepared
  BY <1>2, TakenOut
<1>4. p.race \in Race /\ p.sites \in SUBSET Site /\ p.dl \in SUBSET Site /\ p.reset \in BOOLEAN
  BY <1>3 DEF Prepared
<1> HIDE DEF p, e
<1>5. add \subseteq Site /\ add \cap Sites(job[p.race]) = {}
  BY <1>2, <1>4, AddSitesFacts
<1>6. "race" \in Profiles
  BY DEF Profiles
<1> HIDE DEF add, dl, Can
<1>7. /\ Listed(job, e) /\ Len(e.prepared) <= MaxPrepared
      /\ Cardinality(e.all) > MaxHistory => e.finished = << >>
  BY <1>3 DEF EngineOK
<1>8. CASE Can
  <2>1. JobsOK(job', enlisted', flight') /\ EngineOK(job', eng')
    BY <1>1, <1>2, <1>4, <1>5, <1>6, <1>7, <1>8, StartOK
  <2> QED BY <1>1, <2>1, IdleStep
<1>9. CASE ~Can
  <2>1. JobsOK(job', enlisted', flight') /\ EngineOK(job', eng')
    BY <1>1, <1>2, <1>3, <1>9
  <2> QED BY <1>1, <2>1, IdleStep
<1> QED BY <1>8, <1>9

LEMMA DeletePreparedOK ==
  ASSUME SpreadStrong, NEW i \in DOMAIN eng.prepared, deletePreparedRace(i)
  PROVE  SpreadStrong'
<1>1. /\ Ready /\ UNCHANGED <<todo, crashed>> /\ UNCHANGED <<job, enlisted, flight>>
      /\ eng' = [eng EXCEPT !.prepared = RemoveAt(@, i)]
  BY DEF deletePreparedRace
<1>2. JobsOK(job', enlisted', flight') /\ EngineOK(job', eng')
  BY <1>1, TakenOut DEF SpreadStrong
<1> QED BY <1>1, <1>2, IdleStep

LEMMA ToggleOK ==
  ASSUME SpreadStrong, toggleStartNextPreparedRace
  PROVE  SpreadStrong'
<1>1. /\ Ready /\ UNCHANGED <<todo, crashed>> /\ UNCHANGED <<job, enlisted, flight>>
      /\ eng' = IF eng.startnext THEN [eng EXCEPT !.startnext = FALSE]
                ELSE [checkStartPoke(eng) EXCEPT !.startnext = TRUE]
  BY DEF toggleStartNextPreparedRace
<1>2. JobsOK(job, enlisted, flight) /\ EngineOK(job, eng) /\ eng \in EngineRec
  BY DEF SpreadStrong, EngineOK, Listed
<1>3. /\ eng' \in EngineRec /\ eng'.current = eng.current /\ eng'.all = eng.all
      /\ eng'.finished = eng.finished /\ eng'.prepared = eng.prepared
      /\ IF eng.startnext THEN ~eng'.startnext /\ eng'.poke = eng.poke ELSE eng'.poke = TRUE
  BY <1>1, <1>2 DEF EngineRec, checkStartPoke
<1>4. Listed(job, eng')
  BY <1>2, <1>3, SameLists DEF EngineOK
<1>5. EngineOK(job', eng')
  BY <1>1, <1>2, <1>3, <1>4 DEF EngineOK, Poked
<1> QED BY <1>1, <1>2, <1>5, IdleStep

LEMMA RemoveSiteFromRaceOK ==
  ASSUME SpreadStrong, NEW r \in Race, NEW s \in Site, removeSiteFromRace(r, s)
  PROVE  SpreadStrong'
<1> DEFINE k == removeSite(job[r], s)
<1>1. /\ Ready /\ UNCHANGED <<eng, todo, crashed>> /\ s \in Sites(job[r])
      /\ job' = [job EXCEPT ![r] = k] /\ enlisted' = [enlisted EXCEPT ![s] = @ \ {r}]
      /\ flight' = [flight EXCEPT ![r][s] = "no"]
  BY DEF removeSiteFromRace
<1>2. JobsOK(job, enlisted, flight) /\ EngineOK(job, eng)
  BY DEF SpreadStrong
<1>3. JobOK(k) /\ Sites(k) = Sites(job[r]) \ {s} /\ k.st = job[r].st
  BY <1>1, <1>2, RemoveSiteOK DEF JobsOK, AllOK
<1> HIDE DEF k
<1>4. job'[r] = k /\ (\A q \in Race \ {r} : job'[q] = job[q]) /\ Jobs(job')
  BY <1>1, <1>2 DEF JobsOK, Jobs
<1>5. flight' \in Flights
  BY <1>1, <1>2 DEF JobsOK, Flights
<1>6. enlisted \in [Site -> SUBSET Race] /\ enlisted' \in [Site -> SUBSET Race]
  BY <1>1, <1>2 DEF JobsOK
<1>7. \A t \in Site : r \in enlisted[t] <=> job[r].st = "RUNNING" /\ t \in Sites(job[r])
  BY <1>2 DEF JobsOK, Serves
<1>8. ServedAs(enlisted', enlisted, job'[r], r)
  <2> SUFFICES ASSUME NEW t \in Site
               PROVE  enlisted'[t] = IF k.st = "RUNNING" /\ t \in Sites(k)
                                     THEN enlisted[t] \cup {r} ELSE enlisted[t] \ {r}
    BY <1>4, <1>6 DEF ServedAs
  <2>1. CASE t = s
    BY <1>1, <1>3, <1>6, <2>1
  <2>2. CASE t # s
    BY <1>1, <1>3, <1>6, <1>7, <2>2
  <2> QED BY <2>1, <2>2
<1>9. JobsOK(job', enlisted', flight')
  <2>1. AtMostForgotten(job', job, Race \ {r})
    BY <1>4 DEF AtMostForgotten
  <2> QED BY <1>2, <1>3, <1>4, <1>5, <1>8, <2>1, ServesAfter
<1>10. EngineOK(job', eng')
  <2>1. \A q \in Race : job'[q].st = job[q].st
    BY <1>3, <1>4
  <2>2. Listed(job', eng)
    BY <1>2, <2>1, SameStates DEF EngineOK
  <2> QED BY <1>1, <1>2, <2>2 DEF EngineOK
<1> QED BY <1>1, <1>9, <1>10, IdleStep

LEMMA RaceCompleteOK ==
  ASSUME JobsOK(job, enlisted, flight), EngineOK(job, eng), NEW r \in Race, job[r].st = "RUNNING",
         NEW k, JobOK(k), k.st \in Over, Sites(k) = Sites(job[r]), raceComplete(r, k)
  PROVE  /\ JobsOK(job', enlisted', flight') /\ EngineOK(job', eng')
         /\ eng'.current = eng.current \ {r}
<1>1. /\ eng' = Finish(eng, r) /\ job' = Forgotten([job EXCEPT ![r] = k], eng')
      /\ enlisted' = [s \in Site |-> IF s \in Sites(k) THEN enlisted[s] \ {r} ELSE enlisted[s]]
      /\ flight' = [flight EXCEPT ![r] = [s \in Site |->
           IF s \in Sites(k) /\ flight[r][s] = "stat" THEN "no" ELSE flight[r][s]]]
  <2>1. flight \in Flights
    BY DEF JobsOK
  <2> QED BY <2>1, Zenon DEF raceComplete, RemoveRace, Sites, Flights
<1>2. flight' \in Flights
  BY <1>1 DEF JobsOK, Flights
<1> QED BY <1>1, <1>2, RaceEnds

\* A job that is aborted or timed out ends on all its sites at once.
LEMMA EndsEverywhereOK ==
  ASSUME NEW j, JobOK(j), j.st = "RUNNING", NEW end \in Over
  PROVE  LET k == SiteEnds([setDone(j) EXCEPT !.st = end], Site, end)
         IN JobOK(k) /\ k.st \in Over /\ Sites(k) = Sites(j)
BY EndedOK DEF JobOK, SameReports

LEMMA AbortRaceOK ==
  ASSUME SpreadStrong, NEW r \in Race, abortRace(r)
  PROVE  SpreadStrong'
<1> DEFINE k == SiteEnds([setDone(job[r]) EXCEPT !.st = "ABORTED"], Site, "ABORTED")
<1>1. Ready /\ UNCHANGED <<todo, crashed>> /\ job[r].st = "RUNNING" /\ raceComplete(r, k)
  BY DEF abortRace
<1>2. JobsOK(job, enlisted, flight) /\ EngineOK(job, eng) /\ JobOK(job[r])
  BY DEF SpreadStrong, JobsOK, AllOK
<1>3. JobOK(k) /\ k.st \in Over /\ Sites(k) = Sites(job[r])
  <2>1. "ABORTED" \in Over
    BY DEF Over
  <2> QED BY <1>1, <1>2, <2>1, EndsEverywhereOK
<1> HIDE DEF k
<1>4. JobsOK(job', enlisted', flight') /\ EngineOK(job', eng')
  BY <1>1, <1>2, <1>3, RaceCompleteOK
<1> QED BY <1>1, <1>4, IdleStep

LEMMA ResetRaceOK ==
  ASSUME SpreadStrong, NEW r \in Race, resetRace(r)
  PROVE  SpreadStrong'
<1> DEFINE k == ResetRec(job[r])
           S == Sites(job[r])
<1>1. /\ Ready /\ UNCHANGED <<flight, todo, crashed>> /\ job[r].st # "none"
      /\ job' = [job EXCEPT ![r] = k]
      /\ enlisted' = [s \in Site |-> IF s \in S THEN enlisted[s] \cup {r} ELSE enlisted[s]]
      /\ eng' = checkStartPoke(removeFromFinished(eng, r))
  BY DEF resetRace, Enlist
<1>2. JobsOK(job, enlisted, flight) /\ EngineOK(job, eng) /\ JobOK(job[r])
  BY DEF SpreadStrong, JobsOK, AllOK
<1>3. JobOK(k) /\ Sites(k) = S /\ k.st = "RUNNING"
  BY <1>1, <1>2, ResetOK
<1> HIDE DEF k, S
<1>4. Jobs(job') /\ job'[r] = k /\ AtMostForgotten(job', job, Race \ {r})
  BY <1>1, <1>2 DEF JobsOK, Jobs, AtMostForgotten
<1>5. flight' \in Flights
  BY <1>1, <1>2 DEF JobsOK
<1>6. IF job[r].st = "RUNNING" THEN Sites(k) = Sites(job[r]) \cup S ELSE Sites(k) = S
  BY <1>3 DEF S
<1>7. JobsOK(job', enlisted', flight')
  BY <1>1, <1>2, <1>3, <1>4, <1>5, <1>6, RaceRuns
<1>8. EngineOK(job', eng')
  BY <1>1, <1>2, <1>3, ResumeOK DEF EngineOK
<1> QED BY <1>1, <1>7, <1>8, IdleStep

\* A listing starts, or is dropped or says nothing new.
LEMMA FlightOnly ==
  ASSUME SpreadStrong, Ready, UNCHANGED <<job, enlisted, eng, todo, crashed>>, flight' \in Flights
  PROVE  SpreadStrong'
<1>1. JobsOK(job', enlisted', flight') /\ EngineOK(job', eng')
  BY DEF SpreadStrong, JobsOK
<1> QED BY <1>1, IdleStep

LEMMA FlightFacts ==
  ASSUME SpreadStrong, NEW r \in Race, NEW s \in Site, NEW how \in {"no", "stat", "data"},
         flight' = [flight EXCEPT ![r][s] = how]
  PROVE  flight' \in Flights
BY DEF SpreadStrong, JobsOK, Flights

LEMMA ListStartOK ==
  ASSUME SpreadStrong, NEW r \in Race, NEW s \in Site, NEW how \in {"stat", "data"}, ListStart(r, s, how)
  PROVE  SpreadStrong'
<1>1. /\ Ready /\ UNCHANGED <<job, enlisted, eng, todo, crashed>>
      /\ flight' = [flight EXCEPT ![r][s] = how]
  BY DEF ListStart
<1> QED BY <1>1, FlightFacts, FlightOnly

\* What a complete list makes of the job.
LEMMA CompletedOK ==
  ASSUME NEW j, JobOK(j), j.st = "RUNNING", NEW s \in Sites(j), NEW dirs \in SUBSET DirStates
  PROVE  LET k == IF "empty" \in dirs THEN reportSemiDone(j, s)
                  ELSE reportDone(SiteEnds(j, {s}, "DONE"), s)
         IN JobOK(k) /\ Sites(k) = Sites(j) /\ k.st \in {"RUNNING", "DONE"}
<1>1. CASE "empty" \in dirs
  <2>1. EmptyDirs
    BY <1>1 DEF DirStates
  <2> DEFINE k == reportSemiDone(j, s)
  <2> HIDE DEF k
  <2>2. JobBase(k) /\ Sites(k) = Sites(j) /\ (k.st = "DONE" \/ k.st = "RUNNING")
    <3>1. JobBase(j)
      BY DEF JobOK
    <3>2. /\ JobBase(k) /\ Sites(k) = Sites(j)
          /\ k.st # "DONE" => k.st = "RUNNING" /\ k.dl = j.dl
                             /\ (s \in j.semi \/ ~AllReported(j, j.semi \cup {s}))
      BY <3>1, ReportSemiOK DEF k
    <3> QED BY <3>2
  <2>3. JobOK(k)
    BY <2>1, <2>2 DEF JobOK, SameReports
  <2> QED BY <1>1, <2>2, <2>3 DEF k
<1>2. CASE "empty" \notin dirs
  BY <1>2, ReportDoneOK
<1> QED BY <1>1, <1>2

LEMMA CheckCompleteOK ==
  ASSUME SpreadStrong, Ready, UNCHANGED <<todo, crashed>>, NEW r \in Race, NEW s \in Site,
         r \in enlisted[s], NEW dirs \in SUBSET DirStates, checkIfRaceComplete(r, s, dirs)
  PROVE  SpreadStrong'
<1> DEFINE k == IF "empty" \in dirs THEN reportSemiDone(job[r], s)
                ELSE reportDone(SiteEnds(job[r], {s}, "DONE"), s)
           Full == "complete" \in dirs /\ "unfinished" \notin dirs
           fl == [t \in Site |-> IF t = s \/ (t \in Sites(k) /\ flight[r][t] = "stat")
                                 THEN "no" ELSE flight[r][t]]
<1>1. JobsOK(job, enlisted, flight) /\ EngineOK(job, eng) /\ JobOK(job[r])
  BY DEF SpreadStrong, JobsOK, AllOK
<1>2. job[r].st = "RUNNING" /\ s \in Sites(job[r])
  BY <1>1 DEF JobsOK, Serves
<1>3. JobOK(k) /\ Sites(k) = Sites(job[r]) /\ k.st \in {"RUNNING", "DONE"}
  BY <1>1, <1>2, CompletedOK
<1>4. CASE ~Full
  <2>1. flight' = [flight EXCEPT ![r][s] = "no"] /\ UNCHANGED <<job, enlisted, eng>>
    BY <1>4 DEF checkIfRaceComplete
  <2> QED BY <2>1, FlightFacts, FlightOnly
<1>5. CASE Full /\ k.st = "RUNNING"
  <2>1. /\ job' = [job EXCEPT ![r] = k] /\ flight' = [flight EXCEPT ![r][s] = "no"]
        /\ UNCHANGED <<enlisted, eng>>
    BY <1>5 DEF checkIfRaceComplete
  <2> HIDE DEF k
  <2>2. flight' \in Flights
    BY <2>1, FlightFacts
  <2>3. JobsOK(job', enlisted', flight') /\ EngineOK(job', eng')
    BY <1>1, <1>2, <1>3, <1>5, <2>1, <2>2, RaceChanges
  <2> QED BY <2>3, IdleStep
<1>6. CASE Full /\ k.st # "RUNNING"
  <2>1. flight \in Flights
    BY <1>1 DEF JobsOK
  <2>2. /\ eng' = Finish(eng, r) /\ job' = Forgotten([job EXCEPT ![r] = k], eng')
        /\ enlisted' = [t \in Site |-> IF t \in Sites(k) THEN enlisted[t] \ {r} ELSE enlisted[t]]
        /\ flight' = [flight EXCEPT ![r] = fl]
    BY <1>6, <2>1 DEF checkIfRaceComplete, Flights
  <2> HIDE DEF k
  <2>3. flight' \in Flights
    BY <2>1, <2>2 DEF Flights
  <2>4. k.st \in Over
    BY <1>3, <1>6 DEF Over
  <2>5. JobsOK(job', enlisted', flight') /\ EngineOK(job', eng')
    BY <1>1, <1>2, <1>3, <2>2, <2>3, <2>4, RaceEnds
  <2> QED BY <2>5, IdleStep
<1> QED BY <1>4, <1>5, <1>6

\* The null SiteRace: a job that is over still runs on the site.
LEMMA NullMetOK ==
  ASSUME SpreadStrong, Ready, NEW r \in Race, NEW s \in Site, job[r].sr[s] = "RUNNING",
         r \notin enlisted[s], crashed' = TRUE, UNCHANGED <<job, enlisted, flight, eng, todo>>
  PROVE  SpreadStrong'
<1>1. JobsOK(job, enlisted, flight) /\ JobOK(job[r])
  BY DEF SpreadStrong, JobsOK, AllOK
<1>2. s \in Running(job[r]) /\ s \in Sites(job[r])
  BY DEF Running, Sites
<1>3. job[r].st # "RUNNING" /\ job[r].st # "none"
  BY <1>1, <1>2, NoJobOK DEF JobsOK, Serves, JobOK, JobBase
<1>4. job[r].st \in Over
  BY <1>1, <1>3 DEF JobOK, JobBase, JobRec
<1>5. EmptyDirs
  BY <1>1, <1>2, <1>4 DEF JobOK, SameReports
<1>6. NullMet'
  BY <1>2, <1>4, <1>5 DEF NullMet
<1>7. TodoOK'
  BY DEF SpreadStrong, TodoOK, Ready
<1> QED BY <1>6, <1>7 DEF SpreadStrong

LEMMA RefreshedOK ==
  ASSUME SpreadStrong, NEW r \in Race, NEW s \in Site, NEW overload \in BOOLEAN,
         NEW dirs \in SUBSET DirStates, jobFileListRefreshed(r, s, overload, dirs)
  PROVE  SpreadStrong'
<1> DEFINE live == job[r].sr[s] = "RUNNING"
<1>1. Ready /\ UNCHANGED todo
  BY DEF jobFileListRefreshed
<1>2. CASE ~live \/ overload
  <2>1. flight' = [flight EXCEPT ![r][s] = "no"] /\ UNCHANGED <<job, enlisted, eng, crashed>>
    BY <1>2 DEF jobFileListRefreshed
  <2> QED BY <1>1, <2>1, FlightFacts, FlightOnly
<1>3. CASE live /\ ~overload /\ r \notin enlisted[s]
  <2>1. crashed' = TRUE /\ UNCHANGED <<job, enlisted, flight, eng>>
    BY <1>3 DEF jobFileListRefreshed
  <2> QED BY <1>1, <1>3, <2>1, NullMetOK
<1>4. CASE live /\ ~overload /\ r \in enlisted[s]
  <2>1. checkIfRaceComplete(r, s, dirs) /\ UNCHANGED crashed
    BY <1>4 DEF jobFileListRefreshed
  <2> QED BY <1>1, <1>4, <2>1, CheckCompleteOK
<1> QED BY <1>2, <1>3, <1>4

-----------------------------------------------------------------------------
(***************************************************************************)
(* The tick.                                                               *)
(***************************************************************************)
LEMMA TickBeginOK ==
  ASSUME SpreadStrong, NEW quiet \in BOOLEAN, TickBegin(quiet)
  PROVE  SpreadStrong'
<1>1. /\ Ready /\ eng.poke /\ todo' = [on |-> TRUE, quiet |-> quiet, left |-> eng.current]
      /\ eng' = eng \/ eng' = [eng EXCEPT !.startnext = FALSE]
      /\ UNCHANGED <<job, enlisted, flight, crashed>>
  BY DEF TickBegin
<1>2. JobsOK(job, enlisted, flight) /\ EngineOK(job, eng) /\ eng \in EngineRec
  BY DEF SpreadStrong, EngineOK, Listed
<1>3. /\ eng' \in EngineRec /\ eng'.current = eng.current /\ eng'.all = eng.all
      /\ eng'.finished = eng.finished /\ eng'.prepared = eng.prepared /\ eng'.poke = eng.poke
  BY <1>1, <1>2 DEF EngineRec
<1>4. Listed(job, eng')
  BY <1>2, <1>3, SameLists DEF EngineOK
<1>5. EngineOK(job', eng')
  BY <1>1, <1>2, <1>3, <1>4 DEF EngineOK, Poked
<1>6. TodoOK'
  <2>1. eng.current \subseteq Race
    BY <1>2 DEF EngineRec
  <2>2. ~crashed /\ ~crashed'
    BY <1>1 DEF Ready
  <2>3. crashed' \in BOOLEAN
    BY <1>1 DEF SpreadStrong, TodoOK
  <2> QED BY <1>1, <1>3, <2>1, <2>2, <2>3 DEF TodoOK
<1>7. NullMet'
  BY <1>1 DEF NullMet, Ready
<1> QED BY <1>1, <1>2, <1>5, <1>6, <1>7 DEF SpreadStrong

LEMMA TimeoutCheckFacts ==
  ASSUME NEW j \in JobRec, NEW lists
  PROVE  TimeoutCheck(j, lists).checks \in 0..HardChecks
<1>1. j.checks \in 0..HardChecks /\ SoftChecks \in Nat /\ HardChecks \in Nat /\ SoftChecks < HardChecks
  BY SpreadAssumption DEF JobRec
<1> QED BY <1>1 DEF TimeoutCheck

\* Any job the tick still has to visit is current.
LEMMA VisitFacts ==
  ASSUME SpreadStrong, todo.on, NEW r \in todo.left
  PROVE  job[r].st = "RUNNING" /\ JobOK(job[r]) /\ r \in Race /\ ~crashed
<1>1. r \in eng.current /\ ~crashed
  BY DEF SpreadStrong, TodoOK
<1> QED BY <1>1 DEF SpreadStrong, EngineOK, Listed, JobsOK, AllOK

LEMMA TickSitesOK ==
  ASSUME JobsOK(job, enlisted, flight), EngineOK(job, eng), NEW r \in Race, job[r].st = "RUNNING",
         NEW j, JobOK(j), j.st = "RUNNING", Sites(j) = Sites(job[r]), NEW slow, TickSites(r, j, slow)
  PROVE  /\ JobsOK(job', enlisted', flight') /\ EngineOK(job', eng')
         /\ eng.current \ {r} \subseteq eng'.current
<1> DEFINE h == SiteEnds(j, slow, "TIMEOUT")
           k == checkIfAllSemiDone(h)
<1>1. IF k.st = "RUNNING" THEN job' = [job EXCEPT ![r] = k] /\ UNCHANGED <<enlisted, flight, eng>>
      ELSE raceComplete(r, k)
  BY DEF TickSites
<1>2. j \in JobRec /\ "TIMEOUT" \in Over
  BY DEF JobOK, JobBase, Over
<1>3. /\ h \in JobRec /\ Sites(h) = Sites(j) /\ Running(h) = Running(j) \ slow
      /\ h.st = j.st /\ h.dl = j.dl /\ h.semi = j.semi /\ h.done = j.done /\ h.poke = j.poke
  BY <1>2, SiteEndsFacts
<1> HIDE DEF h
<1>4. JobBase(h) /\ SameReports(h)
  BY <1>3 DEF JobOK, JobBase, SameReports, Over
<1>5. /\ JobBase(k) /\ Sites(k) = Sites(h) /\ k.semi = h.semi /\ k.done = h.done
      /\ (k.st = "DONE" /\ Running(k) = {}) \/ k = h
  BY <1>3, <1>4, SemiCheckOK
<1> HIDE DEF k
<1>6. JobOK(k) /\ Sites(k) = Sites(job[r]) /\ k.st \in {"RUNNING", "DONE"}
  BY <1>3, <1>4, <1>5 DEF JobOK, SameReports
<1>7. CASE k.st = "RUNNING"
  <2>1. flight' \in Flights
    BY <1>1, <1>7 DEF JobsOK
  <2> QED BY <1>1, <1>6, <1>7, <2>1, RaceChanges
<1>8. CASE k.st = "DONE"
  <2>1. k.st \in Over /\ raceComplete(r, k)
    BY <1>1, <1>8 DEF Over
  <2> QED BY <1>6, <2>1, RaceCompleteOK
<1> QED BY <1>6, <1>7, <1>8

LEMMA TickJobOK ==
  ASSUME SpreadStrong, NEW r \in Race, NEW lists, NEW what, NEW slow, TickJob(r, lists, what, slow)
  PROVE  SpreadStrong'
<1> DEFINE check == TimeoutCheck(job[r], lists)
           quiet == check.late /\ what # "waiting"
           j == [job[r] EXCEPT !.checks = check.checks]
           visited == IF quiet THEN Retried(j, what) ELSE j
<1>1. /\ todo.on /\ r \in todo.left /\ todo' = [todo EXCEPT !.left = @ \ {r}] /\ crashed' = crashed
  BY DEF TickJob
<1>2. JobsOK(job, enlisted, flight) /\ EngineOK(job, eng)
  BY DEF SpreadStrong
<1>3. job[r].st = "RUNNING" /\ JobOK(job[r]) /\ ~crashed /\ job[r] \in JobRec /\ job[r].cleared \in BOOLEAN
  BY <1>1, VisitFacts DEF JobOK, JobBase, JobRec
<1>4. check.checks \in 0..HardChecks
  BY <1>3, TimeoutCheckFacts
<1>5. /\ \/ check.late /\ what = "waiting" /\ job' = [job EXCEPT ![r] = [j EXCEPT !.checks = 0]]
            /\ UNCHANGED <<enlisted, flight, eng>>
         \/ TimedOut(r, j)
         \/ TickSites(r, visited, slow)
  BY DEF TickJob
<1> HIDE DEF check
<1>6. JobOK(j) /\ Sites(j) = Sites(job[r]) /\ j.st = "RUNNING"
  <2>1. j = [job[r] EXCEPT !.checks = check.checks, !.cleared = job[r].cleared]
    BY <1>3 DEF JobRec
  <2> HIDE DEF j
  <2> QED BY <1>3, <1>4, <2>1, CountOK
<1> HIDE DEF j
<1>7. j \in JobRec /\ j.cleared \in BOOLEAN /\ j.checks \in 0..HardChecks
  BY <1>6 DEF JobOK, JobBase, JobRec
<1>8. /\ JobsOK(job', enlisted', flight') /\ EngineOK(job', eng')
      /\ eng.current \ {r} \subseteq eng'.current
  <2>1. CASE /\ job' = [job EXCEPT ![r] = [j EXCEPT !.checks = 0]]
             /\ UNCHANGED <<enlisted, flight, eng>>
    <3> DEFINE k == [j EXCEPT !.checks = 0]
    <3>1. k = [j EXCEPT !.checks = 0, !.cleared = j.cleared]
      BY <1>7 DEF JobRec
    <3> HIDE DEF k
    <3>2. JobOK(k) /\ Sites(k) = Sites(j) /\ k.st = "RUNNING"
      BY <1>6, <1>7, <3>1, CountStarts, CountOK
    <3>3. job' = [job EXCEPT ![r] = k] /\ flight' \in Flights
      BY <1>2, <2>1 DEF k, JobsOK
    <3> QED BY <1>2, <1>3, <1>6, <2>1, <3>2, <3>3, RaceChanges
  <2>2. CASE TimedOut(r, j)
    <3> DEFINE k == SiteEnds([setDone(j) EXCEPT !.st = "TIMEOUT"], Site, "TIMEOUT")
    <3>1. "TIMEOUT" \in Over
      BY DEF Over
    <3>2. JobOK(k) /\ k.st \in Over /\ Sites(k) = Sites(j)
      BY <1>6, <3>1, EndsEverywhereOK
    <3>3. raceComplete(r, k)
      BY <2>2 DEF TimedOut
    <3> HIDE DEF k
    <3> QED BY <1>2, <1>3, <1>6, <3>2, <3>3, RaceCompleteOK
  <2>3. CASE TickSites(r, visited, slow)
    <3>1. JobOK(visited) /\ Sites(visited) = Sites(j) /\ visited.st = "RUNNING"
      <4> DEFINE c == IF what = "attempts" THEN 0 ELSE j.checks
      <4>1. c \in 0..HardChecks /\ TRUE \in BOOLEAN
        BY <1>7, CountStarts
      <4>2. Retried(j, what) = [j EXCEPT !.checks = c, !.cleared = TRUE]
        BY <1>7 DEF Retried, JobRec
      <4> HIDE DEF c
      <4>3. /\ JobOK(Retried(j, what)) /\ Sites(Retried(j, what)) = Sites(j)
            /\ Retried(j, what).st = "RUNNING"
        BY <1>6, <4>1, <4>2, CountOK
      <4> QED BY <1>6, <4>3
    <3> HIDE DEF visited
    <3> QED BY <1>2, <1>3, <1>6, <2>3, <3>1, TickSitesOK
  <2> QED BY <1>5, <2>1, <2>2, <2>3
<1>9. TodoOK'
  <2>1. /\ todo \in [on : BOOLEAN, quiet : BOOLEAN, left : SUBSET Race] /\ crashed \in BOOLEAN
        /\ todo.left \subseteq eng.current
    BY <1>1 DEF SpreadStrong, TodoOK
  <2>2. todo' \in [on : BOOLEAN, quiet : BOOLEAN, left : SUBSET Race] /\ todo'.left = todo.left \ {r}
    BY <1>1, <2>1
  <2>3. todo'.left \subseteq eng'.current
    BY <1>8, <2>1, <2>2
  <2>4. todo'.on
    BY <1>1, <2>1
  <2> QED BY <1>1, <1>3, <2>1, <2>2, <2>3, <2>4 DEF TodoOK
<1>10. NullMet'
  BY <1>1, <1>3 DEF NullMet
<1> QED BY <1>8, <1>9, <1>10 DEF SpreadStrong

LEMMA TickEndOK ==
  ASSUME SpreadStrong, TickEnd
  PROVE  SpreadStrong'
<1> DEFINE aged == [i \in DOMAIN eng.prepared |-> [eng.prepared[i] EXCEPT !.ttl = @ - 1]]
           kept == Unexpired(aged)
           e == [eng EXCEPT !.prepared = kept]
<1>1. /\ todo.on /\ eng' = StopPoke(e) /\ todo' = NotTicking
      /\ UNCHANGED <<job, enlisted, flight, crashed>>
  BY DEF TickEnd
<1>2. JobsOK(job, enlisted, flight) /\ EngineOK(job, eng) /\ eng \in EngineRec
  BY DEF SpreadStrong, EngineOK, Listed
<1>3. eng.prepared \in Seq(Prepared) /\ Len(eng.prepared) \in Nat /\ DOMAIN eng.prepared = 1..Len(eng.prepared)
  BY <1>2, LenProperties DEF EngineRec
<1>4. Len(aged) = Len(eng.prepared)
  BY <1>3
<1>5. ASSUME NEW i \in 1..Len(eng.prepared), ~(aged[i].ttl < 0)
      PROVE  aged[i] \in Prepared
  <2> DEFINE p == eng.prepared[i]
  <2>1. p \in Prepared /\ ExpiryTime \in Nat
    BY <1>3, ElementOfSeq, SpreadAssumption
  <2>2. aged[i] = [p EXCEPT !.ttl = @ - 1]
    BY <1>3
  <2> HIDE DEF p, aged
  <2>3. aged[i].ttl = p.ttl - 1 /\ p.ttl \in -1..ExpiryTime
    BY <2>1, <2>2 DEF Prepared
  <2>4. p.ttl - 1 \in -1..ExpiryTime
    BY <1>5, <2>1, <2>3
  <2> QED BY <2>1, <2>2, <2>4 DEF Prepared
<1> HIDE DEF aged
<1>6. kept \in Seq(Prepared) /\ Len(kept) <= Len(eng.prepared)
  BY <1>3, <1>4, <1>5, UnexpiredFacts
<1> HIDE DEF kept
<1>7. eng.prepared = << >> => kept = << >>
  BY <1>6, EmptySeq
<1>8. /\ e \in EngineRec /\ e.prepared = kept /\ e.poke = eng.poke /\ e.startnext = eng.startnext
      /\ e.current = eng.current /\ e.all = eng.all /\ e.finished = eng.finished
  BY <1>2, <1>6 DEF EngineRec
<1> HIDE DEF e
<1>9. /\ eng' \in EngineRec /\ eng'.prepared = kept /\ eng'.startnext = e.startnext
      /\ eng'.current = e.current /\ eng'.all = e.all /\ eng'.finished = e.finished
      /\ e.current # {} \/ e.prepared # << >> \/ e.startnext => eng'.poke = e.poke
  BY <1>1, <1>8 DEF StopPoke, EngineRec
<1>10. Listed(job, eng')
  BY <1>2, <1>8, <1>9, SameLists DEF EngineOK
<1>11. Poked(eng')
  BY <1>2, <1>7, <1>8, <1>9 DEF EngineOK, Poked
<1>12. Len(kept) <= MaxPrepared
  <2>1. Len(eng.prepared) <= MaxPrepared /\ MaxPrepared \in Nat /\ Len(kept) \in Nat
    BY <1>2, <1>6, SpreadAssumption, LenProperties DEF EngineOK
  <2> QED BY <1>3, <1>6, <2>1
<1>13. EngineOK(job', eng')
  BY <1>1, <1>2, <1>8, <1>9, <1>10, <1>11, <1>12 DEF EngineOK
<1>14. TodoOK'
  <2>1. crashed' \in BOOLEAN
    BY <1>1 DEF SpreadStrong, TodoOK
  <2> QED BY <1>1, <2>1 DEF TodoOK, NotTicking
<1>15. NullMet'
  BY <1>1 DEF SpreadStrong, NullMet
<1> QED BY <1>1, <1>2, <1>13, <1>14, <1>15 DEF SpreadStrong

-----------------------------------------------------------------------------
(***************************************************************************)
(* The invariant.                                                          *)
(***************************************************************************)
LEMMA SpreadStarts == SpreadInit => SpreadStrong
<1> SUFFICES ASSUME SpreadInit PROVE SpreadStrong
  OBVIOUS
<1>1. /\ job = [r \in Race |-> NoJob] /\ enlisted = [s \in Site |-> {}]
      /\ flight = [r \in Race |-> [s \in Site |-> "no"]]
      /\ eng = [current |-> {}, finished |-> << >>, all |-> {}, prepared |-> << >>,
                startnext |-> FALSE, poke |-> FALSE]
      /\ todo = NotTicking /\ crashed = FALSE
  BY DEF SpreadInit
<1>2. JobsOK(job, enlisted, flight)
  <2>1. Jobs(job) /\ AllOK(job)
    BY <1>1, NoJobOK DEF Jobs, AllOK
  <2>2. Serves(job, enlisted)
    BY <1>1, NoJobOK DEF Serves
  <2> QED BY <1>1, <2>1, <2>2 DEF JobsOK, Flights
<1>3. EngineOK(job, eng)
  <2>1. << >> \in Seq(Race) /\ << >> \in Seq(Prepared) /\ Len(eng.prepared) = 0 /\ Len(eng.finished) = 0
    BY <1>1, EmptySeq
  <2>2. eng \in EngineRec
    BY <1>1, <2>1 DEF EngineRec
  <2>3. IsFiniteSet(eng.all)
    BY <1>1, FS_EmptySet
  <2>4. eng.all = {r \in Race : job[r].st # "none"} /\ eng.current = {r \in Race : job[r].st = "RUNNING"}
    BY <1>1, NoJobOK
  <2>5. NoRepeat(eng.finished) /\ ToSet(eng.finished) = eng.all \ eng.current
    <3>1. ToSet(<< >>) = {}
      BY DEF ToSet
    <3> QED BY <1>1, <2>1, <3>1 DEF NoRepeat
  <2>6. Len(eng.prepared) <= MaxPrepared
    BY <2>1, SpreadAssumption
  <2> QED BY <1>1, <2>2, <2>3, <2>4, <2>5, <2>6 DEF EngineOK, Listed, Poked
<1>4. TodoOK /\ NullMet
  BY <1>1 DEF TodoOK, NullMet, NotTicking
<1> QED BY <1>2, <1>3, <1>4 DEF SpreadStrong

LEMMA SpreadKept == SpreadStrong /\ [SpreadNext]_spvars => SpreadStrong'
<1> SUFFICES ASSUME SpreadStrong, [SpreadNext]_spvars PROVE SpreadStrong'
  OBVIOUS
<1>1. CASE SpreadUser
  BY <1>1, NewSpreadJobOK, StartPreparedOK, DeletePreparedOK, ToggleOK, RemoveSiteFromRaceOK,
     AbortRaceOK, ResetRaceOK DEF SpreadUser
<1>2. CASE SpreadList
  <2>1. CASE \E r \in Race, s \in Site, how \in {"stat", "data"} : ListStart(r, s, how)
    BY <2>1, ListStartOK
  <2>2. CASE \E r \in Race, s \in Site, overload \in BOOLEAN, dirs \in (SUBSET DirStates) \ {{}} :
               jobFileListRefreshed(r, s, overload, dirs)
    BY <2>2, RefreshedOK
  <2> QED BY <1>2, <2>1, <2>2 DEF SpreadList
<1>3. CASE SpreadTick
  BY <1>3, TickBeginOK, TickJobOK, TickEndOK DEF SpreadTick
<1>4. CASE UNCHANGED spvars
  BY <1>4 DEF spvars, SpreadStrong, JobsOK, EngineOK, Listed, Poked, Serves, Jobs, AllOK, TodoOK, NullMet
<1> QED BY <1>1, <1>2, <1>3, <1>4 DEF SpreadNext

LEMMA SpreadStrongEnough == SpreadStrong => SpreadInv
<1> SUFFICES ASSUME SpreadStrong PROVE SpreadInv
  OBVIOUS
<1>1. /\ JobsOK(job, enlisted, flight) /\ EngineOK(job, eng) /\ TodoOK /\ NullMet
      /\ Listed(job, eng) /\ Poked(eng) /\ eng \in EngineRec
  BY DEF SpreadStrong, EngineOK, Listed
<1>2. ASSUME NEW r \in Race
      PROVE  /\ job[r] \in JobRec /\ (job[r].poke <=> job[r].st = "RUNNING")
             /\ job[r].done \subseteq job[r].semi /\ job[r].semi \subseteq Sites(job[r])
             /\ job[r].st \in Over => Running(job[r]) \subseteq job[r].dl
  BY <1>1 DEF JobsOK, AllOK, JobOK, JobBase
<1>3. SpreadTypeOK
  <2>1. job \in [Race -> JobRec]
    BY <1>1, <1>2 DEF JobsOK, Jobs
  <2> QED BY <1>1, <2>1 DEF SpreadTypeOK, JobsOK, Flights, EngineOK, EngineRec, TodoOK
<1>4. JobBooks
  <2>1. eng.finished \in Seq(Race)
    BY <1>1 DEF EngineRec
  <2>2. Len(eng.finished) = Cardinality(ToSet(eng.finished))
    BY <1>1, <2>1, NoRepeatCount DEF Listed
  <2> QED BY <1>1, <2>2 DEF JobBooks, EngineOK, Listed
<1>5. TickerRuns
  BY <1>1, <1>2 DEF TickerRuns, Poked
<1>6. SitesServe
  BY <1>1 DEF SitesServe, JobsOK, Serves
<1>7. ReportsOfSites
  BY <1>2 DEF ReportsOfSites
<1>8. OverEverywhere
  BY <1>1, <1>2 DEF OverEverywhere, NullMet
<1> QED BY <1>3, <1>4, <1>5, <1>6, <1>7, <1>8 DEF SpreadInv

\* The engine's lists, the lists of the sites, the jobs and their pokes tell the
\* same story for any jobs, sites and requests; a job that is over is over on
\* all its sites but for download-only ones, and where no listed directory
\* stays empty a listing never meets a SiteRace its site no longer has
\* (engine.cpp, race.cpp, siterace.cpp and sitelogic.cpp's lists of jobs).
THEOREM SpreadCorrect == SpreadSpec => []SpreadInv
<1>1. SpreadSpec => []SpreadStrong
  BY SpreadStarts, SpreadKept, PTL DEF SpreadSpec
<1> QED BY <1>1, SpreadStrongEnough, PTL

-----------------------------------------------------------------------------

TmRec == [status : Statuses, type : Types, pasv : Sides, error : Errors, timeout : BOOLEAN,
          ts : Results, mark : BOOLEAN, asserted : BOOLEAN]
ConnRec == [link : Links, cmd : Cmds, hold : Holds]
TransferStates == [tm : TmRec, conn : [Sides -> ConnRec], lt : LtStates,
                   rep : [Sides -> {"none", "ok", "err"}]]

(***************************************************************************)
(* The inductive invariant, of a state as the handlers pass it along.  X   *)
(* are the sides whose part has just ended: their connection is about to   *)
(* be given back, their data socket is closed.                             *)
(***************************************************************************)
\* The part of side x is still under way.
Live(s, x) == s.tm.status \notin {"IDLE", Done(x), Err(x)}

\* The side that is this host, unless the transfer is between two sites.
Local(s) == IF s.tm.type = "UPLOAD" THEN "src" ELSE "dst"
HasLocal(s) == s.tm.type # "FXP"

\* A connection that takes no part in the transfer.
Resting(c) == c.hold = "free" /\ c.cmd \in {"none", "other", "abor"}

\* What a connection may have been busy with when it was locked
Early == {"other", "cwd", "abor"}

\* On the way to the transfer command
Busy(c, passive) ==
  \/ c.hold = "set" /\ c.cmd \in Early
  \/ c.hold = "init" /\ c.cmd \in {"cwd", "prep"} \cup IF passive THEN {"pret", "pasv"} ELSE {"port"}

\* A connection of side x that takes part, in status st: it has a command
\* outstanding unless it waits for the other side.
TakesPart(c, st, passive, x) ==
  /\ c.link = "up"
  /\ st = "AWAITING_PASSIVE" =>
       IF passive THEN Busy(c, TRUE) ELSE c.hold = "locked" /\ c.cmd \in Early \cup {"none"}
  /\ st = "AWAITING_ACTIVE" =>
       IF passive THEN c.hold = "init" /\ c.cmd = "none"
       ELSE Busy(c, FALSE) \/ (c.hold = "init" /\ c.cmd = "xfer")
  /\ st = "TRANSFERRING" => c.hold = "init" /\ (c.cmd = "data" \/ (passive /\ c.cmd = "xfer"))
  /\ st = Done(Other(x)) => c.hold = "init" /\ (c.cmd = "data" \/ (c.cmd = "xfer" /\ (passive \/ x = "src")))
  /\ st = Err(Other(x)) =>
       \/ Busy(c, passive)
       \/ c.hold = "init" /\ c.cmd \in {"xfer", "data"}
       \/ c.hold = "locked" /\ ~passive /\ c.cmd \in Early

ConnGood(s, x) ==
  IF IsSite(s, x) /\ Live(s, x) THEN TakesPart(s.conn[x], s.tm.status, s.tm.pasv = x, x)
  ELSE Resting(s.conn[x])

\* The local data socket follows the status; it is closed when its side has ended.
SocketGood(s) ==
  LET L == Local(s)
      there == s.tm.pasv # L
  IN IF s.tm.status = "IDLE" THEN s.lt = "none"
     ELSE /\ s.lt # "none"
          /\ s.lt = "closed" <=> ~Live(s, L)
          /\ s.lt = "reserved" => there /\ s.tm.status \in {"AWAITING_PASSIVE", Err(Other(L))}
          /\ s.lt = "connecting" => there /\ s.tm.status \in {"AWAITING_ACTIVE", Err(Other(L))}
          /\ s.lt = "listening" => ~there
          /\ s.tm.status = "AWAITING_PASSIVE" => s.lt = "reserved"
          /\ s.tm.status = "AWAITING_ACTIVE" /\ there => s.lt = "connecting"

\* What the sides have reported, and what is published of it.
ReportsGood(s) ==
  /\ s.tm.status \in Awaiting \cup {"TRANSFERRING"} => \A x \in Sides : s.rep[x] = "none"
  /\ \A x \in Sides : s.tm.status = Done(x) => s.rep[x] = "ok" /\ s.rep[Other(x)] = "none"
  /\ \A x \in Sides : s.tm.status = Err(x) => s.rep[x] = "err" /\ s.rep[Other(x)] = "none"
  /\ s.tm.status \in {Done("dst"), Err("dst")} => ~s.tm.mark
  /\ s.tm.type = "LIST" => s.tm.ts = "none"
  /\ s.tm.status # "IDLE" /\ s.tm.type # "LIST" => s.tm.ts \in {"inprogress", "aborted"}
  /\ s.tm.status = "IDLE" =>
       /\ s.tm.ts # "inprogress"
       /\ (\E x \in Sides : s.rep[x] # "none") => ~s.tm.mark
       /\ s.tm.ts \notin {"none", "aborted"} =>
            (s.tm.ts = "successful" <=> \A x \in Sides : s.rep[x] = "ok")

GoodBut(s, X) ==
  /\ s \in TransferStates /\ ~s.tm.asserted
  /\ s.tm.type = "UPLOAD" => s.tm.pasv = "dst"
  /\ \A x \in Sides : x \notin X \/ ~IsSite(s, x) => ConnGood(s, x)
  /\ IF ~HasLocal(s) THEN s.lt = "none"
     ELSE IF Local(s) \in X THEN s.lt = "closed"
     ELSE SocketGood(s)
  /\ ReportsGood(s)
  /\ HasLocal(s) /\ s.lt = "open" /\ s.tm.status = "AWAITING_ACTIVE" /\ Other(Local(s)) \notin X
       => s.conn[Other(Local(s))].cmd = "xfer"

TransferStrong == GoodBut(State, {})

-----------------------------------------------------------------------------
(***************************************************************************)
(* The operations, by what they leave behind.                              *)
(***************************************************************************)
LEMMA SideFacts ==
  ASSUME NEW x \in Sides
  PROVE  Other(x) \in Sides /\ Other(x) # x /\ Other(Other(x)) = x /\ Sides = {x, Other(x)}
BY DEF Sides, Other

LEMMA Fields ==
  ASSUME NEW s \in TransferStates
  PROVE  /\ s.tm \in TmRec /\ s.conn \in [Sides -> ConnRec] /\ s.lt \in LtStates
         /\ s.rep \in [Sides -> {"none", "ok", "err"}]
         /\ \A x \in Sides : s.conn[x] \in ConnRec
         /\ s.tm.status \in Statuses /\ s.tm.type \in Types /\ s.tm.pasv \in Sides /\ s.tm.error \in Errors
         /\ s.tm.timeout \in BOOLEAN /\ s.tm.ts \in Results /\ s.tm.mark \in BOOLEAN /\ s.tm.asserted \in BOOLEAN
BY DEF TransferStates, TmRec

\* Nothing but the status, the error, the result and the mark changes.
SameTransfer(s, r) ==
  /\ r.tm.type = s.tm.type /\ r.tm.pasv = s.tm.pasv /\ r.tm.asserted = s.tm.asserted
  /\ r.tm.timeout = s.tm.timeout

LEMMA FailedShape ==
  ASSUME NEW s \in TransferStates, NEW e
  PROVE  LET r == transferFailed(s, e)
         IN /\ r \in TransferStates /\ r.conn = s.conn /\ r.rep = s.rep /\ r.lt = "none"
            /\ r.tm.status = "IDLE" /\ SameTransfer(s, r) /\ r.tm.mark = s.tm.mark
            /\ s.tm.ts \in {"none", "aborted"} => r.tm.ts = s.tm.ts
            /\ s.tm.ts \notin {"none", "aborted"} => r.tm.ts \in {"dupe", "timeout", "failed"}
BY DEF transferFailed, TransferStates, TmRec, SameTransfer, Statuses, Results, LtStates

LEMMA FinishShape ==
  ASSUME NEW s \in TransferStates
  PROVE  LET r == finish(s)
         IN /\ r \in TransferStates /\ r.conn = s.conn /\ r.rep = s.rep /\ r.lt = "none"
            /\ r.tm.status = "IDLE" /\ SameTransfer(s, r) /\ r.tm.mark = s.tm.mark
            /\ r.tm.ts = IF s.tm.ts = "none" THEN "none" ELSE "successful"
BY DEF finish, TransferStates, TmRec, SameTransfer, Statuses, Results, LtStates

LEMMA ReportShape ==
  ASSUME NEW s \in TransferStates, NEW x \in Sides, NEW v \in {"ok", "err"}
  PROVE  LET r == Report(s, x, v)
         IN /\ r \in TransferStates /\ r.conn = s.conn /\ r.lt = s.lt /\ SameTransfer(s, r)
            /\ r.tm.status = s.tm.status /\ r.tm.ts = s.tm.ts /\ r.tm.error = s.tm.error
            /\ r.tm.mark = IF x = "dst" THEN FALSE ELSE s.tm.mark
            /\ r.rep[x] = v /\ r.rep[Other(x)] = s.rep[Other(x)]
<1>1. Other(x) \in Sides /\ Other(x) # x
  BY SideFacts
<1> QED
  BY <1>1 DEF Report, TransferStates, TmRec, SameTransfer

\* The status that a report leads to
LEMMA StatusShape ==
  ASSUME NEW s \in TransferStates, NEW st \in Statuses, NEW e \in Errors
  PROVE  /\ LET r == [s EXCEPT !.tm.status = st, !.tm.error = e]
            IN /\ r \in TransferStates /\ r.conn = s.conn /\ r.lt = s.lt /\ r.rep = s.rep /\ SameTransfer(s, r)
               /\ r.tm.status = st /\ r.tm.ts = s.tm.ts /\ r.tm.mark = s.tm.mark /\ r.tm.error = e
         /\ LET r == [s EXCEPT !.tm.status = st]
            IN /\ r \in TransferStates /\ r.conn = s.conn /\ r.lt = s.lt /\ r.rep = s.rep /\ SameTransfer(s, r)
               /\ r.tm.status = st /\ r.tm.ts = s.tm.ts /\ r.tm.mark = s.tm.mark /\ r.tm.error = s.tm.error
BY DEF TransferStates, TmRec, SameTransfer

\* Connections: one side changes, the monitor does not notice.
ConnChanged(s, r, x) ==
  /\ r \in TransferStates /\ r.tm = s.tm /\ r.lt = s.lt /\ r.rep = s.rep
  /\ r.conn[Other(x)] = s.conn[Other(x)]

LEMMA ConnSet ==
  ASSUME NEW s \in TransferStates, NEW x \in Sides, NEW c \in ConnRec
  PROVE  LET r == [s EXCEPT !.conn[x] = c] IN ConnChanged(s, r, x) /\ r.conn[x] = c
<1>1. Other(x) \in Sides /\ Other(x) # x
  BY SideFacts
<1> QED
  BY <1>1 DEF TransferStates, ConnChanged

LEMMA ConnFacts ==
  ASSUME NEW s \in TransferStates, NEW x \in Sides
  PROVE  s.conn \in [Sides -> ConnRec] /\ s.conn[x] \in ConnRec /\ "free" \in Holds /\ "none" \in Cmds /\ "other" \in Cmds
BY Fields DEF Holds, Cmds

LEMMA ReturnShape ==
  ASSUME NEW s \in TransferStates, NEW x \in Sides
  PROVE  LET r == Return(s, x)
         IN /\ ConnChanged(s, r, x) /\ r.conn[x].hold = "free" /\ r.conn[x].link = s.conn[x].link
            /\ r.conn[x].cmd = IF s.conn[x].cmd = "none" THEN "none" ELSE "other"
<1> DEFINE d == [s.conn[x] EXCEPT !.hold = "free", !.cmd = IF s.conn[x].cmd = "none" THEN "none" ELSE "other"]
<1>1. /\ d \in ConnRec /\ d.hold = "free" /\ d.link = s.conn[x].link
      /\ d.cmd = IF s.conn[x].cmd = "none" THEN "none" ELSE "other"
  BY ConnFacts DEF ConnRec
<1>2. Return(s, x) = [s EXCEPT !.conn[x] = d]
  BY ConnFacts DEF Return, TransferStates, ConnRec
<1> HIDE DEF d
<1> QED
  BY <1>1, <1>2, ConnSet

LEMMA FreeShape ==
  ASSUME NEW s \in TransferStates, NEW x \in Sides
  PROVE  LET r == Free(s, x)
         IN /\ ConnChanged(s, r, x) /\ r.conn[x].hold = "free" /\ r.conn[x].link = s.conn[x].link
            /\ r.conn[x].cmd = s.conn[x].cmd
<1> DEFINE d == [s.conn[x] EXCEPT !.hold = "free"]
<1>1. d \in ConnRec /\ d.hold = "free" /\ d.link = s.conn[x].link /\ d.cmd = s.conn[x].cmd
  BY ConnFacts DEF ConnRec
<1>2. Free(s, x) = [s EXCEPT !.conn[x] = d]
  BY ConnFacts DEF Free, TransferStates, ConnRec
<1> HIDE DEF d
<1> QED
  BY <1>1, <1>2, ConnSet

LEMMA SendShape ==
  ASSUME NEW s \in TransferStates, NEW x \in Sides, NEW c \in Cmds
  PROVE  LET r == Send(s, x, c)
         IN /\ ConnChanged(s, r, x) /\ r.conn[x].hold = s.conn[x].hold /\ r.conn[x].link = s.conn[x].link
            /\ r.conn[x].cmd = c
<1> DEFINE d == [s.conn[x] EXCEPT !.cmd = c]
<1>1. d \in ConnRec /\ d.hold = s.conn[x].hold /\ d.link = s.conn[x].link /\ d.cmd = c
  BY ConnFacts DEF ConnRec
<1>2. Send(s, x, c) = [s EXCEPT !.conn[x] = d]
  BY ConnFacts DEF Send, TransferStates, ConnRec
<1> HIDE DEF d
<1> QED
  BY <1>1, <1>2, ConnSet

LEMMA HoldShape ==
  ASSUME NEW s \in TransferStates, NEW x \in Sides, NEW h \in Holds
  PROVE  LET r == [s EXCEPT !.conn[x].hold = h]
         IN /\ ConnChanged(s, r, x) /\ r.conn[x].hold = h /\ r.conn[x].link = s.conn[x].link
            /\ r.conn[x].cmd = s.conn[x].cmd
<1> DEFINE d == [s.conn[x] EXCEPT !.hold = h]
<1>1. d \in ConnRec /\ d.hold = h /\ d.link = s.conn[x].link /\ d.cmd = s.conn[x].cmd
  BY ConnFacts DEF ConnRec
<1>2. [s EXCEPT !.conn[x].hold = h] = [s EXCEPT !.conn[x] = d]
  BY ConnFacts DEF TransferStates, ConnRec
<1> HIDE DEF d
<1> QED
  BY <1>1, <1>2, ConnSet

Hung(s, x, l) == [s EXCEPT !.conn[x].link = l, !.conn[x].cmd = "none"]

LEMMA HangShape ==
  ASSUME NEW s \in TransferStates, NEW x \in Sides, NEW l \in Links
  PROVE  LET r == Hung(s, x, l)
         IN /\ ConnChanged(s, r, x) /\ r.conn[x].hold = s.conn[x].hold /\ r.conn[x].link = l
            /\ r.conn[x].cmd = "none"
<1> DEFINE d == [s.conn[x] EXCEPT !.link = l, !.cmd = "none"]
<1>1. d \in ConnRec /\ d.hold = s.conn[x].hold /\ d.link = l /\ d.cmd = "none"
  BY ConnFacts DEF ConnRec
<1>2. Hung(s, x, l) = [s EXCEPT !.conn[x] = d]
  BY ConnFacts DEF Hung, TransferStates, ConnRec
<1> HIDE DEF d
<1> QED
  BY <1>1, <1>2, ConnSet

LEMMA LinkShape ==
  ASSUME NEW s \in TransferStates, NEW x \in Sides, NEW l \in Links
  PROVE  LET r == [s EXCEPT !.conn[x].link = l]
         IN /\ ConnChanged(s, r, x) /\ r.conn[x].hold = s.conn[x].hold /\ r.conn[x].link = l
            /\ r.conn[x].cmd = s.conn[x].cmd
<1> DEFINE d == [s.conn[x] EXCEPT !.link = l]
<1>1. d \in ConnRec /\ d.hold = s.conn[x].hold /\ d.link = l /\ d.cmd = s.conn[x].cmd
  BY ConnFacts DEF ConnRec
<1>2. [s EXCEPT !.conn[x].link = l] = [s EXCEPT !.conn[x] = d]
  BY ConnFacts DEF TransferStates, ConnRec
<1> HIDE DEF d
<1> QED
  BY <1>1, <1>2, ConnSet

LEMMA StatusFacts ==
  ASSUME NEW s \in TransferStates, NEW x \in Sides
  PROVE  /\ Done(x) \in Statuses /\ Err(x) \in Statuses /\ Done(x) # Err(x) /\ Done(x) # "IDLE" /\ Err(x) # "IDLE"
         /\ Done(x) # Done(Other(x)) /\ Err(x) # Err(Other(x)) /\ Done(x) # Err(Other(x)) /\ Err(x) # Done(Other(x))
         /\ Done(x) \notin Awaiting \cup {"TRANSFERRING"} /\ Err(x) \notin Awaiting \cup {"TRANSFERRING"}
         /\ Err(x) \in Erring /\ Erring = {Err(x), Err(Other(x))}
         /\ s.tm.status \in {"IDLE", "TRANSFERRING", Done(x), Done(Other(x)), Err(x), Err(Other(x))} \cup Awaiting
BY Fields DEF Done, Err, Other, Sides, Awaiting, Erring, Statuses

\* A side without a site is this host.
LEMMA LocalFacts ==
  ASSUME NEW s \in TransferStates, NEW x \in Sides
  PROVE  /\ Local(s) \in Sides /\ Other(Local(s)) \in Sides
         /\ ~IsSite(s, x) <=> HasLocal(s) /\ x = Local(s)
         /\ IsSite(s, x) \/ IsSite(s, Other(x))
BY Fields DEF IsSite, Local, HasLocal, Other, Sides, Types

LEMMA HostSide ==
  ASSUME NEW s \in TransferStates, HasLocal(s)
  PROVE  LET l == Local(s)
         IN l \in Sides /\ Other(l) \in Sides /\ Other(Other(l)) = l /\ Other(l) # l
            /\ ~IsSite(s, l) /\ IsSite(s, Other(l)) /\ Sides = {Other(l), l}
<1>1. s.tm.type \in Types
  BY Fields
<1> QED
  BY <1>1 DEF IsSite, Local, HasLocal, Other, Sides, Types

LEMMA SameKind ==
  ASSUME NEW s, NEW r, r.tm.type = s.tm.type
  PROVE  /\ \A x : IsSite(r, x) <=> IsSite(s, x)
         /\ HasLocal(r) <=> HasLocal(s)
         /\ Local(r) = Local(s)
BY DEF IsSite, HasLocal, Local

(***************************************************************************)
(* The reports.                                                            *)
(***************************************************************************)
\* What a side's report says is right wherever it leads.
LEMMA ErrorReports ==
  ASSUME NEW s \in TransferStates, NEW r \in TransferStates, NEW x \in Sides, ReportsGood(s), Live(s, x),
         SameTransfer(s, r), r.rep[x] = "err", r.rep[Other(x)] = s.rep[Other(x)],
         x = "dst" => ~r.tm.mark,
         \/ /\ r.tm.status = Err(x) /\ r.tm.ts = s.tm.ts /\ s.rep[Other(x)] = "none"
         \/ /\ r.tm.status = "IDLE" /\ ~r.tm.mark
            /\ s.tm.ts \in {"none", "aborted"} => r.tm.ts = s.tm.ts
            /\ s.tm.ts \notin {"none", "aborted"} => r.tm.ts \in {"dupe", "timeout", "failed"}
  PROVE  ReportsGood(r)
<1>1. Sides = {x, Other(x)} /\ Other(x) \in Sides /\ Other(x) # x /\ Other(Other(x)) = x
  BY SideFacts
<1>2. s.tm.type \in Types /\ s.tm.ts \in Results /\ s.tm.status # "IDLE"
  BY Fields DEF Live
<1>3. CASE r.tm.status = Err(x)
  <2>1. \A y \in Sides : r.tm.status # Done(y)
    BY <1>1, <1>3, StatusFacts
  <2>2. ASSUME NEW y \in Sides, r.tm.status = Err(y) PROVE y = x
    BY <1>1, <1>3, <2>2, StatusFacts
  <2>3. r.tm.status \notin Awaiting \cup {"TRANSFERRING"} /\ r.tm.status # "IDLE"
    BY <1>3, StatusFacts
  <2>4. r.tm.ts = s.tm.ts /\ s.rep[Other(x)] = "none"
    BY <1>3, <2>3
  <2>5. r.tm.status \in {Done("dst"), Err("dst")} => ~r.tm.mark
    BY <2>1, <2>2 DEF Sides
  <2> QED
    BY <1>2, <2>1, <2>2, <2>3, <2>4, <2>5 DEF ReportsGood, SameTransfer
<1>4. CASE r.tm.status = "IDLE"
  <2>1. \A y \in Sides : r.tm.status # Done(y) /\ r.tm.status # Err(y)
    BY <1>4, StatusFacts
  <2>2. "dst" \in Sides /\ "IDLE" \notin Awaiting \cup {"TRANSFERRING"}
    BY DEF Sides, Awaiting
  <2>3. s.tm.ts \in {"none", "aborted", "inprogress"} /\ (s.tm.type = "LIST" => s.tm.ts = "none")
    BY <1>2 DEF ReportsGood
  <2>4. ~r.tm.mark /\ r.tm.ts \in {"none", "aborted", "dupe", "timeout", "failed"}
        /\ (s.tm.type = "LIST" => r.tm.ts = "none")
    <3>1. r.tm.status # Err(x)
      BY <2>1
    <3> QED
      BY <2>3, <3>1
  <2>5. ~ \A y \in Sides : r.rep[y] = "ok"
    OBVIOUS
  <2> QED
    BY <1>4, <2>1, <2>2, <2>4, <2>5 DEF ReportsGood, SameTransfer
<1> QED
  BY <1>3, <1>4

\* A connection with a command outstanding stays on when the other side fails.
LEMMA PartAfterError ==
  ASSUME NEW c, NEW st, NEW passive \in BOOLEAN, NEW x \in Sides, st \in Awaiting \cup {"TRANSFERRING"},
         TakesPart(c, st, passive, x), st \in Awaiting => c.cmd # "none"
  PROVE  TakesPart(c, Err(Other(x)), passive, x)
<1> DEFINE e == Err(Other(x))
<1>1. /\ e = Err(Other(x)) /\ e # Done(Other(x))
      /\ e \notin {"AWAITING_PASSIVE", "AWAITING_ACTIVE", "TRANSFERRING"}
  BY DEF Err, Done, Other, Sides
<1> HIDE DEF e
<1>2. c.link = "up"
  BY DEF TakesPart
<1>3. Busy(c, passive) \/ (c.hold = "init" /\ c.cmd \in {"xfer", "data"})
      \/ (c.hold = "locked" /\ ~passive /\ c.cmd \in Early)
  <2>1. CASE st = "AWAITING_PASSIVE" /\ passive = TRUE
    BY <2>1 DEF TakesPart
  <2>2. CASE st = "AWAITING_PASSIVE" /\ passive = FALSE
    BY <2>2 DEF TakesPart, Awaiting
  <2>3. CASE st = "AWAITING_ACTIVE" /\ passive = TRUE
    BY <2>3 DEF TakesPart, Awaiting
  <2>4. CASE st = "AWAITING_ACTIVE" /\ passive = FALSE
    BY <2>4 DEF TakesPart
  <2>5. CASE st = "TRANSFERRING"
    BY <2>5 DEF TakesPart
  <2> QED
    BY <2>1, <2>2, <2>3, <2>4, <2>5 DEF Awaiting
<1> QED
  BY <1>1, <1>2, <1>3 DEF TakesPart

\* An idle monitor needs no more than two connections that take no part.
LEMMA Ended ==
  ASSUME NEW s \in TransferStates, NEW r \in TransferStates, NEW Y \in SUBSET Sides, SameTransfer(s, r),
         ~s.tm.asserted, s.tm.type = "UPLOAD" => s.tm.pasv = "dst",
         r.tm.status = "IDLE", r.lt = "none", ReportsGood(r), HasLocal(s) => Local(s) \notin Y,
         \A y \in Sides : y \notin Y \/ ~IsSite(s, y) => Resting(r.conn[y])
  PROVE  GoodBut(r, Y)
<1>1. /\ \A y : IsSite(r, y) <=> IsSite(s, y)
      /\ HasLocal(r) <=> HasLocal(s)
      /\ Local(r) = Local(s)
  BY SameKind DEF SameTransfer
<1>2. \A y \in Sides : y \notin Y \/ ~IsSite(r, y) => ConnGood(r, y)
  BY <1>1 DEF ConnGood, Live
<1>3. SocketGood(r)
  BY DEF SocketGood
<1> QED
  BY <1>1, <1>2, <1>3 DEF GoodBut, SameTransfer

LEMMA ErrorReportGood ==
  ASSUME NEW s, NEW X \in SUBSET Sides, NEW x \in Sides, x \in X, NEW e \in Errors, GoodBut(s, X), Live(s, x),
         IsSite(s, x) => X = {x}
  PROVE  LET r == ErrorReport(s, x, e)
         IN /\ GoodBut(r, IF IsSite(s, x) THEN X ELSE X \ {x})
            /\ r.tm.status \in {"IDLE", Err(x)} /\ SameTransfer(s, r) /\ r.conn[x] = s.conn[x]
            /\ ~Live(s, Other(x)) => r.conn[Other(x)] = s.conn[Other(x)] /\ r.tm.status = "IDLE"
<1> DEFINE o == Other(x)
           Y == IF IsSite(s, x) THEN X ELSE X \ {x}
           p == Report(s, x, "err")
           st == s.tm.status
           q == [Return(p, o) EXCEPT !.tm.mark = FALSE]
<1>1. o \in Sides /\ o # x /\ Other(o) = x /\ Sides = {x, o} /\ Y \in SUBSET Sides
  BY SideFacts
<1>2. s \in TransferStates /\ ReportsGood(s) /\ ~s.tm.asserted /\ (s.tm.type = "UPLOAD" => s.tm.pasv = "dst")
  BY DEF GoodBut
<1>3. /\ p \in TransferStates /\ p.conn = s.conn /\ p.lt = s.lt /\ SameTransfer(s, p)
      /\ p.tm.status = st /\ p.tm.ts = s.tm.ts /\ p.tm.error = s.tm.error
      /\ p.tm.mark = IF x = "dst" THEN FALSE ELSE s.tm.mark
      /\ p.rep[x] = "err" /\ p.rep[o] = s.rep[o]
  BY <1>2, ReportShape
<1>4. /\ ~IsSite(s, x) <=> HasLocal(s) /\ x = Local(s)
      /\ ~IsSite(s, o) <=> HasLocal(s) /\ o = Local(s)
      /\ Local(s) \in Sides
  BY <1>1, <1>2, LocalFacts
<1>5. HasLocal(s) => Local(s) \notin Y
  BY <1>1, <1>4
<1>6. ~IsSite(s, x) => Resting(s.conn[x])
  BY DEF GoodBut, ConnGood
<1>7. o \notin Y => o \notin X
  BY <1>1
<1>8. IsSite(s, x) => x \in Y
  OBVIOUS
<1>9. st \in Awaiting \cup {"TRANSFERRING", Done(o), Err(o)} /\ Done(o) \notin Awaiting /\ Err(o) \notin Awaiting
  BY <1>1, <1>2, StatusFacts DEF Live
<1>20. "err" \in {"ok", "err"} /\ FALSE \in BOOLEAN
  OBVIOUS
<1> HIDE DEF o, Y, p, st, q
<1>10. CASE st \in Awaiting /\ IsSite(s, o) /\ ~Processing(s.conn[o])
  <2>1. ErrorReport(s, x, e) = transferFailed(q, e)
    BY <1>9, <1>10 DEF ErrorReport, o, p, st, q
  <2>2. /\ ConnChanged(p, Return(p, o), o) /\ Return(p, o).conn[o].hold = "free"
        /\ Return(p, o).conn[o].cmd = IF p.conn[o].cmd = "none" THEN "none" ELSE "other"
    BY <1>1, <1>3, ReturnShape
  <2>3. /\ q \in TransferStates /\ SameTransfer(s, q) /\ q.tm.status = st /\ q.tm.ts = s.tm.ts /\ ~q.tm.mark
        /\ q.rep = p.rep /\ q.conn[x] = s.conn[x]
        /\ q.conn[o].hold = "free" /\ q.conn[o].cmd = "none"
    <3> DEFINE u == Return(p, o)
    <3>1. u \in TransferStates /\ u.tm = p.tm /\ u.rep = p.rep /\ u.conn[x] = p.conn[x]
      BY <1>1, <2>2 DEF ConnChanged
    <3>2. u.conn[o].hold = "free" /\ u.conn[o].cmd = "none"
      BY <1>3, <1>10, <2>2 DEF Processing
    <3> HIDE DEF u
    <3>3. LET v == [u EXCEPT !.tm.mark = FALSE]
          IN /\ v \in TransferStates /\ SameTransfer(u, v) /\ v.tm.status = u.tm.status /\ v.tm.ts = u.tm.ts /\ ~v.tm.mark
             /\ v.rep = u.rep /\ v.conn = u.conn
      BY <3>1 DEF TransferStates, TmRec, SameTransfer
    <3> QED
      BY <1>3, <3>1, <3>2, <3>3 DEF q, u, SameTransfer
  <2> DEFINE r == transferFailed(q, e)
  <2>4. /\ r \in TransferStates /\ r.conn = q.conn /\ r.rep = q.rep /\ r.lt = "none"
        /\ r.tm.status = "IDLE" /\ SameTransfer(q, r) /\ r.tm.mark = q.tm.mark
        /\ s.tm.ts \in {"none", "aborted"} => r.tm.ts = s.tm.ts
        /\ s.tm.ts \notin {"none", "aborted"} => r.tm.ts \in {"dupe", "timeout", "failed"}
    BY <2>3, FailedShape
  <2> HIDE DEF r
  <2>5. SameTransfer(s, r)
    BY <2>3, <2>4 DEF SameTransfer
  <2>6. ReportsGood(r)
    BY <1>1, <1>2, <1>3, <2>3, <2>4, <2>5, ErrorReports DEF o
  <2>7. \A y \in Sides : y \notin Y \/ ~IsSite(s, y) => Resting(r.conn[y])
    BY <1>1, <1>6, <1>8, <2>3, <2>4 DEF Resting
  <2>8. GoodBut(r, Y)
    BY <1>1, <1>2, <1>5, <2>4, <2>5, <2>6, <2>7, Ended
  <2>9. r.conn[x] = s.conn[x] /\ Live(s, o)
    BY <1>1, <1>9, <1>10, <2>3, <2>4, StatusFacts, <1>2 DEF Live, st, Awaiting
  <2> QED
    BY <2>1, <2>4, <2>5, <2>8, <2>9 DEF r, Y, o
<1>11. CASE st \in {Done(o), Err(o)}
  <2>1. ErrorReport(s, x, e) = transferFailed(p, e)
    BY <1>9, <1>11 DEF ErrorReport, o, p, st, q
  <2> DEFINE r == transferFailed(p, e)
  <2>4. /\ r \in TransferStates /\ r.conn = p.conn /\ r.rep = p.rep /\ r.lt = "none"
        /\ r.tm.status = "IDLE" /\ SameTransfer(p, r) /\ r.tm.mark = p.tm.mark
        /\ s.tm.ts \in {"none", "aborted"} => r.tm.ts = s.tm.ts
        /\ s.tm.ts \notin {"none", "aborted"} => r.tm.ts \in {"dupe", "timeout", "failed"}
    BY <1>3, FailedShape
  <2> HIDE DEF r
  <2>5. SameTransfer(s, r)
    BY <1>3, <2>4 DEF SameTransfer
  <2>3. ~r.tm.mark
    <3>1. CASE x = "dst"
      BY <1>3, <2>4, <3>1
    <3>2. CASE x # "dst"
      <4>1. o = "dst"
        BY <1>1, <3>2 DEF Sides
      <4>2. ~s.tm.mark
        BY <1>2, <1>11, <4>1 DEF ReportsGood, st
      <4> QED
        BY <1>3, <2>4, <3>2, <4>2
    <3> QED
      BY <3>1, <3>2
  <2>6. ReportsGood(r)
    BY <1>1, <1>2, <1>3, <2>3, <2>4, <2>5, ErrorReports DEF o
  <2>2. ~Live(s, o)
    BY <1>11 DEF Live, st
  <2>10. o \notin Y \/ ~IsSite(s, o) => Resting(s.conn[o])
    BY <1>1, <1>7, <2>2 DEF GoodBut, ConnGood
  <2>7. \A y \in Sides : y \notin Y \/ ~IsSite(s, y) => Resting(r.conn[y])
    BY <1>1, <1>3, <1>6, <1>8, <2>4, <2>10
  <2>8. GoodBut(r, Y)
    BY <1>1, <1>2, <1>5, <2>4, <2>5, <2>6, <2>7, Ended
  <2> QED
    BY <1>3, <2>1, <2>4, <2>5, <2>8 DEF r, Y, o
<1>12. CASE st \notin {Done(o), Err(o)} /\ ~(st \in Awaiting /\ IsSite(s, o) /\ ~Processing(s.conn[o]))
  <2> DEFINE r == [p EXCEPT !.tm.status = Err(x), !.tm.error = e]
  <2>1. ErrorReport(s, x, e) = r
    BY <1>9, <1>12 DEF ErrorReport, o, p, st, q
  <2>2. st \in Awaiting \cup {"TRANSFERRING"} /\ Err(x) \in Statuses
    BY <1>2, <1>9, <1>12, StatusFacts
  <2>3. /\ r \in TransferStates /\ r.conn = p.conn /\ r.lt = p.lt /\ r.rep = p.rep /\ SameTransfer(p, r)
        /\ r.tm.status = Err(x) /\ r.tm.ts = p.tm.ts /\ r.tm.mark = p.tm.mark
    <3>1. p \in TransferStates /\ Err(x) \in Statuses /\ e \in Errors
      BY <1>3, <2>2
    <3> QED
      BY <3>1 DEF TransferStates, TmRec, SameTransfer
  <2> HIDE DEF r
  <2>5. SameTransfer(s, r)
    BY <1>3, <2>3 DEF SameTransfer
  <2>6. ReportsGood(r)
    <3>1. s.rep[o] = "none"
      BY <1>1, <1>2, <2>2 DEF ReportsGood, st
    <3> QED
      BY <1>2, <1>3, <2>3, <2>5, <3>1, ErrorReports DEF o
  <2>7. /\ \A y : IsSite(r, y) <=> IsSite(s, y)
        /\ HasLocal(r) <=> HasLocal(s)
        /\ Local(r) = Local(s)
    BY <2>5, SameKind DEF SameTransfer
  <2>8. /\ ~Live(r, x) /\ Live(r, o) /\ Live(s, o) /\ Err(x) # "AWAITING_ACTIVE" /\ Err(x) # "AWAITING_PASSIVE" /\ Err(x) # "IDLE"
        /\ Err(x) # Done(x) /\ Err(x) # Done(o) /\ Err(x) # "TRANSFERRING" /\ Err(x) = Err(Other(o))
    BY <1>1, <1>2, <2>2, <2>3 DEF Live, Done, Err, Awaiting, Sides, st
  <2>9. o \notin Y \/ ~IsSite(s, o) => ConnGood(r, o)
    <3>1. o \notin Y \/ ~IsSite(s, o) => ConnGood(s, o)
      BY <1>1, <1>7 DEF GoodBut
    <3>2. CASE ~IsSite(s, o)
      BY <1>3, <2>3, <2>7, <3>1, <3>2 DEF ConnGood
    <3>3. CASE IsSite(s, o) /\ o \notin Y
      <4>1. TakesPart(s.conn[o], st, s.tm.pasv = o, o)
        BY <2>8, <3>1, <3>3 DEF ConnGood, st
      <4>2. st \in Awaiting => s.conn[o].cmd # "none"
        BY <1>12, <3>3, <4>1 DEF Processing, TakesPart
      <4>3. TakesPart(s.conn[o], Err(x), s.tm.pasv = o, o)
        BY <1>1, <2>2, <4>1, <4>2, PartAfterError DEF o
      <4> QED
        BY <1>3, <2>3, <2>5, <2>7, <2>8, <3>3, <4>3 DEF ConnGood, SameTransfer
    <3> QED
      BY <3>2, <3>3
  <2>10. \A y \in Sides : y \notin Y \/ ~IsSite(r, y) => ConnGood(r, y)
    <3>1. ~IsSite(s, x) => ConnGood(r, x)
      BY <1>3, <1>6, <2>3, <2>8 DEF ConnGood
    <3> QED
      BY <1>1, <1>8, <2>7, <2>9, <3>1
  <2>11. IF ~HasLocal(r) THEN r.lt = "none" ELSE SocketGood(r)
    <3>1. CASE ~HasLocal(s)
      BY <1>3, <2>3, <2>7, <3>1 DEF GoodBut
    <3>2. CASE HasLocal(s) /\ x = Local(s)
      <4>1. s.lt = "closed"
        BY <3>2 DEF GoodBut
      <4> QED
        BY <1>3, <2>3, <2>5, <2>7, <2>8, <3>2, <4>1 DEF SocketGood
    <3>3. CASE HasLocal(s) /\ o = Local(s)
      <4>1. X = {x}
        BY <1>1, <1>4, <3>3
      <4>2. SocketGood(s)
        BY <1>1, <3>3, <4>1 DEF GoodBut
      <4>3. s.lt # "closed" /\ s.lt # "none"
        BY <2>8, <3>3, <4>2 DEF SocketGood, Live
      <4>4. /\ s.lt = "reserved" => s.tm.pasv # o
            /\ s.lt = "connecting" => s.tm.pasv # o
            /\ s.lt = "listening" => s.tm.pasv = o
        BY <3>3, <4>2, <4>3, <2>8 DEF SocketGood, Live
      <4> QED
        BY <1>1, <1>3, <2>3, <2>5, <2>7, <2>8, <3>3, <4>3, <4>4 DEF SocketGood, SameTransfer
    <3> QED
      BY <1>1, <1>4, <3>1, <3>2, <3>3
  <2>12. GoodBut(r, Y)
    BY <1>2, <1>5, <2>3, <2>5, <2>6, <2>7, <2>8, <2>10, <2>11 DEF GoodBut, SameTransfer
  <2> QED
    BY <1>3, <2>1, <2>3, <2>5, <2>8, <2>12 DEF r, Y, o
<1> QED
  BY <1>9, <1>10, <1>11, <1>12

\* The data socket of a side whose part has ended
LEMMA SocketClosed ==
  ASSUME NEW r, r.lt = "closed", r.tm.status \in {Done(Local(r)), Err(Local(r))}
  PROVE  SocketGood(r)
<1>1. Local(r) \in Sides
  BY DEF Local, Sides
<1>2. r.tm.status \notin {"IDLE", "AWAITING_PASSIVE", "AWAITING_ACTIVE"}
  BY <1>1 DEF Done, Err, Sides
<1>3. Live(r, Local(r)) = FALSE
  BY DEF Live
<1> QED
  BY <1>2, <1>3 DEF SocketGood

LEMMA CompleteReports ==
  ASSUME NEW s \in TransferStates, NEW r \in TransferStates, NEW x \in Sides, ReportsGood(s), Live(s, x),
         SameTransfer(s, r), r.rep[x] = "ok", r.rep[Other(x)] = s.rep[Other(x)],
         x = "dst" => ~r.tm.mark, s.tm.mark = FALSE => ~r.tm.mark,
         \/ /\ r.tm.status = Done(x) /\ r.tm.ts = s.tm.ts
            /\ s.tm.status \in {"TRANSFERRING", "AWAITING_ACTIVE"}
         \/ /\ r.tm.status = "IDLE" /\ s.tm.status = Done(Other(x))
            /\ r.tm.ts = IF s.tm.ts = "none" THEN "none" ELSE "successful"
         \/ /\ r.tm.status = "IDLE" /\ s.tm.status = Err(Other(x))
            /\ s.tm.ts \in {"none", "aborted"} => r.tm.ts = s.tm.ts
            /\ s.tm.ts \notin {"none", "aborted"} => r.tm.ts \in {"dupe", "timeout", "failed"}
  PROVE  ReportsGood(r)
<1>1. Sides = {x, Other(x)} /\ Other(x) \in Sides /\ Other(x) # x /\ Other(Other(x)) = x
  BY SideFacts
<1>2. s.tm.type \in Types /\ s.tm.ts \in Results /\ s.tm.status # "IDLE"
  BY Fields DEF Live
<1>3. CASE r.tm.status = Done(x)
  <2>1. \A y \in Sides : r.tm.status # Err(y)
    BY <1>1, <1>3, StatusFacts
  <2>2. ASSUME NEW y \in Sides, r.tm.status = Done(y) PROVE y = x
    BY <1>1, <1>3, <2>2, StatusFacts
  <2>3. r.tm.status \notin Awaiting \cup {"TRANSFERRING"} /\ r.tm.status # "IDLE"
    BY <1>3, StatusFacts
  <2>4. r.tm.ts = s.tm.ts /\ s.tm.status \in {"TRANSFERRING", "AWAITING_ACTIVE"}
    BY <1>3, <2>3
  <2>6. s.rep[Other(x)] = "none"
    BY <1>1, <2>4 DEF ReportsGood, Awaiting
  <2>5. r.tm.status \in {Done("dst"), Err("dst")} => ~r.tm.mark
    BY <2>1, <2>2 DEF Sides
  <2> QED
    BY <1>2, <2>1, <2>2, <2>3, <2>4, <2>5, <2>6 DEF ReportsGood, SameTransfer
<1>4. CASE r.tm.status = "IDLE"
  <2>1. \A y \in Sides : r.tm.status # Done(y) /\ r.tm.status # Err(y)
    BY <1>4, StatusFacts
  <2>2. "dst" \in Sides /\ "IDLE" \notin Awaiting \cup {"TRANSFERRING"}
    BY DEF Sides, Awaiting
  <2>3. s.tm.ts \in {"none", "aborted", "inprogress"} /\ (s.tm.type = "LIST" => s.tm.ts = "none")
    BY <1>2 DEF ReportsGood
  <2>8. s.tm.status \in {Done(Other(x)), Err(Other(x))}
    BY <2>1
  <2>7. ~r.tm.mark
    <3>1. CASE x = "dst"
      BY <3>1
    <3>2. CASE x # "dst"
      <4>1. Other(x) = "dst"
        BY <1>1, <3>2 DEF Sides
      <4>2. ~s.tm.mark /\ s.tm.mark \in BOOLEAN
        BY <2>8, <4>1, Fields DEF ReportsGood
      <4> QED
        BY <4>2
    <3> QED
      BY <3>1, <3>2
  <2>9. CASE s.tm.status = Done(Other(x))
    <3>1. s.tm.status # Err(Other(x)) /\ s.rep[Other(x)] = "ok"
      BY <1>1, <2>9, StatusFacts DEF ReportsGood
    <3>2. r.tm.ts = IF s.tm.ts = "none" THEN "none" ELSE "successful"
      BY <2>1, <3>1
    <3>3. \A y \in Sides : r.rep[y] = "ok"
      BY <1>1, <3>1
    <3>4. r.tm.ts \in {"none", "successful"} /\ (s.tm.type = "LIST" => r.tm.ts = "none")
      BY <2>3, <3>2
    <3> QED
      BY <1>4, <2>1, <2>2, <2>7, <3>3, <3>4 DEF ReportsGood, SameTransfer
  <2>10. CASE s.tm.status = Err(Other(x))
    <3>1. s.tm.status # Done(Other(x)) /\ s.rep[Other(x)] = "err"
      BY <1>1, <2>10, StatusFacts DEF ReportsGood
    <3>2. r.tm.ts \in {"none", "aborted", "dupe", "timeout", "failed"} /\ (s.tm.type = "LIST" => r.tm.ts = "none")
      BY <2>1, <2>3, <3>1
    <3>3. ~ \A y \in Sides : r.rep[y] = "ok"
      BY <1>1, <3>1
    <3> QED
      BY <1>4, <2>1, <2>2, <2>7, <3>2, <3>3 DEF ReportsGood, SameTransfer
  <2> QED
    BY <2>8, <2>9, <2>10
<1> QED
  BY <1>3, <1>4

LEMMA CompleteReportGood ==
  ASSUME NEW s, NEW x \in Sides, GoodBut(s, {x}), Live(s, x),
         \/ s.tm.status \in {"TRANSFERRING", Done(Other(x)), Err(Other(x))}
         \/ s.tm.status = "AWAITING_ACTIVE" /\ x = "dst" /\ ~IsSite(s, x) /\ s.conn["src"].cmd = "xfer"
  PROVE  LET r == sideComplete(s, x)
         IN /\ GoodBut(r, IF IsSite(s, x) THEN {x} ELSE {})
            /\ r.tm.status \in {"IDLE", Done(x)} /\ SameTransfer(s, r) /\ r.conn = s.conn
            /\ s.tm.status = Done(Other(x)) => r.tm.status = "IDLE"
<1> DEFINE o == Other(x)
           Y == IF IsSite(s, x) THEN {x} ELSE {}
           p == Report(s, x, "ok")
           st == s.tm.status
<1>1. o \in Sides /\ o # x /\ Other(o) = x /\ Sides = {x, o} /\ Y \in SUBSET Sides
  BY SideFacts
<1>2. s \in TransferStates /\ ReportsGood(s) /\ ~s.tm.asserted /\ (s.tm.type = "UPLOAD" => s.tm.pasv = "dst")
      /\ s.tm.error \in Errors /\ s.tm.mark \in BOOLEAN
  BY Fields DEF GoodBut
<1>20. "ok" \in {"ok", "err"}
  OBVIOUS
<1>3. /\ p \in TransferStates /\ p.conn = s.conn /\ p.lt = s.lt /\ SameTransfer(s, p)
      /\ p.tm.status = st /\ p.tm.ts = s.tm.ts /\ p.tm.error = s.tm.error
      /\ p.tm.mark = IF x = "dst" THEN FALSE ELSE s.tm.mark
      /\ p.rep[x] = "ok" /\ p.rep[o] = s.rep[o]
  BY <1>2, <1>20, ReportShape
<1>4. /\ ~IsSite(s, x) <=> HasLocal(s) /\ x = Local(s)
      /\ ~IsSite(s, o) <=> HasLocal(s) /\ o = Local(s)
      /\ Local(s) \in Sides
  BY <1>1, <1>2, LocalFacts
<1>5. HasLocal(s) => Local(s) \notin Y
  BY <1>1, <1>4
<1>6. ~IsSite(s, x) => Resting(s.conn[x])
  BY DEF GoodBut, ConnGood
<1>7. /\ Done(o) \notin Awaiting \cup {"TRANSFERRING"} /\ Err(o) \notin Awaiting \cup {"TRANSFERRING"}
      /\ Done(o) # Err(o)
  BY <1>1, StatusFacts, <1>2
<1>8. IsSite(s, x) => x \in Y
  OBVIOUS
<1>9. \/ st \in {"TRANSFERRING", Done(o), Err(o)}
      \/ st = "AWAITING_ACTIVE" /\ x = "dst" /\ ~IsSite(s, x) /\ s.conn[o].cmd = "xfer"
  BY DEF Other
<1>19. "TRANSFERRING" \notin Awaiting /\ "AWAITING_ACTIVE" \in Awaiting /\ "TRANSFERRING" # "AWAITING_ACTIVE"
  BY DEF Awaiting
<1> HIDE DEF o, Y, p, st
<1>10. CASE st = Done(o)
  <2> DEFINE r == finish(p)
  <2>1. sideComplete(s, x) = r
    BY <1>7, <1>10, <1>19 DEF sideComplete, o, p, st
  <2>2. /\ r \in TransferStates /\ r.conn = p.conn /\ r.rep = p.rep /\ r.lt = "none"
        /\ r.tm.status = "IDLE" /\ SameTransfer(p, r) /\ r.tm.mark = p.tm.mark
        /\ r.tm.ts = IF s.tm.ts = "none" THEN "none" ELSE "successful"
    <3>1. p \in TransferStates /\ p.tm.ts = s.tm.ts
      BY <1>3
    <3>2. /\ r \in TransferStates /\ r.conn = p.conn /\ r.rep = p.rep /\ r.lt = "none"
          /\ r.tm.status = "IDLE" /\ SameTransfer(p, r) /\ r.tm.mark = p.tm.mark
          /\ r.tm.ts = IF p.tm.ts = "none" THEN "none" ELSE "successful"
      BY <3>1, FinishShape
    <3> QED
      BY <3>1, <3>2
  <2> HIDE DEF r
  <2>3. SameTransfer(s, r)
    BY <1>3, <2>2 DEF SameTransfer
  <2>4. ReportsGood(r)
    BY <1>2, <1>3, <1>10, <2>2, <2>3, CompleteReports DEF o, st
  <2>5. ~Live(s, o)
    BY <1>10 DEF Live, st
  <2>6. Resting(s.conn[o])
    BY <1>1, <2>5 DEF GoodBut, ConnGood
  <2>7. \A y \in Sides : y \notin Y \/ ~IsSite(s, y) => Resting(r.conn[y])
    BY <1>1, <1>3, <1>6, <1>8, <2>2, <2>6
  <2>8. GoodBut(r, Y)
    BY <1>1, <1>2, <1>5, <2>2, <2>3, <2>4, <2>7, Ended
  <2> QED
    BY <1>3, <2>1, <2>2, <2>3, <2>8 DEF r, Y
<1>11. CASE st = Err(o)
  <2> DEFINE r == transferFailed(p, s.tm.error)
  <2>1. sideComplete(s, x) = r
    BY <1>7, <1>11, <1>19 DEF sideComplete, o, p, st
  <2>2. /\ r \in TransferStates /\ r.conn = p.conn /\ r.rep = p.rep /\ r.lt = "none"
        /\ r.tm.status = "IDLE" /\ SameTransfer(p, r) /\ r.tm.mark = p.tm.mark
        /\ s.tm.ts \in {"none", "aborted"} => r.tm.ts = s.tm.ts
        /\ s.tm.ts \notin {"none", "aborted"} => r.tm.ts \in {"dupe", "timeout", "failed"}
    BY <1>3, FailedShape
  <2> HIDE DEF r
  <2>3. SameTransfer(s, r)
    BY <1>3, <2>2 DEF SameTransfer
  <2>4. ReportsGood(r)
    BY <1>2, <1>3, <1>11, <2>2, <2>3, CompleteReports DEF o, st
  <2>5. ~Live(s, o)
    BY <1>11 DEF Live, st
  <2>6. Resting(s.conn[o])
    BY <1>1, <2>5 DEF GoodBut, ConnGood
  <2>7. \A y \in Sides : y \notin Y \/ ~IsSite(s, y) => Resting(r.conn[y])
    BY <1>1, <1>3, <1>6, <1>8, <2>2, <2>6
  <2>8. GoodBut(r, Y)
    BY <1>1, <1>2, <1>5, <2>2, <2>3, <2>4, <2>7, Ended
  <2> QED
    BY <1>3, <1>7, <1>11, <2>1, <2>2, <2>3, <2>8 DEF r, Y, o, st
<1>12. CASE st \in {"TRANSFERRING", "AWAITING_ACTIVE"}
  <2> DEFINE r == [p EXCEPT !.tm.status = Done(x)]
  <2>1. sideComplete(s, x) = r
    BY <1>9, <1>12, <1>19, <1>7 DEF sideComplete, o, p, st
  <2>2. Done(x) \in Statuses
    BY <1>2, StatusFacts
  <2>3. /\ r \in TransferStates /\ r.conn = p.conn /\ r.lt = p.lt /\ r.rep = p.rep /\ SameTransfer(p, r)
        /\ r.tm.status = Done(x) /\ r.tm.ts = p.tm.ts /\ r.tm.mark = p.tm.mark
    <3>1. p \in TransferStates /\ Done(x) \in Statuses
      BY <1>3, <2>2
    <3> QED
      BY <3>1 DEF TransferStates, TmRec, SameTransfer
  <2> HIDE DEF r
  <2>4. SameTransfer(s, r)
    BY <1>3, <2>3 DEF SameTransfer
  <2>5. ReportsGood(r)
    BY <1>2, <1>3, <1>12, <2>3, <2>4, CompleteReports DEF o, st
  <2>6. /\ \A y : IsSite(r, y) <=> IsSite(s, y)
        /\ HasLocal(r) <=> HasLocal(s)
        /\ Local(r) = Local(s)
    BY <2>4, SameKind DEF SameTransfer
  <2>7. /\ ~Live(r, x) /\ Live(r, o) /\ Live(s, o) /\ Done(x) # "AWAITING_ACTIVE" /\ Done(x) # "AWAITING_PASSIVE" /\ Done(x) # "IDLE"
        /\ Done(x) # Err(x) /\ Done(x) # Err(o) /\ Done(x) # "TRANSFERRING" /\ Done(x) = Done(Other(o))
    BY <1>1, <1>12, <2>3 DEF Live, Done, Err, Sides, st
  <2>8. o \notin Y \/ ~IsSite(s, o) => ConnGood(r, o)
    <3>1. ConnGood(s, o)
      BY <1>1 DEF GoodBut
    <3>2. CASE ~IsSite(s, o)
      BY <1>3, <2>3, <2>6, <3>1, <3>2 DEF ConnGood
    <3>3. CASE IsSite(s, o)
      <4>1. TakesPart(s.conn[o], st, s.tm.pasv = o, o)
        BY <2>7, <3>1, <3>3 DEF ConnGood, st
      <4>2. s.conn[o].hold = "init" /\ (s.conn[o].cmd = "data" \/ (s.conn[o].cmd = "xfer" /\ (s.tm.pasv = o \/ o = "src")))
        <5>1. CASE st = "TRANSFERRING"
          BY <4>1, <5>1 DEF TakesPart
        <5>2. CASE st = "AWAITING_ACTIVE"
          <6>1. o = "src" /\ s.conn[o].cmd = "xfer"
            BY <1>7, <1>9, <1>19, <5>2 DEF o, Other
          <6>2. ~Busy(s.conn[o], FALSE)
            BY <6>1 DEF Busy, Early
          <6> QED
            BY <4>1, <5>2, <6>1, <6>2 DEF TakesPart
        <5> QED
          BY <1>12, <5>1, <5>2
      <4>3. s.conn[o].link = "up"
        BY <4>1 DEF TakesPart
      <4>4. TakesPart(s.conn[o], Done(x), s.tm.pasv = o, o)
        BY <2>7, <1>1, <4>2, <4>3 DEF TakesPart
      <4> QED
        BY <1>3, <2>3, <2>4, <2>6, <2>7, <3>3, <4>4 DEF ConnGood, SameTransfer
    <3> QED
      BY <3>2, <3>3
  <2>9. \A y \in Sides : y \notin Y \/ ~IsSite(r, y) => ConnGood(r, y)
    <3>1. ~IsSite(s, x) => ConnGood(r, x)
      BY <1>3, <1>6, <2>3, <2>7 DEF ConnGood
    <3> QED
      BY <1>1, <1>8, <2>6, <2>8, <3>1
  <2>10. IF ~HasLocal(r) THEN r.lt = "none" ELSE SocketGood(r)
    <3>1. CASE ~HasLocal(s)
      BY <1>3, <2>3, <2>6, <3>1 DEF GoodBut
    <3>2. CASE HasLocal(s) /\ x = Local(s)
      <4>1. s.lt = "closed"
        BY <3>2 DEF GoodBut
      <4> QED
        BY <1>3, <2>3, <2>6, <3>2, <4>1, SocketClosed
    <3>3. CASE HasLocal(s) /\ o = Local(s)
      <4>1. IsSite(s, x) /\ Local(s) \notin {x}
        BY <1>1, <1>4, <3>3
      <4>5. st = "TRANSFERRING"
        BY <1>7, <1>9, <1>12, <1>19, <4>1
      <4>2. SocketGood(s) /\ st = "TRANSFERRING"
        BY <3>3, <4>1, <4>5 DEF GoodBut
      <4>3. s.lt # "closed" /\ s.lt # "none"
        BY <2>7, <3>3, <4>2 DEF SocketGood, Live, st
      <4>4. s.lt # "reserved" /\ s.lt # "connecting" /\ (s.lt = "listening" => s.tm.pasv = o)
        BY <1>1, <3>3, <4>2, <4>3, <1>19, <1>2, StatusFacts DEF SocketGood, st, Live
      <4> QED
        BY <1>1, <1>3, <2>3, <2>4, <2>6, <2>7, <3>3, <4>3, <4>4 DEF SocketGood, SameTransfer
    <3> QED
      BY <1>1, <1>4, <3>1, <3>2, <3>3
  <2>11. GoodBut(r, Y)
    BY <1>2, <1>5, <2>3, <2>4, <2>5, <2>6, <2>7, <2>9, <2>10 DEF GoodBut, SameTransfer
  <2> QED
    BY <1>3, <1>7, <1>12, <1>19, <2>1, <2>3, <2>4, <2>7, <2>11 DEF r, Y, o, st
<1> QED
  BY <1>9, <1>10, <1>11, <1>12

\* Closing the data socket ends the part of this host.
LEMMA SocketCloses ==
  ASSUME NEW s, NEW X \in SUBSET Sides, GoodBut(s, X), HasLocal(s)
  PROVE  LET r == [s EXCEPT !.lt = "closed"]
         IN GoodBut(r, X \cup {Local(s)}) /\ r.tm = s.tm /\ r.conn = s.conn /\ r.rep = s.rep
<1> DEFINE r == [s EXCEPT !.lt = "closed"]
<1>1. s \in TransferStates
  BY DEF GoodBut
<1>2. r \in TransferStates /\ r.tm = s.tm /\ r.conn = s.conn /\ r.rep = s.rep /\ r.lt = "closed"
  BY <1>1 DEF TransferStates, LtStates
<1> HIDE DEF r
<1>3. /\ \A y : IsSite(r, y) <=> IsSite(s, y)
      /\ HasLocal(r) <=> HasLocal(s)
      /\ Local(r) = Local(s)
  BY <1>2, SameKind
<1>4. \A y \in Sides : y \notin X \cup {Local(s)} \/ ~IsSite(r, y) => ConnGood(r, y)
  <2>1. SUFFICES ASSUME NEW y \in Sides, y \notin X \/ ~IsSite(s, y) PROVE ConnGood(r, y)
    BY <1>3
  <2>2. ConnGood(s, y)
    BY <2>1 DEF GoodBut
  <2> QED
    BY <1>2, <1>3, <2>2 DEF ConnGood, Live
<1>5. ReportsGood(s)
  BY DEF GoodBut
<1>6. ReportsGood(r)
  BY <1>2, <1>5 DEF ReportsGood
<1>7. ~r.tm.asserted /\ (r.tm.type = "UPLOAD" => r.tm.pasv = "dst")
  BY <1>2 DEF GoodBut
<1>8. GoodBut(r, X \cup {Local(s)})
  BY <1>2, <1>3, <1>4, <1>6, <1>7 DEF GoodBut
<1> QED
  BY <1>2, <1>8 DEF r

LEMMA CloseLocalGood ==
  ASSUME NEW s, NEW X \in SUBSET Sides, GoodBut(s, X), \A y \in X : IsSite(s, y)
  PROVE  LET r == CloseLocal(s)
         IN /\ GoodBut(r, X) /\ SameTransfer(s, r)
            /\ \A y \in Sides : ~Live(s, y) => ~Live(r, y) /\ r.conn[y] = s.conn[y]
<1> DEFINE l == Local(s)
           q == [s EXCEPT !.lt = "closed"]
<1>1. s \in TransferStates
  BY DEF GoodBut
<1>6. l \in Sides
  BY DEF Local, Sides
<1>2. l \in Sides /\ (~IsSite(s, l) <=> HasLocal(s))
  BY <1>1, <1>6, LocalFacts
<1>3. SameTransfer(s, s)
  BY DEF SameTransfer
<1>4. CASE CloseLocal(s) = s
  BY <1>3, <1>4
<1>5. CASE CloseLocal(s) # s
  <2>1. /\ Live(s, l) /\ s.lt \in {"listening", "connecting", "open"}
        /\ CloseLocal(s) = ErrorReport(q, l, "OTHER")
    BY <1>5 DEF CloseLocal, Live, Local
  <2>2. HasLocal(s)
    BY <2>1 DEF GoodBut
  <2>3. l \notin X /\ (X \cup {l}) \ {l} = X /\ X \cup {l} \in SUBSET Sides
    BY <1>2, <2>2
  <2>4. GoodBut(q, X \cup {l}) /\ q.tm = s.tm /\ q.conn = s.conn
    BY <2>2, SocketCloses
  <2> HIDE DEF q, l
  <2>5. Live(q, l) /\ ~IsSite(q, l)
    BY <1>2, <2>1, <2>2, <2>4, SameKind DEF Live
  <2> DEFINE r == ErrorReport(q, l, "OTHER")
  <2>6. "OTHER" \in Errors
    BY DEF Errors
  <2>7. /\ GoodBut(r, X)
        /\ r.tm.status \in {"IDLE", Err(l)} /\ SameTransfer(q, r) /\ r.conn[l] = q.conn[l]
        /\ ~Live(q, Other(l)) => r.conn[Other(l)] = q.conn[Other(l)] /\ r.tm.status = "IDLE"
    <3> DEFINE Z == X \cup {l}
    <3>1. Z \in SUBSET Sides /\ l \in Z /\ Z \ {l} = X /\ GoodBut(q, Z)
      BY <2>3, <2>4
    <3> HIDE DEF Z
    <3>2. /\ GoodBut(r, IF IsSite(q, l) THEN Z ELSE Z \ {l})
          /\ r.tm.status \in {"IDLE", Err(l)} /\ SameTransfer(q, r) /\ r.conn[l] = q.conn[l]
          /\ ~Live(q, Other(l)) => r.conn[Other(l)] = q.conn[Other(l)] /\ r.tm.status = "IDLE"
      <4>1. l \in Sides /\ Live(q, l) /\ (IsSite(q, l) => Z = {l}) /\ "OTHER" \in Errors
        BY <1>2, <2>5, <2>6
      <4> HIDE DEF r
      <4>2. r = ErrorReport(q, l, "OTHER")
        BY DEF r
      <4> QED
        BY <3>1, <4>1, <4>2, ErrorReportGood
    <3> QED
      BY <2>5, <3>1, <3>2
  <2> HIDE DEF r
  <2>8. ASSUME NEW y \in Sides, ~Live(s, y) PROVE ~Live(r, y) /\ r.conn[y] = s.conn[y]
    <3>1. y = Other(l)
      BY <1>2, <2>1, <2>8, SideFacts
    <3>2. ~Live(q, Other(l))
      BY <2>4, <2>8, <3>1 DEF Live
    <3> QED
      BY <2>4, <2>7, <3>1, <3>2 DEF Live
  <2>9. SameTransfer(s, r)
    BY <2>4, <2>7 DEF SameTransfer
  <2> QED
    BY <2>1, <2>7, <2>8, <2>9 DEF r
<1> QED
  BY <1>4, <1>5

LEMMA SideErrorGood ==
  ASSUME NEW s, NEW x \in Sides, NEW e \in Errors, GoodBut(s, {x}), Live(s, x)
  PROVE  LET r == sideError(s, x, e)
         IN /\ GoodBut(r, IF IsSite(s, x) THEN {x} ELSE {}) /\ SameTransfer(s, r)
            /\ ~Live(r, x) /\ r.conn[x] = s.conn[x]
<1> DEFINE q == ErrorReport(s, x, e)
           Y == IF IsSite(s, x) THEN {x} ELSE {}
           r == sideError(s, x, e)
<1>1. /\ GoodBut(q, Y) /\ q.tm.status \in {"IDLE", Err(x)} /\ SameTransfer(s, q) /\ q.conn[x] = s.conn[x]
  <2> DEFINE Z == {x}
  <2>1. Z \in SUBSET Sides /\ x \in Z /\ GoodBut(s, Z) /\ (IsSite(s, x) => Z = {x})
        /\ (IF IsSite(s, x) THEN Z ELSE Z \ {x}) = Y
    OBVIOUS
  <2> HIDE DEF Z, Y
  <2>2. /\ GoodBut(q, IF IsSite(s, x) THEN Z ELSE Z \ {x})
        /\ q.tm.status \in {"IDLE", Err(x)} /\ SameTransfer(s, q) /\ q.conn[x] = s.conn[x]
    BY <2>1, ErrorReportGood
  <2> QED
    BY <2>1, <2>2
<1>2. r = q \/ r = CloseLocal(q)
  BY DEF sideError
<1>3. Y \in SUBSET Sides /\ \A y \in Y : IsSite(q, y)
  BY <1>1, SameKind DEF SameTransfer
<1>4. ~Live(q, x)
  BY <1>1 DEF Live
<1> HIDE DEF q, Y, r
<1>5. CASE r = q
  BY <1>1, <1>4, <1>5 DEF r, Y
<1>6. CASE r = CloseLocal(q)
  <2>1. /\ GoodBut(r, Y) /\ SameTransfer(q, r)
        /\ \A y \in Sides : ~Live(q, y) => ~Live(r, y) /\ r.conn[y] = q.conn[y]
    BY <1>1, <1>3, <1>6, CloseLocalGood
  <2>2. SameTransfer(s, r)
    BY <1>1, <2>1 DEF SameTransfer
  <2> QED
    BY <1>1, <1>4, <2>1, <2>2 DEF r, Y
<1> QED
  BY <1>2, <1>5, <1>6

(***************************************************************************)
(* A connection leaves and comes back.                                     *)
(***************************************************************************)
LEMMA Leave ==
  ASSUME NEW s, NEW r, NEW x \in Sides, NEW X \in {{}, {x}}, GoodBut(s, X), IsSite(s, x),
         ConnChanged(s, r, x)
  PROVE  GoodBut(r, {x})
<1>1. Other(x) \in Sides /\ Other(x) # x /\ Other(Other(x)) = x /\ Sides = {x, Other(x)}
  BY SideFacts
<1>2. r \in TransferStates /\ r.tm = s.tm /\ r.lt = s.lt /\ r.rep = s.rep /\ r.conn[Other(x)] = s.conn[Other(x)]
  BY DEF ConnChanged
<1>3. /\ \A y : IsSite(r, y) <=> IsSite(s, y)
      /\ HasLocal(r) <=> HasLocal(s)
      /\ Local(r) = Local(s)
  BY <1>2, SameKind
<1>4. s \in TransferStates /\ ReportsGood(s) /\ ~s.tm.asserted /\ (s.tm.type = "UPLOAD" => s.tm.pasv = "dst")
  BY DEF GoodBut
<1>5. ReportsGood(r)
  BY <1>2, <1>4 DEF ReportsGood
<1>6. ConnGood(s, Other(x))
  BY <1>1 DEF GoodBut
<1>7. ConnGood(r, Other(x))
  BY <1>2, <1>3, <1>6 DEF ConnGood, Live
<1>8. \A y \in Sides : y \notin {x} \/ ~IsSite(r, y) => ConnGood(r, y)
  BY <1>1, <1>3, <1>7
<1>9. HasLocal(s) => Local(s) = Other(x) /\ Local(s) # x /\ Other(Local(s)) = x
  BY <1>1, <1>4, LocalFacts
<1>10. HasLocal(s) => SocketGood(s)
  BY <1>9 DEF GoodBut
<1>11. HasLocal(r) => SocketGood(r)
  BY <1>2, <1>3, <1>10 DEF SocketGood, Live
<1>12. ~HasLocal(r) => r.lt = "none"
  BY <1>2, <1>3 DEF GoodBut
<1> QED
  BY <1>1, <1>2, <1>3, <1>4, <1>5, <1>8, <1>9, <1>11, <1>12 DEF GoodBut

LEMMA Rejoin ==
  ASSUME NEW s, NEW r, NEW x \in Sides, NEW X \in {{}, {x}}, GoodBut(s, X), IsSite(s, x) \/ X = {},
         ConnChanged(s, r, x), ConnGood(r, x),
         HasLocal(s) /\ s.lt = "open" /\ s.tm.status = "AWAITING_ACTIVE" /\ x # Local(s) => r.conn[x].cmd = "xfer"
  PROVE  GoodBut(r, {})
<1>1. Other(x) \in Sides /\ Other(x) # x /\ Other(Other(x)) = x /\ Sides = {x, Other(x)}
  BY SideFacts
<1>2. r \in TransferStates /\ r.tm = s.tm /\ r.lt = s.lt /\ r.rep = s.rep /\ r.conn[Other(x)] = s.conn[Other(x)]
  BY DEF ConnChanged
<1>3. /\ \A y : IsSite(r, y) <=> IsSite(s, y)
      /\ HasLocal(r) <=> HasLocal(s)
      /\ Local(r) = Local(s)
  BY <1>2, SameKind
<1>4. s \in TransferStates /\ ReportsGood(s) /\ ~s.tm.asserted /\ (s.tm.type = "UPLOAD" => s.tm.pasv = "dst")
  BY DEF GoodBut
<1>5. ReportsGood(r)
  BY <1>2, <1>4 DEF ReportsGood
<1>6. ConnGood(s, Other(x))
  BY <1>1 DEF GoodBut
<1>7. ConnGood(r, Other(x))
  BY <1>2, <1>3, <1>6 DEF ConnGood, Live
<1>8. \A y \in Sides : ConnGood(r, y)
  BY <1>1, <1>7
<1>9. HasLocal(s) => Local(s) \in Sides /\ ~IsSite(s, Local(s))
  BY <1>4, LocalFacts
<1>13. HasLocal(s) => Local(s) \notin X
  BY <1>9
<1>10. HasLocal(s) => SocketGood(s)
  BY <1>13 DEF GoodBut
<1>11. HasLocal(r) => SocketGood(r)
  BY <1>2, <1>3, <1>10 DEF SocketGood, Live
<1>12. ~HasLocal(r) => r.lt = "none"
  BY <1>2, <1>3 DEF GoodBut
<1>14. HasLocal(r) /\ r.lt = "open" /\ r.tm.status = "AWAITING_ACTIVE" => r.conn[Other(Local(r))].cmd = "xfer"
  <2>1. CASE x = Local(s)
    <3>1. SUFFICES ASSUME HasLocal(s), s.lt = "open", s.tm.status = "AWAITING_ACTIVE"
                   PROVE  s.conn[Other(x)].cmd = "xfer"
      BY <1>2, <1>3, <2>1
    <3>2. Other(x) \notin X
      BY <1>1
    <3> QED
      BY <2>1, <3>1, <3>2 DEF GoodBut
  <2>2. CASE x # Local(s)
    <3>1. HasLocal(s) => Other(Local(s)) = x
      BY <1>1, <1>9, <2>2
    <3> QED
      BY <1>2, <1>3, <2>2, <3>1
  <2> QED
    BY <2>1, <2>2
<1> QED
  BY <1>2, <1>4, <1>5, <1>8, <1>11, <1>12, <1>14 DEF GoodBut

\* A connection whose side takes no part is left alone.
LEMMA Freed ==
  ASSUME NEW s, NEW r, NEW x \in Sides, NEW X \in {{}, {x}}, GoodBut(s, X), IsSite(s, x) \/ X = {},
         ~IsSite(s, x) \/ ~Live(s, x), ConnChanged(s, r, x), Resting(r.conn[x])
  PROVE  GoodBut(r, {})
<1>1. r.tm = s.tm /\ s \in TransferStates
  BY DEF ConnChanged, GoodBut
<1>2. ConnGood(r, x)
  BY <1>1, SameKind DEF ConnGood, Live
<1>3. ~(HasLocal(s) /\ s.tm.status = "AWAITING_ACTIVE" /\ x # Local(s))
  <2>1. s.tm.status = "AWAITING_ACTIVE" => Live(s, x)
    BY <1>1, StatusFacts DEF Live, Awaiting
  <2> QED
    BY <1>1, <2>1, LocalFacts
<1> QED
  BY <1>2, <1>3, Rejoin

LEMMA Holder ==
  ASSUME NEW s, NEW x \in Sides, GoodBut(s, {})
  PROVE  /\ IsSite(s, x) /\ Live(s, x) =>
              /\ TakesPart(s.conn[x], s.tm.status, s.tm.pasv = x, x)
              /\ s.conn[x].hold \in {"locked", "set", "init"} /\ s.conn[x].link = "up"
         /\ ~(IsSite(s, x) /\ Live(s, x)) => Resting(s.conn[x])
         /\ s.conn[x].hold # "free" <=> IsSite(s, x) /\ Live(s, x)
<1>1. ConnGood(s, x) /\ s \in TransferStates
  BY DEF GoodBut
<1>2. CASE IsSite(s, x) /\ Live(s, x)
  <2>1. TakesPart(s.conn[x], s.tm.status, s.tm.pasv = x, x)
    BY <1>1, <1>2 DEF ConnGood
  <2>2. s.tm.status \in {"TRANSFERRING", "AWAITING_ACTIVE", "AWAITING_PASSIVE", Done(Other(x)), Err(Other(x))}
    BY <1>1, <1>2, StatusFacts DEF Live, Awaiting
  <2>3. \A p \in BOOLEAN : Busy(s.conn[x], p) => s.conn[x].hold \in {"set", "init"}
    BY DEF Busy
  <2>4. s.conn[x].hold \in {"locked", "set", "init"} /\ s.conn[x].link = "up"
    <3>1. CASE s.tm.status = "TRANSFERRING"
      BY <2>1, <2>3, <3>1 DEF TakesPart
    <3>2. CASE s.tm.status = "AWAITING_ACTIVE"
      BY <2>1, <2>3, <3>2 DEF TakesPart
    <3>3. CASE s.tm.status = "AWAITING_PASSIVE"
      BY <2>1, <2>3, <3>3 DEF TakesPart
    <3>4. CASE s.tm.status = Done(Other(x))
      BY <2>1, <2>3, <3>4 DEF TakesPart
    <3>5. CASE s.tm.status = Err(Other(x))
      BY <2>1, <2>3, <3>5 DEF TakesPart
    <3> QED
      BY <2>2, <3>1, <3>2, <3>3, <3>4, <3>5
  <2> QED
    BY <1>2, <2>1, <2>4
<1>3. CASE ~(IsSite(s, x) /\ Live(s, x))
  BY <1>1, <1>3 DEF ConnGood, Resting
<1> QED
  BY <1>2, <1>3

(***************************************************************************)
(* Connections that are closed, cut or given back.                         *)
(***************************************************************************)
\* Side x's connection is exempt only if it is a site's, and is held exactly as
\* long as its part is under way.
Exempt(s, x, X) ==
  /\ X \in {{}, {x}} /\ GoodBut(s, X) /\ (IsSite(s, x) \/ X = {})
  /\ s.conn[x].hold # "free" <=> IsSite(s, x) /\ Live(s, x)

LEMMA CleanupGood ==
  ASSUME NEW s, NEW x \in Sides, NEW X, Exempt(s, x, X)
  PROVE  LET q == IF s.conn[x].hold = "free" THEN s ELSE Free(sideError(s, x, "CLEANUP"), x)
         IN \E Y \in {{}, {x}} :
              Exempt(q, x, Y) /\ q.conn[x].hold = "free" /\ SameTransfer(s, q)
<1>1. CASE s.conn[x].hold = "free"
  <2>1. SameTransfer(s, s)
    BY DEF SameTransfer
  <2>2. X \in {{}, {x}}
    BY DEF Exempt
  <2> QED
    BY <1>1, <2>1, <2>2
<1>2. CASE s.conn[x].hold # "free"
  <2> DEFINE u == sideError(s, x, "CLEANUP")
             q == Free(u, x)
  <2>1. IsSite(s, x) /\ Live(s, x) /\ X \in {{}, {x}} /\ GoodBut(s, X) /\ s \in TransferStates
    BY <1>2 DEF Exempt, GoodBut
  <2>2. ConnChanged(s, s, x)
    BY <2>1 DEF ConnChanged
  <2>3. GoodBut(s, {x})
    BY <2>1, <2>2, Leave
  <2>4. "CLEANUP" \in Errors
    BY DEF Errors
  <2>5. GoodBut(u, {x}) /\ SameTransfer(s, u) /\ ~Live(u, x)
    BY <2>1, <2>3, <2>4, SideErrorGood
  <2> HIDE DEF u
  <2>6. IsSite(u, x) /\ u \in TransferStates
    BY <2>1, <2>5, SameKind DEF SameTransfer, GoodBut
  <2>7. ConnChanged(u, q, x) /\ q.conn[x].hold = "free"
    BY <2>6, FreeShape
  <2> HIDE DEF q
  <2>8. GoodBut(q, {x})
    BY <2>5, <2>6, <2>7, Leave
  <2>9. q.tm = u.tm
    BY <2>7 DEF ConnChanged
  <2>10. ~Live(q, x) /\ IsSite(q, x) /\ SameTransfer(s, q)
    BY <2>5, <2>6, <2>9, SameKind DEF Live, SameTransfer
  <2>11. Exempt(q, x, {x}) /\ {x} \in {{}, {x}}
    BY <2>7, <2>8, <2>10 DEF Exempt
  <2> QED
    BY <1>2, <2>7, <2>10, <2>11 DEF q, u
<1> QED
  BY <1>1, <1>2

\* A free connection may go down at any time.
LEMMA HangUp ==
  ASSUME NEW s, NEW x \in Sides, NEW X, Exempt(s, x, X), s.conn[x].hold = "free", NEW l \in Links
  PROVE  LET r == Hung(s, x, l)
         IN GoodBut(r, {}) /\ r.tm = s.tm
<1> DEFINE r == Hung(s, x, l)
<1>1. s \in TransferStates /\ X \in {{}, {x}} /\ GoodBut(s, X) /\ (IsSite(s, x) \/ X = {})
      /\ (~IsSite(s, x) \/ ~Live(s, x))
  BY DEF Exempt, GoodBut
<1>2. ConnChanged(s, r, x) /\ r.conn[x].hold = s.conn[x].hold /\ r.conn[x].cmd = "none"
  BY <1>1, HangShape
<1> HIDE DEF r
<1>3. Resting(r.conn[x]) /\ r.tm = s.tm
  BY <1>2 DEF Resting, ConnChanged
<1>4. GoodBut(r, {})
  BY <1>1, <1>2, <1>3, Freed
<1> QED
  BY <1>3, <1>4 DEF r

LEMMA DisconnectGood ==
  ASSUME NEW s, NEW x \in Sides, NEW X, Exempt(s, x, X)
  PROVE  LET r == disconnectConn(s, x) IN GoodBut(r, {}) /\ SameTransfer(s, r)
<1> DEFINE q == IF s.conn[x].hold = "free" THEN s ELSE Free(sideError(s, x, "CLEANUP"), x)
           l == IF q.conn[x].link = "up" /\ ~Processing(q.conn[x]) THEN "quit" ELSE "login"
           r == Hung(q, x, l)
<1>1. disconnectConn(s, x) = r
  BY DEF disconnectConn, Hung
<1>2. PICK Y \in {{}, {x}} : Exempt(q, x, Y) /\ q.conn[x].hold = "free" /\ SameTransfer(s, q)
  BY CleanupGood
<1>3. l \in Links
  BY DEF Links
<1> HIDE DEF q, l
<1>4. GoodBut(r, {}) /\ r.tm = q.tm
  BY <1>2, <1>3, HangUp
<1> HIDE DEF r
<1>5. SameTransfer(s, r)
  BY <1>2, <1>4 DEF SameTransfer
<1> QED
  BY <1>1, <1>4, <1>5

LEMMA CutGood ==
  ASSUME NEW s, NEW x \in Sides, NEW X, Exempt(s, x, X), NEW l \in Links
  PROVE  GoodBut(Cut(s, x, l), {})
<1> DEFINE q == IF s.conn[x].hold = "free" THEN s ELSE Free(sideError(s, x, "CLEANUP"), x)
           r == Hung(q, x, l)
<1>1. Cut(s, x, l) = r
  BY DEF Cut, Hung
<1>2. PICK Y \in {{}, {x}} : Exempt(q, x, Y) /\ q.conn[x].hold = "free" /\ SameTransfer(s, q)
  BY CleanupGood
<1> HIDE DEF q
<1>4. GoodBut(r, {}) /\ r.tm = q.tm
  BY <1>2, HangUp
<1> QED
  BY <1>1, <1>4

LEMMA NoneExempt ==
  ASSUME NEW s, NEW x \in Sides, GoodBut(s, {})
  PROVE  Exempt(s, x, {})
BY Holder DEF Exempt

LEMMA CloseSideGood ==
  ASSUME NEW s, NEW x \in Sides, GoodBut(s, {})
  PROVE  LET r == CloseSide(s, x) IN GoodBut(r, {}) /\ SameTransfer(s, r)
<1>1. SameTransfer(s, s)
  BY DEF SameTransfer
<1>2. CloseSide(s, x) = s \/ CloseSide(s, x) = disconnectConn(s, x)
  BY DEF CloseSide
<1>3. LET r == disconnectConn(s, x) IN GoodBut(r, {}) /\ SameTransfer(s, r)
  BY NoneExempt, DisconnectGood
<1> QED
  BY <1>1, <1>2, <1>3

LEMMA CloseRemainingGood ==
  ASSUME NEW s, GoodBut(s, {})
  PROVE  LET r == closeRemainingConnections(s) IN GoodBut(r, {}) /\ SameTransfer(s, r)
<1> DEFINE a == CloseSide(s, "dst")
           b == CloseSide(a, "src")
           c == CloseLocal(b)
<1>1. "dst" \in Sides /\ "src" \in Sides
  BY DEF Sides
<1>2. GoodBut(a, {}) /\ SameTransfer(s, a)
  BY <1>1, CloseSideGood
<1> HIDE DEF a
<1>3. GoodBut(b, {}) /\ SameTransfer(a, b)
  BY <1>1, <1>2, CloseSideGood
<1> HIDE DEF b
<1>4. GoodBut(c, {}) /\ SameTransfer(b, c)
  <2> DEFINE Z == {}
  <2>1. Z \in SUBSET Sides /\ GoodBut(b, Z) /\ \A y \in Z : IsSite(b, y)
    BY <1>3
  <2> HIDE DEF Z
  <2>2. GoodBut(c, Z) /\ SameTransfer(b, c)
    BY <2>1, CloseLocalGood
  <2> QED
    BY <2>2 DEF Z
<1> HIDE DEF c
<1>5. SameTransfer(s, c)
  BY <1>2, <1>3, <1>4 DEF SameTransfer
<1>6. closeRemainingConnections(s) = c
  BY DEF closeRemainingConnections, a, b, c
<1> QED
  BY <1>4, <1>5, <1>6

LEMMA FinishPrematurelyGood ==
  ASSUME NEW s, GoodBut(s, {}), s.tm.type = "FXP", s.tm.status = "TARGET_COMPLETE"
  PROVE  GoodBut(finishTransferGracefullyPrematurely(s), {})
<1> DEFINE x == "src"
           u == sideComplete(s, x)
           q == Free(u, x)
<1>1. x \in Sides /\ Other(x) = "dst" /\ Done(Other(x)) = "TARGET_COMPLETE" /\ Done(x) # "TARGET_COMPLETE"
      /\ Err(x) # "TARGET_COMPLETE"
  BY DEF Sides, Other, Done, Err
<1>2. IsSite(s, x) /\ Live(s, x) /\ s \in TransferStates
  BY <1>1 DEF IsSite, Live, GoodBut
<1>3. s.conn[x].hold = "init"
  <2>1. TakesPart(s.conn[x], s.tm.status, s.tm.pasv = x, x) /\ s.tm.status = Done(Other(x))
    BY <1>1, <1>2, Holder
  <2> HIDE DEF x
  <2> QED
    BY <2>1 DEF TakesPart
<1>4. finishTransferGracefullyPrematurely(s) = disconnectConn(q, x)
  BY <1>3 DEF finishTransferGracefullyPrematurely
<1> HIDE DEF x
<1>5. ConnChanged(s, s, x)
  BY <1>2 DEF ConnChanged
<1>6. GoodBut(s, {x})
  BY <1>1, <1>2, <1>5, Leave
<1>7. GoodBut(u, {x}) /\ SameTransfer(s, u) /\ u.tm.status = "IDLE"
  BY <1>1, <1>2, <1>6, CompleteReportGood
<1> HIDE DEF u
<1>8. IsSite(u, x) /\ u \in TransferStates
  BY <1>2, <1>7, SameKind DEF SameTransfer, GoodBut
<1>9. ConnChanged(u, q, x) /\ q.conn[x].hold = "free"
  BY <1>1, <1>8, FreeShape
<1> HIDE DEF q
<1>10. GoodBut(q, {x}) /\ q.tm = u.tm
  BY <1>1, <1>7, <1>8, <1>9, Leave DEF ConnChanged
<1>11. IsSite(q, x) /\ ~Live(q, x)
  BY <1>7, <1>8, <1>10, SameKind DEF Live
<1>12. Exempt(q, x, {x})
  BY <1>9, <1>10, <1>11 DEF Exempt
<1> QED
  BY <1>1, <1>4, <1>12, DisconnectGood

LEMMA HandleTransferFailGood ==
  ASSUME NEW s, NEW x \in Sides, NEW e \in Errors, GoodBut(s, {x}), IsSite(s, x), Live(s, x),
         s.conn[x].hold # "free", s.conn[x].cmd \in {"none", "other", "abor"}
  PROVE  GoodBut(handleTransferFail(s, x, e), {})
<1> DEFINE a == IF /\ s.conn[x].hold = "init" /\ s.tm.pasv = x /\ ~Processing(s.conn[x])
                   /\ e \in {"RETRSTOR", "DUPE"}
                THEN Send(s, x, "abor") ELSE s
           u == sideError(a, x, e)
           r == Free(u, x)
<1>1. handleTransferFail(s, x, e) = r
  BY DEF handleTransferFail
<1>2. s \in TransferStates /\ "abor" \in Cmds
  BY DEF GoodBut, Cmds
<1>3. ConnChanged(s, s, x)
  BY <1>2 DEF ConnChanged
<1>4. ConnChanged(s, a, x) /\ a.conn[x].cmd \in {"none", "other", "abor"}
  <2>1. LET v == Send(s, x, "abor") IN ConnChanged(s, v, x) /\ v.conn[x].cmd = "abor"
    BY <1>2, SendShape
  <2> QED
    BY <1>3, <2>1
<1> HIDE DEF a
<1>5. GoodBut(a, {x}) /\ IsSite(a, x) /\ Live(a, x)
  <2>1. a.tm = s.tm
    BY <1>4 DEF ConnChanged
  <2> QED
    BY <1>4, <2>1, Leave, SameKind DEF Live
<1>6. GoodBut(u, {x}) /\ SameTransfer(a, u) /\ ~Live(u, x) /\ u.conn[x] = a.conn[x]
  BY <1>5, SideErrorGood
<1> HIDE DEF u
<1>7. IsSite(u, x) /\ u \in TransferStates
  BY <1>5, <1>6, SameKind DEF SameTransfer, GoodBut
<1>8. ConnChanged(u, r, x) /\ r.conn[x].hold = "free" /\ r.conn[x].cmd = u.conn[x].cmd
  BY <1>7, FreeShape
<1> HIDE DEF r
<1>9. Resting(r.conn[x])
  BY <1>4, <1>6, <1>8 DEF Resting
<1> QED
  BY <1>1, <1>6, <1>7, <1>8, <1>9, Freed

(***************************************************************************)
(* Connections that go on.                                                 *)
(***************************************************************************)
LEMMA ConnThen ==
  ASSUME NEW s, NEW u, NEW r, NEW x, ConnChanged(s, u, x), ConnChanged(u, r, x)
  PROVE  ConnChanged(s, r, x)
BY DEF ConnChanged

\* It is the turn of side x: the passive side listens first.
Turn(s, x) == s.tm.status = IF s.tm.pasv = x THEN "AWAITING_PASSIVE" ELSE "AWAITING_ACTIVE"

LEMMA InitTransferShape ==
  ASSUME NEW s \in TransferStates, NEW x \in Sides, NEW k \in Needs, Turn(s, x)
  PROVE  LET r == initTransfer(s, x, k)
         IN /\ ConnChanged(s, r, x) /\ r.conn[x].link = s.conn[x].link
            /\ Busy(r.conn[x], s.tm.pasv = x)
<1> DEFINE u == [s EXCEPT !.conn[x].hold = "init"]
           r == initTransfer(s, x, k)
<1>1. "init" \in Holds /\ {"cwd", "prep", "pret", "pasv", "port"} \subseteq Cmds
  BY DEF Holds, Cmds
<1>2. /\ ConnChanged(s, u, x) /\ u.conn[x].hold = "init" /\ u.conn[x].link = s.conn[x].link
  BY <1>1, HoldShape
<1>3. PICK c \in {"cwd", "prep"} \cup (IF s.tm.pasv = x THEN {"pret", "pasv"} ELSE {"port"}) : r = Send(u, x, c)
  BY DEF initTransfer, Turn
<1> HIDE DEF u, r
<1>4. c \in Cmds /\ u \in TransferStates
  BY <1>1, <1>2 DEF ConnChanged
<1>5. /\ ConnChanged(u, r, x) /\ r.conn[x].hold = "init" /\ r.conn[x].link = s.conn[x].link /\ r.conn[x].cmd = c
  BY <1>2, <1>3, <1>4, SendShape
<1>6. ConnChanged(s, r, x)
  BY <1>2, <1>5, ConnThen
<1>7. Busy(r.conn[x], s.tm.pasv = x)
  BY <1>5 DEF Busy
<1> QED
  BY <1>5, <1>6, <1>7 DEF r

LEMMA HandleShape ==
  ASSUME NEW s \in TransferStates, NEW x \in Sides, NEW k \in Needs, Turn(s, x), s.conn[x].link = "up",
         s.conn[x].hold \in {"set", "init"}
  PROVE  LET r == handleConnection(s, x, k)
         IN /\ ConnChanged(s, r, x) /\ r.conn[x].link = "up"
            /\ s.conn[x].cmd # "none" => r = s
            /\ s.conn[x].cmd = "none" => Busy(r.conn[x], s.tm.pasv = x)
<1>1. ConnChanged(s, s, x)
  BY DEF ConnChanged
<1>2. ~WillFail(s)
  BY DEF Turn, WillFail, Erring
<1>3. CASE s.conn[x].cmd # "none"
  <2>1. handleConnection(s, x, k) = s
    BY <1>3 DEF handleConnection, Processing
  <2> QED
    BY <1>1, <1>3, <2>1
<1>4. CASE s.conn[x].cmd = "none"
  <2>1. ~Processing(s.conn[x])
    BY <1>4 DEF Processing
  <2>2. handleConnection(s, x, k) = initTransfer(s, x, k)
    BY <1>2, <2>1 DEF handleConnection
  <2> QED
    BY <1>4, <2>2, InitTransferShape
<1> QED
  BY <1>3, <1>4

LEMMA PrepareShape ==
  ASSUME NEW s \in TransferStates, NEW x \in Sides, NEW k \in Needs, Turn(s, x), s.conn[x].link = "up",
         s.conn[x].hold = (IF s.tm.type = "LIST" THEN "free" ELSE "locked"),
         s.conn[x].cmd \in Early \cup {"none"}
  PROVE  LET r == prepare(s, x, k)
         IN ConnChanged(s, r, x) /\ r.conn[x].link = "up" /\ Busy(r.conn[x], s.tm.pasv = x)
<1> DEFINE u == [s EXCEPT !.conn[x].hold = "set"]
           r == handleConnection(u, x, k)
<1>1. "set" \in Holds
  BY DEF Holds
<1>2. /\ ConnChanged(s, u, x) /\ u.conn[x].hold = "set" /\ u.conn[x].link = "up" /\ u.conn[x].cmd = s.conn[x].cmd
  BY <1>1, HoldShape
<1>3. prepare(s, x, k) = r
  BY DEF prepare
<1> HIDE DEF u
<1>4. u \in TransferStates /\ u.tm = s.tm /\ Turn(u, x)
  BY <1>2 DEF ConnChanged, Turn
<1>5. /\ ConnChanged(u, r, x) /\ r.conn[x].link = "up"
      /\ u.conn[x].cmd # "none" => r = u
      /\ u.conn[x].cmd = "none" => Busy(r.conn[x], u.tm.pasv = x)
  BY <1>2, <1>4, HandleShape
<1> HIDE DEF r
<1>6. ConnChanged(s, r, x)
  BY <1>2, <1>5, ConnThen
<1>7. Busy(r.conn[x], s.tm.pasv = x)
  <2>1. CASE s.conn[x].cmd = "none"
    BY <1>2, <1>4, <1>5, <2>1
  <2>2. CASE s.conn[x].cmd # "none"
    <3>1. r.conn[x].hold = "set" /\ r.conn[x].cmd \in Early
      BY <1>2, <1>5, <2>2
    <3> QED
      BY <3>1 DEF Busy
  <2> QED
    BY <2>1, <2>2
<1> QED
  BY <1>3, <1>5, <1>6, <1>7

LEMMA LockShape ==
  ASSUME NEW s \in TransferStates, NEW x \in Sides, NEW k \in Needs, s.tm.status = "AWAITING_PASSIVE",
         s.conn[x].link = "up", s.conn[x].cmd \in {"none", "other", "abor"}
  PROVE  LET r == lockTransferConn(s, x, k)
         IN ConnChanged(s, r, x) /\ r.conn[x].link = "up" /\ r.conn[x].hold = "locked"
            /\ r.conn[x].cmd \in Early \cup {"none"}
<1> DEFINE u == [s EXCEPT !.conn[x].hold = "locked"]
           r == lockTransferConn(s, x, k)
<1>1. "locked" \in Holds /\ "cwd" \in Cmds
  BY DEF Holds, Cmds
<1>2. /\ ConnChanged(s, u, x) /\ u.conn[x].hold = "locked" /\ u.conn[x].link = "up" /\ u.conn[x].cmd = s.conn[x].cmd
  BY <1>1, HoldShape
<1>3. r = handleConnection(u, x, k)
  BY DEF lockTransferConn
<1> HIDE DEF u, r
<1>4. u \in TransferStates /\ u.tm = s.tm
  BY <1>2 DEF ConnChanged
<1>5. ~WillFail(u)
  BY <1>4 DEF WillFail, Erring
<1>6. r = u \/ (u.conn[x].cmd = "none" /\ r = Send(u, x, "cwd"))
  BY <1>2, <1>3, <1>5 DEF handleConnection, Processing
<1>7. CASE r = u
  BY <1>2, <1>7 DEF r, Early
<1>8. CASE r = Send(u, x, "cwd")
  <2>1. /\ ConnChanged(u, r, x) /\ r.conn[x].hold = "locked" /\ r.conn[x].link = "up" /\ r.conn[x].cmd = "cwd"
    BY <1>1, <1>2, <1>4, <1>8, SendShape
  <2>2. ConnChanged(s, r, x)
    BY <1>2, <2>1, ConnThen
  <2> QED
    BY <2>1, <2>2 DEF r, Early
<1> QED
  BY <1>6, <1>7, <1>8

\* What a side needs to go on when its connection has been answered
Resumes(s, x) ==
  \/ WillFail(s)
  \/ s.tm.status = "AWAITING_PASSIVE" /\ s.tm.pasv # x /\ s.conn[x].hold = "locked"
  \/ Turn(s, x) /\ s.conn[x].hold \in {"set", "init"} /\ ~(HasLocal(s) /\ s.lt = "open")

LEMMA BusyIsPart ==
  ASSUME NEW s \in TransferStates, NEW x \in Sides, NEW c, Turn(s, x), c.link = "up", Busy(c, s.tm.pasv = x)
  PROVE  TakesPart(c, s.tm.status, s.tm.pasv = x, x)
<1>1. /\ Done(Other(x)) \notin {"AWAITING_PASSIVE", "AWAITING_ACTIVE"}
      /\ Err(Other(x)) \notin {"AWAITING_PASSIVE", "AWAITING_ACTIVE"}
  BY DEF Done, Err, Other, Sides
<1>2. CASE s.tm.pasv = x
  <2>1. (s.tm.pasv = x) = TRUE /\ s.tm.status = "AWAITING_PASSIVE"
    BY <1>2 DEF Turn
  <2>2. Busy(c, TRUE)
    BY <2>1
  <2>3. TakesPart(c, "AWAITING_PASSIVE", TRUE, x)
    BY <1>1, <2>2 DEF TakesPart
  <2> QED
    BY <2>1, <2>3
<1>3. CASE s.tm.pasv # x
  <2>1. (s.tm.pasv = x) = FALSE /\ s.tm.status = "AWAITING_ACTIVE"
    BY <1>3 DEF Turn
  <2>2. Busy(c, FALSE)
    BY <2>1
  <2>3. TakesPart(c, "AWAITING_ACTIVE", FALSE, x)
    BY <1>1, <2>2 DEF TakesPart
  <2> QED
    BY <2>1, <2>3
<1> QED
  BY <1>2, <1>3

LEMMA HandleConnectionGood ==
  ASSUME NEW s, NEW x \in Sides, NEW k \in Needs, NEW X, Exempt(s, x, X),
         s.conn[x].link = "up", s.conn[x].cmd = "none",
         IsSite(s, x) /\ Live(s, x) => Resumes(s, x)
  PROVE  GoodBut(handleConnection(s, x, k), {})
<1> DEFINE r == handleConnection(s, x, k)
<1>1. s \in TransferStates /\ X \in {{}, {x}} /\ GoodBut(s, X) /\ (IsSite(s, x) \/ X = {})
      /\ (s.conn[x].hold # "free" <=> IsSite(s, x) /\ Live(s, x))
  BY DEF Exempt, GoodBut
<1>2. ConnChanged(s, s, x)
  BY <1>1 DEF ConnChanged
<1>3. ~Processing(s.conn[x])
  BY DEF Processing
<1>4. CASE s.conn[x].hold = "free"
  <2>1. r = s
    BY <1>4 DEF handleConnection
  <2>2. Resting(s.conn[x])
    BY <1>4 DEF Resting
  <2> QED
    BY <1>1, <1>2, <1>4, <2>1, <2>2, Freed
<1>5. CASE s.conn[x].hold # "free" /\ WillFail(s)
  <2>1. r = handleTransferFail(s, x, "OTHER")
    BY <1>3, <1>5 DEF handleConnection
  <2>2. GoodBut(s, {x}) /\ IsSite(s, x) /\ Live(s, x) /\ "OTHER" \in Errors
    BY <1>1, <1>2, <1>5, Leave DEF Errors
  <2> QED
    BY <1>5, <2>1, <2>2, HandleTransferFailGood
<1>6. CASE s.conn[x].hold # "free" /\ ~WillFail(s) /\ s.conn[x].hold = "locked"
  <2>1. r = IF k = "cwd" THEN Send(s, x, "cwd") ELSE s
    BY <1>3, <1>6 DEF handleConnection
  <2>2. IsSite(s, x) /\ Live(s, x) /\ s.tm.status = "AWAITING_PASSIVE" /\ s.tm.pasv # x
    BY <1>1, <1>6 DEF Resumes
  <2>3. "cwd" \in Cmds
    BY DEF Cmds
  <2>4. LET v == Send(s, x, "cwd")
        IN ConnChanged(s, v, x) /\ v.conn[x].hold = s.conn[x].hold /\ v.conn[x].link = s.conn[x].link /\ v.conn[x].cmd = "cwd"
    BY <1>1, <2>3, SendShape
  <2>5. /\ ConnChanged(s, r, x) /\ r.conn[x].link = "up" /\ r.conn[x].hold = "locked"
        /\ r.conn[x].cmd \in Early \cup {"none"}
    BY <1>2, <1>6, <2>1, <2>4 DEF Early
  <2> HIDE DEF r
  <2>6. r.tm = s.tm
    BY <2>5 DEF ConnChanged
  <2>7. Done(Other(x)) # "AWAITING_PASSIVE" /\ Err(Other(x)) # "AWAITING_PASSIVE"
    BY DEF Done, Err, Other, Sides
  <2>8. ConnGood(r, x)
    <3>1. TakesPart(r.conn[x], "AWAITING_PASSIVE", FALSE, x)
      BY <2>5, <2>7 DEF TakesPart
    <3>2. (r.tm.pasv = x) = FALSE /\ r.tm.status = "AWAITING_PASSIVE"
      BY <2>2, <2>6
    <3>3. IsSite(r, x) /\ Live(r, x)
      BY <2>2, <2>6, SameKind DEF Live
    <3> QED
      BY <3>1, <3>2, <3>3 DEF ConnGood
  <2>9. GoodBut(r, {})
    BY <1>1, <2>2, <2>5, <2>8, Rejoin
  <2> QED
    BY <2>9 DEF r
<1>7. CASE s.conn[x].hold # "free" /\ ~WillFail(s) /\ s.conn[x].hold # "locked"
  <2>1. IsSite(s, x) /\ Live(s, x) /\ Turn(s, x) /\ s.conn[x].hold \in {"set", "init"} /\ ~(HasLocal(s) /\ s.lt = "open")
    BY <1>1, <1>7 DEF Resumes
  <2>2. ConnChanged(s, r, x) /\ r.conn[x].link = "up" /\ Busy(r.conn[x], s.tm.pasv = x)
    BY <1>1, <2>1, HandleShape
  <2> HIDE DEF r
  <2>3. r.tm = s.tm
    BY <2>2 DEF ConnChanged
  <2>4. TakesPart(r.conn[x], s.tm.status, s.tm.pasv = x, x)
    BY <1>1, <2>1, <2>2, BusyIsPart
  <2>5. IsSite(r, x) /\ Live(r, x)
    BY <2>1, <2>3, SameKind DEF Live
  <2>6. ConnGood(r, x)
    BY <2>3, <2>4, <2>5 DEF ConnGood
  <2>7. GoodBut(r, {})
    BY <1>1, <2>1, <2>2, <2>6, Rejoin
  <2> QED
    BY <2>7 DEF r
<1> QED
  BY <1>4, <1>5, <1>6, <1>7

(***************************************************************************)
(* Replies.  Asked(s, x): side x's connection is up and not at rest.       *)
(***************************************************************************)
Answer(s, x) == Send(s, x, "none")

LEMMA AnswerShape ==
  ASSUME NEW s, NEW x \in Sides, GoodBut(s, {})
  PROVE  LET r == Answer(s, x)
         IN /\ ConnChanged(s, r, x) /\ r.conn[x].hold = s.conn[x].hold /\ r.conn[x].link = s.conn[x].link
            /\ r.conn[x].cmd = "none" /\ r.tm = s.tm /\ r.lt = s.lt
            /\ IsSite(r, x) <=> IsSite(s, x)
            /\ Live(r, x) <=> Live(s, x)
            /\ \E X : Exempt(r, x, X)
            /\ IsSite(s, x) /\ Live(s, x) => GoodBut(r, {x})
<1> DEFINE r == Answer(s, x)
<1>1. s \in TransferStates /\ "none" \in Cmds
  BY DEF GoodBut, Cmds
<1>2. /\ ConnChanged(s, r, x) /\ r.conn[x].hold = s.conn[x].hold /\ r.conn[x].link = s.conn[x].link
      /\ r.conn[x].cmd = "none"
  BY <1>1, SendShape DEF Answer
<1> HIDE DEF r
<1>3. r.tm = s.tm /\ r.lt = s.lt
  BY <1>2 DEF ConnChanged
<1>4. (IsSite(r, x) <=> IsSite(s, x)) /\ (Live(r, x) <=> Live(s, x))
  BY <1>3, SameKind DEF Live
<1>5. s.conn[x].hold # "free" <=> IsSite(s, x) /\ Live(s, x)
  BY Holder
<1>6. CASE IsSite(s, x) /\ Live(s, x)
  <2>1. GoodBut(r, {x})
    BY <1>2, <1>6, Leave
  <2>2. Exempt(r, x, {x})
    BY <1>2, <1>4, <1>5, <1>6, <2>1 DEF Exempt
  <2> QED
    BY <1>2, <1>3, <1>4, <2>1, <2>2 DEF r
<1>7. CASE ~(IsSite(s, x) /\ Live(s, x))
  <2>1. Resting(r.conn[x])
    BY <1>2, <1>5, <1>7 DEF Resting
  <2>2. GoodBut(r, {})
    BY <1>2, <1>7, <2>1, Freed
  <2>3. Exempt(r, x, {})
    BY <1>2, <1>4, <1>5, <1>7, <2>2 DEF Exempt
  <2> QED
    BY <1>2, <1>3, <1>4, <1>7, <2>3 DEF r
<1> QED
  BY <1>6, <1>7

\* The statuses in which a connection that is held has a command of this kind
LEMMA BusyStatus ==
  ASSUME NEW s, NEW x \in Sides, GoodBut(s, {}), IsSite(s, x), Live(s, x)
  PROVE  /\ s.conn[x].cmd \in Early \cup {"prep"} =>
              \/ s.tm.status = Err(Other(x))
              \/ s.tm.status = "AWAITING_PASSIVE" /\ s.tm.pasv # x /\ s.conn[x].hold = "locked"
              \/ Turn(s, x) /\ s.conn[x].hold \in {"set", "init"}
         /\ s.conn[x].cmd \in {"pret", "pasv"} =>
              /\ s.conn[x].hold = "init" /\ s.tm.pasv = x
              /\ s.tm.status \in {"AWAITING_PASSIVE", Err(Other(x))}
         /\ s.conn[x].cmd = "port" =>
              /\ s.conn[x].hold = "init" /\ s.tm.pasv # x
              /\ s.tm.status \in {"AWAITING_ACTIVE", Err(Other(x))}
         /\ s.conn[x].cmd = "xfer" =>
              /\ s.conn[x].hold = "init"
              /\ IF s.tm.pasv = x THEN s.tm.status \in {"TRANSFERRING", Done(Other(x)), Err(Other(x))}
                 ELSE \/ s.tm.status \in {"AWAITING_ACTIVE", Err(Other(x))}
                      \/ s.tm.status = Done(Other(x)) /\ x = "src"
         /\ s.conn[x].cmd = "data" =>
              s.conn[x].hold = "init" /\ s.tm.status \in {"TRANSFERRING", Done(Other(x)), Err(Other(x))}
<1> DEFINE c == s.conn[x]
           st == s.tm.status
           P == s.tm.pasv = x
<1>1. TakesPart(c, st, P, x) /\ s \in TransferStates
  BY Holder DEF GoodBut
<1>2. st \in {"TRANSFERRING", "AWAITING_ACTIVE", "AWAITING_PASSIVE", Done(Other(x)), Err(Other(x))}
  BY <1>1, StatusFacts DEF Live, Awaiting
<1>3. (P = TRUE /\ s.tm.pasv = x) \/ (P = FALSE /\ s.tm.pasv # x)
  OBVIOUS
<1> HIDE DEF c, st, P
<1>4. CASE st = "AWAITING_PASSIVE" /\ P = TRUE
  <2>1. Busy(c, TRUE)
    BY <1>1, <1>4 DEF TakesPart
  <2>2. Turn(s, x) /\ s.tm.pasv = x
    BY <1>3, <1>4 DEF Turn, st
  <2> QED
    BY <1>4, <2>1, <2>2 DEF Busy, Early, c, st
<1>5. CASE st = "AWAITING_PASSIVE" /\ P = FALSE
  <2>1. c.hold = "locked" /\ c.cmd \in Early \cup {"none"}
    BY <1>1, <1>5 DEF TakesPart
  <2> QED
    BY <1>3, <1>5, <2>1 DEF Early, c, st
<1>6. CASE st = "AWAITING_ACTIVE" /\ P = TRUE
  <2>1. c.hold = "init" /\ c.cmd = "none"
    BY <1>1, <1>6 DEF TakesPart
  <2> QED
    BY <1>3, <1>6, <2>1 DEF Early, c, st
<1>7. CASE st = "AWAITING_ACTIVE" /\ P = FALSE
  <2>1. Busy(c, FALSE) \/ (c.hold = "init" /\ c.cmd = "xfer")
    BY <1>1, <1>7 DEF TakesPart
  <2>2. Turn(s, x) /\ s.tm.pasv # x
    BY <1>3, <1>7 DEF Turn, st
  <2> QED
    BY <1>7, <2>1, <2>2 DEF Busy, Early, c, st
<1>8. CASE st = "TRANSFERRING"
  <2>1. c.hold = "init" /\ (c.cmd = "data" \/ (P = TRUE /\ c.cmd = "xfer"))
    BY <1>1, <1>8 DEF TakesPart
  <2> QED
    BY <1>3, <1>8, <2>1 DEF Early, c, st
<1>9. CASE st = Done(Other(x))
  <2>1. c.hold = "init" /\ (c.cmd = "data" \/ (c.cmd = "xfer" /\ (P = TRUE \/ x = "src")))
    BY <1>1, <1>9 DEF TakesPart
  <2> QED
    BY <1>3, <1>9, <2>1 DEF Early, c, st
<1>10. CASE st = Err(Other(x))
  <2>1. \/ Busy(c, P)
        \/ c.hold = "init" /\ c.cmd \in {"xfer", "data"}
        \/ c.hold = "locked" /\ P = FALSE /\ c.cmd \in Early
    BY <1>1, <1>10 DEF TakesPart
  <2>2. CASE P = TRUE
    <3>1. Busy(c, TRUE) \/ (c.hold = "init" /\ c.cmd \in {"xfer", "data"})
      BY <2>1, <2>2
    <3> QED
      BY <1>3, <1>10, <2>2, <3>1 DEF Busy, Early, c, st
  <2>3. CASE P = FALSE
    <3>1. \/ Busy(c, FALSE) \/ (c.hold = "init" /\ c.cmd \in {"xfer", "data"})
          \/ c.hold = "locked" /\ c.cmd \in Early
      BY <2>1, <2>3
    <3> QED
      BY <1>3, <1>10, <2>3, <3>1 DEF Busy, Early, c, st
  <2> QED
    BY <1>3, <2>2, <2>3
<1> QED
  BY <1>2, <1>3, <1>4, <1>5, <1>6, <1>7, <1>8, <1>9, <1>10

LEMMA SocketStatus ==
  ASSUME NEW s, GoodBut(s, {}), HasLocal(s)
  PROVE  SocketGood(s)
BY DEF GoodBut

\* handleConnection after an answer
LEMMA AnswerGood ==
  ASSUME NEW s, NEW x \in Sides, NEW k \in Needs, GoodBut(s, {}), s.conn[x].link = "up",
         s.conn[x].cmd \in Early \cup {"prep"}
  PROVE  GoodBut(handleConnection(Answer(s, x), x, k), {})
<1> DEFINE r == Answer(s, x)
<1>1. /\ r.conn[x].hold = s.conn[x].hold /\ r.conn[x].link = s.conn[x].link
      /\ r.conn[x].cmd = "none" /\ r.tm = s.tm /\ r.lt = s.lt
      /\ IsSite(r, x) <=> IsSite(s, x)
      /\ Live(r, x) <=> Live(s, x)
      /\ \E X : Exempt(r, x, X)
  BY AnswerShape
<1> HIDE DEF r
<1>2. PICK X : Exempt(r, x, X)
  BY <1>1
<1>3. ASSUME IsSite(s, x), Live(s, x) PROVE Resumes(r, x)
  <2>1. \/ s.tm.status = Err(Other(x))
        \/ s.tm.status = "AWAITING_PASSIVE" /\ s.tm.pasv # x /\ s.conn[x].hold = "locked"
        \/ Turn(s, x) /\ s.conn[x].hold \in {"set", "init"}
    BY <1>3, BusyStatus
  <2>2. CASE s.tm.status = Err(Other(x))
    <3>1. Err(Other(x)) \in Erring
      BY DEF Err, Erring
    <3> QED
      BY <1>1, <2>2, <3>1 DEF Resumes, WillFail
  <2>3. CASE s.tm.status = "AWAITING_PASSIVE" /\ s.tm.pasv # x /\ s.conn[x].hold = "locked"
    BY <1>1, <2>3 DEF Resumes
  <2>4. CASE Turn(s, x) /\ s.conn[x].hold \in {"set", "init"}
    <3>1. Turn(r, x) /\ r.conn[x].hold \in {"set", "init"}
      BY <1>1, <2>4 DEF Turn
    <3>2. ~(HasLocal(s) /\ s.lt = "open")
      <4>1. SUFFICES ASSUME HasLocal(s), s.lt = "open" PROVE FALSE
        OBVIOUS
      <4>2. SocketGood(s) /\ s \in TransferStates
        BY <4>1, SocketStatus DEF GoodBut
      <4>3. Other(Local(s)) = x
        BY <1>3, <4>1, <4>2, LocalFacts, SideFacts
      <4>4. s.tm.status = "AWAITING_ACTIVE"
        BY <2>4, <4>1, <4>2 DEF SocketGood, Turn
      <4>5. s.conn[x].cmd = "xfer"
        BY <4>1, <4>3, <4>4 DEF GoodBut
      <4> QED
        BY <4>5 DEF Early
    <3>3. ~(HasLocal(r) /\ r.lt = "open")
      BY <1>1, <3>2, SameKind
    <3> QED
      BY <3>1, <3>3 DEF Resumes
  <2> QED
    BY <2>1, <2>2, <2>3, <2>4
<1>4. GoodBut(handleConnection(r, x, k), {})
  BY <1>1, <1>2, <1>3, HandleConnectionGood
<1> QED
  BY <1>4 DEF r

\* A negative answer ends the side's part, or cuts the connection.
LEMMA RefusedGood ==
  ASSUME NEW s, NEW x \in Sides, NEW e \in Errors, GoodBut(s, {}), s.conn[x].hold # "free"
  PROVE  GoodBut(handleTransferFail(Answer(s, x), x, e), {})
<1>1. IsSite(s, x) /\ Live(s, x)
  BY Holder
<1> DEFINE r == Answer(s, x)
<1>2. /\ r.conn[x].hold = s.conn[x].hold /\ r.conn[x].cmd = "none"
      /\ IsSite(r, x) /\ Live(r, x) /\ GoodBut(r, {x})
  BY <1>1, AnswerShape
<1> HIDE DEF r
<1>3. GoodBut(handleTransferFail(r, x, e), {})
  BY <1>2, HandleTransferFailGood
<1> QED
  BY <1>3 DEF r

LEMMA DroppedGood ==
  ASSUME NEW s, NEW x \in Sides, GoodBut(s, {})
  PROVE  GoodBut(Cut(Answer(s, x), x, "login"), {})
<1> DEFINE r == Answer(s, x)
<1>1. PICK X : Exempt(r, x, X)
  BY AnswerShape
<1>2. "login" \in Links
  BY DEF Links
<1> HIDE DEF r
<1>3. GoodBut(Cut(r, x, "login"), {})
  BY <1>1, <1>2, CutGood
<1> QED
  BY <1>3 DEF r

\* The address comes, or is taken, when the other side has failed already.
LEMMA ReadyTooLateGood ==
  ASSUME NEW s, NEW x \in Sides, GoodBut(s, {x}), IsSite(s, x), s.tm.status = Err(Other(x))
  PROVE  GoodBut(readyTooLate(s), {})
<1> DEFINE u == sideError(s, x, "OTHER")
           r == Return(u, x)
<1>1. x = IF s.tm.status = "TARGET_ERROR" THEN "src" ELSE "dst"
  BY DEF Err, Other, Sides
<1>2. readyTooLate(s) = r
  BY <1>1 DEF readyTooLate
<1>3. s \in TransferStates /\ "OTHER" \in Errors
  BY DEF GoodBut, Errors
<1>4. Live(s, x)
  BY <1>3, StatusFacts DEF Live, Err, Done, Other, Sides
<1>5. GoodBut(u, {x}) /\ SameTransfer(s, u) /\ ~Live(u, x)
  BY <1>3, <1>4, SideErrorGood
<1> HIDE DEF u
<1>6. IsSite(u, x) /\ u \in TransferStates
  BY <1>5, SameKind DEF SameTransfer, GoodBut
<1>7. ConnChanged(u, r, x) /\ r.conn[x].hold = "free" /\ r.conn[x].cmd \in {"none", "other"}
  BY <1>6, ReturnShape
<1> HIDE DEF r
<1>8. Resting(r.conn[x])
  BY <1>7 DEF Resting
<1> QED
  BY <1>2, <1>5, <1>6, <1>7, <1>8, Freed

(***************************************************************************)
(* The handshake.                                                          *)
(***************************************************************************)
LEMMA Assemble ==
  ASSUME NEW r \in TransferStates, ~r.tm.asserted, r.tm.type = "UPLOAD" => r.tm.pasv = "dst",
         NEW x \in Sides, ConnGood(r, x), ConnGood(r, Other(x)),
         ~HasLocal(r) => r.lt = "none", HasLocal(r) => SocketGood(r), ReportsGood(r),
         HasLocal(r) /\ r.lt = "open" /\ r.tm.status = "AWAITING_ACTIVE" => r.conn[Other(Local(r))].cmd = "xfer"
  PROVE  GoodBut(r, {})
<1>1. Sides = {x, Other(x)}
  BY SideFacts
<1>2. \A y \in Sides : ConnGood(r, y)
  BY <1>1
<1> QED
  BY <1>2 DEF GoodBut

\* Before a side has reported, only the result counts.
LEMMA UnreportedGood ==
  ASSUME NEW r \in TransferStates, r.tm.status \in Awaiting \cup {"TRANSFERRING"},
         \A x \in Sides : r.rep[x] = "none", r.tm.type = "LIST" => r.tm.ts = "none",
         r.tm.type # "LIST" => r.tm.ts \in {"inprogress", "aborted"}
  PROVE  ReportsGood(r)
<1>1. \A y \in Sides : r.tm.status # Done(y) /\ r.tm.status # Err(y)
  BY StatusFacts
<1>2. r.tm.status # "IDLE" /\ "dst" \in Sides
  BY DEF Awaiting, Sides
<1> QED
  BY <1>1, <1>2 DEF ReportsGood

\* Who is live before a side has reported: both.
LEMMA UnreportedLive ==
  ASSUME NEW r \in TransferStates, r.tm.status \in Awaiting \cup {"TRANSFERRING"}, NEW x \in Sides
  PROVE  Live(r, x) /\ r.tm.status # Done(Other(x)) /\ r.tm.status # Err(Other(x))
<1>1. Other(x) \in Sides /\ Other(Other(x)) = x
  BY SideFacts
<1>2. r.tm.status # Done(x) /\ r.tm.status # Err(x) /\ r.tm.status # "IDLE"
  BY StatusFacts DEF Awaiting
<1>3. r.tm.status # Done(Other(x)) /\ r.tm.status # Err(Other(x))
  BY <1>1, StatusFacts
<1> QED
  BY <1>2, <1>3 DEF Live

\* The next status before a side has reported
LEMMA AdvanceShape ==
  ASSUME NEW s \in TransferStates, NEW st \in Awaiting \cup {"TRANSFERRING"},
         s.tm.status \in Awaiting \cup {"TRANSFERRING"}, ReportsGood(s)
  PROVE  LET r == [s EXCEPT !.tm.status = st]
         IN /\ r \in TransferStates /\ r.conn = s.conn /\ r.lt = s.lt /\ r.rep = s.rep /\ SameTransfer(s, r)
            /\ r.tm.status = st /\ r.tm.ts = s.tm.ts
            /\ ReportsGood(r)
<1> DEFINE r == [s EXCEPT !.tm.status = st]
<1>1. st \in Statuses /\ "OTHER" \in Errors
  BY DEF Statuses, Awaiting, Errors
<1>2. /\ r \in TransferStates /\ r.conn = s.conn /\ r.lt = s.lt /\ r.rep = s.rep /\ SameTransfer(s, r)
      /\ r.tm.status = st /\ r.tm.ts = s.tm.ts
  BY <1>1, StatusShape
<1> HIDE DEF r
<1>3. /\ \A x \in Sides : s.rep[x] = "none"
      /\ s.tm.type = "LIST" => s.tm.ts = "none"
      /\ s.tm.type # "LIST" => s.tm.ts \in {"inprogress", "aborted"}
  BY DEF ReportsGood, Awaiting
<1>4. ReportsGood(r)
  BY <1>2, <1>3, UnreportedGood DEF SameTransfer
<1> QED
  BY <1>2, <1>4 DEF r

LEMMA WaitsForActive ==
  ASSUME NEW r \in TransferStates, NEW x \in Sides, r.tm.status = "AWAITING_ACTIVE", r.tm.pasv = x,
         r.conn[x].link = "up", r.conn[x].hold = "init", r.conn[x].cmd = "none", IsSite(r, x)
  PROVE  ConnGood(r, x)
<1>1. Live(r, x) /\ r.tm.status # Done(Other(x)) /\ r.tm.status # Err(Other(x))
  BY UnreportedLive DEF Awaiting
<1>2. (r.tm.pasv = x) = TRUE
  OBVIOUS
<1>3. TakesPart(r.conn[x], "AWAITING_ACTIVE", TRUE, x)
  BY <1>1 DEF TakesPart
<1> QED
  BY <1>1, <1>2, <1>3 DEF ConnGood

LEMMA TakesItsTurn ==
  ASSUME NEW r \in TransferStates, NEW x \in Sides, Turn(r, x), r.conn[x].link = "up",
         Busy(r.conn[x], r.tm.pasv = x), IsSite(r, x)
  PROVE  ConnGood(r, x)
<1>1. Live(r, x)
  BY UnreportedLive DEF Turn, Awaiting
<1>2. TakesPart(r.conn[x], r.tm.status, r.tm.pasv = x, x)
  BY BusyIsPart
<1> QED
  BY <1>1, <1>2 DEF ConnGood

\* The passive side listens.
LEMMA PassiveReadyGood ==
  ASSUME NEW s, NEW x \in Sides, NEW k \in Needs, GoodBut(s, {}), s.conn[x].cmd = "pasv"
  PROVE  GoodBut(passiveReady(Answer(s, x), k), {})
<1> DEFINE o == Other(x)
           a == Answer(s, x)
           u == [a EXCEPT !.tm.status = "AWAITING_ACTIVE"]
<1>1. o \in Sides /\ o # x /\ Other(o) = x /\ Sides = {x, o}
  BY SideFacts
<1>2. IsSite(s, x) /\ Live(s, x) /\ s.conn[x].link = "up"
  BY Holder DEF Resting
<1>3. /\ s.conn[x].hold = "init" /\ s.tm.pasv = x
      /\ s.tm.status \in {"AWAITING_PASSIVE", Err(o)}
  BY <1>2, BusyStatus
<1>4. /\ ConnChanged(s, a, x) /\ a.conn[x].hold = "init" /\ a.conn[x].link = "up" /\ a.conn[x].cmd = "none"
      /\ a.tm = s.tm /\ a.lt = s.lt /\ IsSite(a, x) /\ GoodBut(a, {x})
  BY <1>2, <1>3, AnswerShape
<1>5. s \in TransferStates /\ a \in TransferStates /\ a.conn[o] = s.conn[o] /\ a.rep = s.rep /\ ReportsGood(a)
      /\ ~a.tm.asserted /\ (a.tm.type = "UPLOAD" => a.tm.pasv = "dst")
  BY <1>4 DEF ConnChanged, GoodBut
<1>6. Err(o) \in Erring /\ "AWAITING_PASSIVE" \notin Erring
  BY DEF Err, Erring
<1>7. /\ ~IsSite(a, x) <=> HasLocal(a) /\ x = Local(a)
      /\ ~IsSite(a, o) <=> HasLocal(a) /\ o = Local(a)
      /\ Local(a) \in Sides
  BY <1>1, <1>5, LocalFacts
<1>8. \A y : IsSite(a, y) <=> IsSite(s, y)
  BY <1>4, SameKind
<1> HIDE DEF a
<1>10. CASE s.tm.status = Err(o)
  <2>1. passiveReady(a, k) = readyTooLate(a)
    BY <1>4, <1>6, <1>10 DEF passiveReady, WillFail
  <2>2. GoodBut(readyTooLate(a), {})
    BY <1>4, <1>10, ReadyTooLateGood DEF o
  <2> QED
    BY <2>1, <2>2 DEF a
<1>11. CASE s.tm.status = "AWAITING_PASSIVE"
  <2>1. passiveReady(a, k) = IF IsSite(a, o) THEN prepare(u, o, k) ELSE [u EXCEPT !.lt = "connecting"]
    BY <1>3, <1>4, <1>6, <1>11 DEF passiveReady, WillFail
  <2>2. a.tm.status \in Awaiting \cup {"TRANSFERRING"} /\ "AWAITING_ACTIVE" \in Awaiting \cup {"TRANSFERRING"}
    BY <1>4, <1>11 DEF Awaiting
  <2>3. /\ u \in TransferStates /\ u.conn = a.conn /\ u.lt = a.lt /\ u.rep = a.rep /\ SameTransfer(a, u)
        /\ u.tm.status = "AWAITING_ACTIVE" /\ u.tm.ts = a.tm.ts
        /\ ReportsGood(u)
    BY <1>5, <2>2, AdvanceShape
  <2> HIDE DEF u
  <2>4. /\ \A y : IsSite(u, y) <=> IsSite(a, y)
        /\ HasLocal(u) <=> HasLocal(a)
        /\ Local(u) = Local(a)
    BY <2>3, SameKind DEF SameTransfer
  <2>5. u.tm.pasv = x /\ ~u.tm.asserted /\ (u.tm.type = "UPLOAD" => u.tm.pasv = "dst")
    BY <1>3, <1>4, <1>5, <2>3 DEF SameTransfer
  <2>6. CASE IsSite(a, o)
    <3> DEFINE r == prepare(u, o, k)
    <3>1. u.tm.type # "LIST"
      BY <1>1, <1>4, <2>4, <2>6 DEF IsSite, Sides
    <3>2. u.conn[o].hold = "locked" /\ u.conn[o].cmd \in Early \cup {"none"} /\ u.conn[o].link = "up"
      <4>1. IsSite(s, o) /\ Live(s, o)
        BY <1>1, <1>5, <1>8, <1>11, <2>6, UnreportedLive DEF Awaiting
      <4>2. TakesPart(s.conn[o], s.tm.status, s.tm.pasv = o, o)
        BY <1>1, <4>1, Holder
      <4>3. (s.tm.pasv = o) = FALSE
        BY <1>1, <1>3
      <4>4. TakesPart(s.conn[o], "AWAITING_PASSIVE", FALSE, o)
        BY <1>11, <4>2, <4>3
      <4>5. s.conn[o].hold = "locked" /\ s.conn[o].cmd \in Early \cup {"none"} /\ s.conn[o].link = "up"
        BY <4>4 DEF TakesPart
      <4> QED
        BY <1>5, <2>3, <4>5
    <3>3. Turn(u, o)
      BY <1>1, <2>3, <2>5 DEF Turn
    <3>4. ConnChanged(u, r, o) /\ r.conn[o].link = "up" /\ Busy(r.conn[o], u.tm.pasv = o)
      BY <1>1, <2>3, <3>1, <3>2, <3>3, PrepareShape
    <3> HIDE DEF r
    <3>5. r \in TransferStates /\ r.tm = u.tm /\ r.lt = u.lt /\ r.rep = u.rep /\ r.conn[x] = u.conn[x]
      BY <1>1, <3>4 DEF ConnChanged
    <3>6. /\ \A y : IsSite(r, y) <=> IsSite(u, y)
          /\ HasLocal(r) <=> HasLocal(u)
          /\ Turn(r, o)
      BY <3>3, <3>5, SameKind DEF Turn
    <3>7. ConnGood(r, o)
      BY <1>1, <2>4, <2>6, <3>4, <3>5, <3>6, TakesItsTurn
    <3>8. ConnGood(r, x)
      BY <1>4, <2>3, <2>4, <2>5, <3>5, <3>6, WaitsForActive
    <3>9. ~HasLocal(r) /\ r.lt = "none"
      <4>1. ~HasLocal(a)
        BY <1>1, <1>4, <1>7, <2>6
      <4>2. a.lt = "none"
        BY <1>4, <4>1 DEF GoodBut
      <4> QED
        BY <2>3, <2>4, <3>5, <3>6, <4>1, <4>2
    <3>10. ReportsGood(r)
      BY <2>3, <3>5 DEF ReportsGood
    <3>11. GoodBut(r, {})
      BY <2>5, <3>5, <3>7, <3>8, <3>9, <3>10, Assemble DEF o
    <3> QED
      BY <2>1, <2>6, <3>11 DEF r, a
  <2>7. CASE ~IsSite(a, o)
    <3> DEFINE r == [u EXCEPT !.lt = "connecting"]
    <3>1. r \in TransferStates /\ r.tm = u.tm /\ r.lt = "connecting" /\ r.rep = u.rep /\ r.conn = u.conn
      BY <2>3 DEF TransferStates, LtStates
    <3> HIDE DEF r
    <3>2. /\ \A y : IsSite(r, y) <=> IsSite(u, y)
          /\ HasLocal(r) <=> HasLocal(u)
          /\ Local(r) = Local(u)
      BY <3>1, SameKind
    <3>3. HasLocal(r) /\ Local(r) = o /\ ~IsSite(r, o)
      BY <1>7, <2>4, <2>7, <3>2
    <3>4. ConnGood(r, x)
      BY <1>4, <2>3, <2>4, <2>5, <3>1, <3>2, WaitsForActive
    <3>5. ConnGood(r, o)
      <4>1. Resting(s.conn[o])
        BY <1>1, <1>8, <2>7, Holder
      <4>2. Resting(r.conn[o])
        BY <1>5, <2>3, <3>1, <4>1
      <4> QED
        BY <3>3, <4>2 DEF ConnGood
    <3>6. SocketGood(r)
      <4>1. Live(r, o)
        BY <1>1, <2>3, <3>1, UnreportedLive DEF Awaiting
      <4>2. r.tm.status = "AWAITING_ACTIVE" /\ r.tm.pasv # o /\ r.lt = "connecting"
        BY <1>1, <2>3, <2>5, <3>1
      <4> QED
        BY <3>3, <4>1, <4>2 DEF SocketGood
    <3>7. ReportsGood(r)
      BY <2>3, <3>1 DEF ReportsGood
    <3>8. GoodBut(r, {})
      BY <2>5, <3>1, <3>3, <3>4, <3>5, <3>6, <3>7, Assemble DEF o
    <3> QED
      BY <2>1, <2>7, <3>8 DEF r, a
  <2> QED
    BY <2>6, <2>7
<1> QED
  BY <1>3, <1>10, <1>11

\* A side whose transfer command has been accepted
LEMMA DataPart ==
  ASSUME NEW r \in TransferStates, NEW x \in Sides, IsSite(r, x),
         r.tm.status \in {"TRANSFERRING", Done(Other(x)), Err(Other(x))},
         r.conn[x].link = "up", r.conn[x].hold = "init",
         r.conn[x].cmd = "data" \/ (r.conn[x].cmd = "xfer" /\ r.tm.pasv = x)
  PROVE  ConnGood(r, x)
<1> DEFINE st == r.tm.status
           d == Done(Other(x))
           e == Err(Other(x))
           P == r.tm.pasv = x
<1>1. Other(x) \in Sides /\ Other(x) # x
  BY SideFacts
<1>2. /\ d # e /\ d \notin Awaiting \cup {"TRANSFERRING", "IDLE"} /\ e \notin Awaiting \cup {"TRANSFERRING", "IDLE"}
  BY <1>1, StatusFacts
<1>3. Live(r, x)
  BY <1>1, StatusFacts DEF Live
<1>4. r.conn[x].cmd = "data" \/ (r.conn[x].cmd = "xfer" /\ P)
  OBVIOUS
<1> HIDE DEF P
<1>5. TakesPart(r.conn[x], st, P, x)
  BY <1>2, <1>4 DEF TakesPart, Awaiting
<1> QED
  BY <1>3, <1>5 DEF ConnGood, P

\* The active side has the address.
LEMMA ActiveReadyGood ==
  ASSUME NEW s, NEW x \in Sides, GoodBut(s, {}), s.conn[x].cmd = "port"
  PROVE  GoodBut(activeReady(Answer(s, x)), {})
<1> DEFINE o == Other(x)
           a == Answer(s, x)
<1>1. o \in Sides /\ o # x /\ Other(o) = x /\ Sides = {x, o}
  BY SideFacts
<1>2. IsSite(s, x) /\ Live(s, x) /\ s.conn[x].link = "up"
  BY Holder DEF Resting
<1>3. /\ s.conn[x].hold = "init" /\ s.tm.pasv # x
      /\ s.tm.status \in {"AWAITING_ACTIVE", Err(o)}
  BY <1>2, BusyStatus
<1>4. /\ ConnChanged(s, a, x) /\ a.conn[x].hold = "init" /\ a.conn[x].link = "up" /\ a.conn[x].cmd = "none"
      /\ a.tm = s.tm /\ a.lt = s.lt /\ IsSite(a, x) /\ GoodBut(a, {x})
  BY <1>2, <1>3, AnswerShape
<1>5. s \in TransferStates /\ a \in TransferStates /\ Other(s.tm.pasv) = x
  BY <1>1, <1>3, <1>4, Fields DEF ConnChanged, GoodBut
<1>6. Err(o) \in Erring /\ "AWAITING_ACTIVE" \notin Erring /\ "xfer" \in Cmds
  BY DEF Err, Erring, Cmds
<1> HIDE DEF a
<1>10. CASE s.tm.status = Err(o)
  <2>1. activeReady(a) = readyTooLate(a)
    BY <1>4, <1>6, <1>10 DEF activeReady, WillFail
  <2>2. GoodBut(readyTooLate(a), {})
    BY <1>4, <1>10, ReadyTooLateGood DEF o
  <2> QED
    BY <2>1, <2>2 DEF a
<1>11. CASE s.tm.status = "AWAITING_ACTIVE"
  <2> DEFINE r == Send(a, x, "xfer")
  <2>1. activeReady(a) = r
    BY <1>4, <1>5, <1>6, <1>11 DEF activeReady, WillFail, startCommand
  <2>2. ConnChanged(a, r, x) /\ r.conn[x].hold = "init" /\ r.conn[x].link = "up" /\ r.conn[x].cmd = "xfer"
    BY <1>4, <1>5, <1>6, SendShape
  <2> HIDE DEF r
  <2>3. r.tm = s.tm /\ r \in TransferStates
    BY <1>4, <2>2 DEF ConnChanged
  <2>4. ConnGood(r, x)
    <3>1. Live(r, x) /\ r.tm.status # Done(Other(x)) /\ r.tm.status # Err(Other(x))
      BY <1>11, <2>3, UnreportedLive DEF Awaiting
    <3>2. (r.tm.pasv = x) = FALSE /\ r.tm.status = "AWAITING_ACTIVE"
      BY <1>3, <1>11, <2>3
    <3>3. TakesPart(r.conn[x], "AWAITING_ACTIVE", FALSE, x)
      BY <2>2, <3>1, <3>2 DEF TakesPart
    <3>4. IsSite(r, x)
      BY <1>2, <2>3, SameKind
    <3> QED
      BY <3>1, <3>2, <3>3, <3>4 DEF ConnGood
  <2>5. GoodBut(r, {})
    BY <1>4, <2>2, <2>4, Rejoin
  <2> QED
    BY <2>1, <2>5 DEF a
<1> QED
  BY <1>3, <1>10, <1>11

\* A transfer command is accepted: the data connection is being opened.
LEMMA StartedGood ==
  ASSUME NEW s, NEW x \in Sides, GoodBut(s, {}), s.conn[x].cmd = "xfer"
  PROVE  LET r == started(s, x) IN GoodBut(r, {}) /\ r.conn[x].cmd = "data"
<1> DEFINE o == Other(x)
           a == Send(s, x, "data")
           u == [a EXCEPT !.tm.status = "TRANSFERRING"]
<1>1. o \in Sides /\ o # x /\ Other(o) = x /\ Sides = {x, o}
  BY SideFacts
<1>2. IsSite(s, x) /\ Live(s, x) /\ s.conn[x].link = "up"
  BY Holder DEF Resting
<1>3. /\ s.conn[x].hold = "init"
      /\ IF s.tm.pasv = x THEN s.tm.status \in {"TRANSFERRING", Done(o), Err(o)}
         ELSE \/ s.tm.status \in {"AWAITING_ACTIVE", Err(o)}
              \/ s.tm.status = Done(o) /\ x = "src"
  BY <1>2, BusyStatus
<1>4. s \in TransferStates /\ "data" \in Cmds /\ "xfer" \in Cmds
  BY DEF GoodBut, Cmds
<1>5. /\ ConnChanged(s, a, x) /\ a.conn[x].hold = "init" /\ a.conn[x].link = "up" /\ a.conn[x].cmd = "data"
  BY <1>2, <1>3, <1>4, SendShape
<1>6. /\ a.tm = s.tm /\ a.lt = s.lt /\ a.rep = s.rep /\ a.conn[o] = s.conn[o] /\ a \in TransferStates
      /\ s.tm.pasv \in Sides
  BY <1>4, <1>5, Fields DEF ConnChanged
<1>7. /\ Err(o) \in Erring /\ "AWAITING_ACTIVE" \notin Erring \cup {"TARGET_COMPLETE"}
      /\ (x = "src" => Done(o) = "TARGET_COMPLETE") /\ "AWAITING_ACTIVE" # Err(o) /\ "AWAITING_ACTIVE" # Done(o)
  BY DEF Err, Erring, Done, Other
<1>8. started(s, x) = IF s.tm.pasv = x THEN a ELSE activeStarted(a)
  BY DEF started
<1> HIDE DEF a
<1>9. /\ \A y : IsSite(a, y) <=> IsSite(s, y)
      /\ HasLocal(a) <=> HasLocal(s)
      /\ Local(a) = Local(s)
  BY <1>6, SameKind
<1>10. CASE s.tm.status \in {"TRANSFERRING", Done(o), Err(o)}
  <2>1. started(s, x) = a
    <3>1. CASE s.tm.pasv = x
      BY <1>8, <3>1
    <3>2. CASE s.tm.pasv # x
      <4>1. s.tm.status \in Erring \cup {"TARGET_COMPLETE"}
        BY <1>3, <1>7, <1>10, <3>2
      <4> QED
        BY <1>6, <1>7, <1>8, <3>2, <4>1 DEF activeStarted
    <3> QED
      BY <3>1, <3>2
  <2>2. ConnGood(a, x)
    BY <1>2, <1>5, <1>6, <1>9, <1>10, DataPart
  <2>3. s.tm.status # "AWAITING_ACTIVE"
    BY <1>7, <1>10
  <2>4. GoodBut(a, {})
    BY <1>2, <1>5, <2>2, <2>3, Rejoin
  <2> QED
    BY <1>5, <2>1, <2>4
<1>11. CASE s.tm.status = "AWAITING_ACTIVE"
  <2>1. s.tm.pasv = o
    BY <1>1, <1>3, <1>6, <1>7, <1>11
  <2>2. started(s, x) = IF IsSite(a, o) THEN startCommand(u, o) ELSE u
    BY <1>1, <1>6, <1>7, <1>8, <1>11, <2>1 DEF activeStarted
  <2>3. a.tm.status \in Awaiting \cup {"TRANSFERRING"} /\ "TRANSFERRING" \in Awaiting \cup {"TRANSFERRING"}
    BY <1>6, <1>11 DEF Awaiting
  <2>4. ReportsGood(a)
    BY <1>6 DEF ReportsGood, GoodBut
  <2>5. /\ u \in TransferStates /\ u.conn = a.conn /\ u.lt = a.lt /\ u.rep = a.rep /\ SameTransfer(a, u)
        /\ u.tm.status = "TRANSFERRING" /\ u.tm.ts = a.tm.ts
        /\ ReportsGood(u)
    BY <1>6, <2>3, <2>4, AdvanceShape
  <2> HIDE DEF u
  <2>6. /\ \A y : IsSite(u, y) <=> IsSite(a, y)
        /\ HasLocal(u) <=> HasLocal(a)
        /\ Local(u) = Local(a)
    BY <2>5, SameKind DEF SameTransfer
  <2>7. u.tm.pasv = o /\ ~u.tm.asserted /\ (u.tm.type = "UPLOAD" => u.tm.pasv = "dst")
    BY <1>6, <2>1, <2>5 DEF SameTransfer, GoodBut
  <2>8. ConnGood(u, x)
    BY <1>2, <1>5, <1>9, <2>5, <2>6, DataPart
  <2>9. CASE IsSite(a, o)
    <3> DEFINE r == Send(u, o, "xfer")
    <3>1. s.conn[o].hold = "init" /\ s.conn[o].link = "up"
      <4>1. IsSite(s, o) /\ Live(s, o)
        BY <1>1, <1>4, <1>6, <1>9, <2>3, <2>9, UnreportedLive
      <4>2. TakesPart(s.conn[o], s.tm.status, s.tm.pasv = o, o)
        BY <1>1, <4>1, Holder
      <4>3. (s.tm.pasv = o) = TRUE
        BY <2>1
      <4>4. TakesPart(s.conn[o], "AWAITING_ACTIVE", TRUE, o)
        BY <1>11, <4>2, <4>3
      <4> QED
        BY <4>4 DEF TakesPart
    <3>2. u.conn[o].hold = "init" /\ u.conn[o].link = "up"
      BY <1>6, <2>5, <3>1
    <3>3. started(s, x) = r
      BY <2>2, <2>9, <3>2 DEF startCommand
    <3>4. ConnChanged(u, r, o) /\ r.conn[o].hold = "init" /\ r.conn[o].link = "up" /\ r.conn[o].cmd = "xfer"
      BY <1>1, <1>4, <2>5, <3>2, SendShape
    <3> HIDE DEF r
    <3>5. r \in TransferStates /\ r.tm = u.tm /\ r.lt = u.lt /\ r.rep = u.rep /\ r.conn[x] = u.conn[x]
      BY <1>1, <3>4 DEF ConnChanged
    <3>6. /\ \A y : IsSite(r, y) <=> IsSite(u, y)
          /\ HasLocal(r) <=> HasLocal(u)
      BY <3>5, SameKind
    <3>7. ConnGood(r, o)
      BY <1>1, <2>5, <2>6, <2>7, <2>9, <3>4, <3>5, <3>6, DataPart
    <3>8. ConnGood(r, x)
      BY <2>8, <3>5, <3>6 DEF ConnGood, Live
    <3>9. ~HasLocal(r) /\ r.lt = "none"
      <4>1. ~HasLocal(s)
        BY <1>1, <1>2, <1>4, <1>9, <2>9, LocalFacts
      <4>2. s.lt = "none"
        BY <4>1 DEF GoodBut
      <4> QED
        BY <1>6, <1>9, <2>5, <2>6, <3>5, <3>6, <4>1, <4>2
    <3>10. ReportsGood(r)
      BY <2>5, <3>5 DEF ReportsGood
    <3>11. GoodBut(r, {})
      BY <2>7, <3>5, <3>7, <3>8, <3>9, <3>10, Assemble DEF o
    <3>12. r.conn[x].cmd = "data"
      BY <1>5, <2>5, <3>5
    <3> QED
      BY <3>3, <3>11, <3>12
  <2>10. CASE ~IsSite(a, o)
    <3>1. HasLocal(u) /\ Local(u) = o /\ ~IsSite(u, o) /\ HasLocal(s) /\ Local(s) = o
      BY <1>1, <1>4, <1>9, <2>6, <2>10, LocalFacts
    <3>2. ConnGood(u, o)
      <4>1. Resting(s.conn[o])
        BY <1>1, <1>9, <2>10, Holder
      <4> QED
        BY <1>6, <2>5, <3>1, <4>1 DEF ConnGood
    <3>3. SocketGood(u)
      <4>1. SocketGood(s)
        BY <3>1, SocketStatus
      <4>2. Live(u, o) /\ Live(s, o)
        BY <1>1, <1>4, <1>6, <2>3, <2>5, UnreportedLive
      <4>3. s.lt \notin {"none", "closed", "reserved", "connecting"}
        BY <1>11, <2>1, <3>1, <4>1, <4>2 DEF SocketGood
      <4>4. u.lt = s.lt /\ u.tm.status = "TRANSFERRING" /\ u.tm.pasv = o
        BY <1>6, <2>5, <2>7
      <4> QED
        BY <3>1, <4>2, <4>3, <4>4 DEF SocketGood
    <3>4. GoodBut(u, {})
      BY <2>5, <2>7, <2>8, <3>1, <3>2, <3>3, Assemble DEF o
    <3>5. u.conn[x].cmd = "data"
      BY <1>5, <2>5
    <3> QED
      BY <2>2, <2>10, <3>4, <3>5
  <2> QED
    BY <2>9, <2>10
<1> QED
  BY <1>3, <1>10, <1>11

\* A transfer command is completed.
LEMMA CompletedGood ==
  ASSUME NEW s, NEW x \in Sides, GoodBut(s, {}), s.conn[x].cmd = "data"
  PROVE  GoodBut(completed(s, x), {})
<1> DEFINE a == Answer(s, x)
           u == sideComplete(a, x)
           r == Free(u, x)
<1>1. IsSite(s, x) /\ Live(s, x)
  BY Holder DEF Resting
<1>2. /\ s.conn[x].hold = "init"
      /\ s.tm.status \in {"TRANSFERRING", Done(Other(x)), Err(Other(x))}
  BY <1>1, BusyStatus
<1>3. a.conn[x].cmd = "none" /\ a.tm = s.tm /\ IsSite(a, x) /\ Live(a, x) /\ GoodBut(a, {x})
  BY <1>1, AnswerShape
<1>4. completed(s, x) = r
  BY <1>2 DEF completed, Answer
<1> HIDE DEF a
<1>5. GoodBut(u, {x}) /\ u.tm.status \in {"IDLE", Done(x)} /\ SameTransfer(a, u) /\ u.conn = a.conn
  BY <1>2, <1>3, CompleteReportGood
<1> HIDE DEF u
<1>6. u \in TransferStates /\ IsSite(u, x) /\ ~Live(u, x)
  BY <1>3, <1>5, SameKind DEF SameTransfer, GoodBut, Live
<1>7. ConnChanged(u, r, x) /\ r.conn[x].hold = "free" /\ r.conn[x].cmd = u.conn[x].cmd
  BY <1>6, FreeShape
<1> HIDE DEF r
<1>8. Resting(r.conn[x])
  BY <1>3, <1>5, <1>7 DEF Resting
<1>9. GoodBut(r, {})
  BY <1>5, <1>6, <1>7, <1>8, Freed
<1> QED
  BY <1>4, <1>9

(***************************************************************************)
(* Engaging.                                                               *)
(***************************************************************************)
LEMMA IdleReports ==
  ASSUME NEW r \in TransferStates, r.tm.status = "IDLE", \A x \in Sides : r.rep[x] = "none",
         r.tm.ts \in {"none", "failed", "dupe"}, r.tm.type = "LIST" => r.tm.ts = "none"
  PROVE  ReportsGood(r)
<1>1. \A y \in Sides : r.tm.status # Done(y) /\ r.tm.status # Err(y)
  BY StatusFacts
<1>2. "dst" \in Sides /\ "IDLE" \notin Awaiting \cup {"TRANSFERRING"}
  BY DEF Sides, Awaiting
<1> QED
  BY <1>1, <1>2 DEF ReportsGood

LEMMA SocketShape ==
  ASSUME NEW s \in TransferStates, NEW l \in LtStates
  PROVE  LET r == [s EXCEPT !.lt = l]
         IN r \in TransferStates /\ r.tm = s.tm /\ r.lt = l /\ r.rep = s.rep /\ r.conn = s.conn
BY DEF TransferStates

LEMMA AnnounceShape ==
  ASSUME NEW s \in TransferStates
  PROVE  LET r == announce(s)
         IN /\ r \in TransferStates /\ r.conn = s.conn /\ r.lt = s.lt /\ r.rep = s.rep /\ SameTransfer(s, r)
            /\ r.tm.status = s.tm.status /\ r.tm.ts = "inprogress"
BY DEF announce, TransferStates, TmRec, SameTransfer, Results

\* The connection of a site that waits for the passive side
LEMMA LockedPart ==
  ASSUME NEW r \in TransferStates, NEW x \in Sides, IsSite(r, x), r.tm.status = "AWAITING_PASSIVE", r.tm.pasv # x,
         r.conn[x].link = "up", r.conn[x].hold = "locked", r.conn[x].cmd \in Early \cup {"none"}
  PROVE  ConnGood(r, x)
<1>1. Live(r, x) /\ r.tm.status # Done(Other(x)) /\ r.tm.status # Err(Other(x))
  BY UnreportedLive DEF Awaiting
<1>2. (r.tm.pasv = x) = FALSE
  OBVIOUS
<1>3. TakesPart(r.conn[x], "AWAITING_PASSIVE", FALSE, x)
  BY <1>1 DEF TakesPart
<1> QED
  BY <1>1, <1>2, <1>3 DEF ConnGood

\* An engaged transfer that no side has reported on
Fresh(s) ==
  /\ s \in TransferStates /\ ~s.tm.asserted
  /\ s.tm.type = "UPLOAD" => s.tm.pasv = "dst"
  /\ s.lt = "none" /\ \A x \in Sides : s.rep[x] = "none"

Published(s) == s.tm.ts = IF s.tm.type = "LIST" THEN "none" ELSE "inprogress"

\* Sending a site's connection back
Back(q, x) == IF IsSite(q, x) THEN Return(q, x) ELSE q

LEMMA BackShape ==
  ASSUME NEW q \in TransferStates, NEW x \in Sides, ~IsSite(q, x) => Resting(q.conn[x])
  PROVE  LET r == Back(q, x) IN ConnChanged(q, r, x) /\ Resting(r.conn[x])
<1>1. ConnChanged(q, q, x)
  BY DEF ConnChanged
<1>2. LET r == Return(q, x) IN ConnChanged(q, r, x) /\ r.conn[x].hold = "free" /\ r.conn[x].cmd \in {"none", "other"}
  BY ReturnShape
<1>3. LET r == Return(q, x) IN ConnChanged(q, r, x) /\ Resting(r.conn[x])
  BY <1>2 DEF Resting
<1> QED
  BY <1>1, <1>3 DEF Back

LEMMA LateFailureGood ==
  ASSUME NEW s, NEW ts \in {"failed", "dupe"}, Fresh(s), s.tm.type # "LIST",
         \A x \in Sides : ~IsSite(s, x) => Resting(s.conn[x])
  PROVE  GoodBut(lateFailure(s, ts), {})
<1> DEFINE u == [s EXCEPT !.tm.ts = ts, !.tm.status = "IDLE"]
           a == Back(u, "src")
           r == Back(a, "dst")
<1>1. lateFailure(s, ts) = r
  BY DEF lateFailure, Back
<1>2. /\ u \in TransferStates /\ u.conn = s.conn /\ u.lt = s.lt /\ u.rep = s.rep /\ SameTransfer(s, u)
      /\ u.tm.status = "IDLE" /\ u.tm.ts = ts
  BY DEF Fresh, TransferStates, TmRec, SameTransfer, Results, Statuses
<1>3. /\ \A y : IsSite(u, y) <=> IsSite(s, y)
  BY <1>2, SameKind DEF SameTransfer
<1>4. "src" \in Sides /\ "dst" \in Sides /\ Other("src") = "dst" /\ Other("dst") = "src" /\ Sides = {"src", "dst"}
  BY DEF Sides, Other
<1> HIDE DEF u
<1>5. \A y \in Sides : ~IsSite(u, y) => Resting(u.conn[y])
  BY <1>2, <1>3
<1>6. ConnChanged(u, a, "src") /\ Resting(a.conn["src"])
  BY <1>2, <1>4, <1>5, BackShape
<1> HIDE DEF a
<1>7. a \in TransferStates /\ a.tm = u.tm /\ a.conn["dst"] = u.conn["dst"] /\ a.lt = u.lt /\ a.rep = u.rep
  BY <1>4, <1>6 DEF ConnChanged
<1>8. ~IsSite(a, "dst") => Resting(a.conn["dst"])
  BY <1>4, <1>5, <1>7, SameKind
<1>9. ConnChanged(a, r, "dst") /\ Resting(r.conn["dst"])
  BY <1>4, <1>7, <1>8, BackShape
<1> HIDE DEF r
<1>10. r \in TransferStates /\ r.tm = u.tm /\ r.conn["src"] = a.conn["src"] /\ r.lt = u.lt /\ r.rep = u.rep
  BY <1>4, <1>7, <1>9 DEF ConnChanged
<1>11. \A y \in Sides : Resting(r.conn[y])
  BY <1>4, <1>6, <1>9, <1>10
<1>12. ReportsGood(r)
  <2>1. \A x \in Sides : r.rep[x] = "none"
    BY <1>2, <1>10 DEF Fresh
  <2>2. r.tm.type # "LIST" /\ r.tm.ts \in {"none", "failed", "dupe"} /\ r.tm.status = "IDLE"
    BY <1>2, <1>10 DEF SameTransfer
  <2> QED
    BY <1>10, <2>1, <2>2, IdleReports
<1>13. SameTransfer(s, r) /\ r.lt = "none" /\ r.tm.status = "IDLE"
  BY <1>2, <1>10 DEF SameTransfer, Fresh
<1> DEFINE Y == {}
<1>14. Y \in SUBSET Sides /\ (HasLocal(s) => Local(s) \notin Y) /\ s \in TransferStates
       /\ (\A y \in Sides : y \notin Y \/ ~IsSite(s, y) => Resting(r.conn[y]))
       /\ ~s.tm.asserted /\ (s.tm.type = "UPLOAD" => s.tm.pasv = "dst")
  BY <1>11 DEF Fresh
<1> HIDE DEF Y
<1>15. GoodBut(r, Y)
  BY <1>10, <1>12, <1>13, <1>14, Ended
<1> QED
  BY <1>1, <1>15 DEF Y

\* A transfer between a site and this host begins.
LEMMA LocalEngaged ==
  ASSUME NEW b, NEW x \in Sides, NEW p \in Sides, NEW k \in Needs, Fresh(b), Published(b),
         HasLocal(b), x # Local(b), b.tm.status = "AWAITING_PASSIVE", b.tm.pasv = p,
         b.conn[x].link = "up", b.conn[x].hold = (IF b.tm.type = "LIST" THEN "free" ELSE "locked"),
         b.conn[x].cmd \in Early \cup {"none"}, Resting(b.conn[Local(b)])
  PROVE  /\ p = x => GoodBut([prepare(b, x, k) EXCEPT !.lt = "reserved"], {})
         /\ p # x => GoodBut([passiveReady(b, k) EXCEPT !.lt = "listening"], {})
<1> DEFINE o == Other(x)
           v == [b EXCEPT !.tm.status = "AWAITING_ACTIVE"]
           st == IF p = x THEN "AWAITING_PASSIVE" ELSE "AWAITING_ACTIVE"
           u == IF p = x THEN b ELSE v
           l == IF p = x THEN "reserved" ELSE "listening"
           q == prepare(u, x, k)
           r == [q EXCEPT !.lt = l]
<1>1. b \in TransferStates /\ o \in Sides /\ o # x /\ Other(o) = x /\ Sides = {x, o}
  BY SideFacts DEF Fresh
<1>2. Local(b) = o /\ IsSite(b, x) /\ ~IsSite(b, o)
  BY <1>1, LocalFacts
<1>3. /\ v \in TransferStates /\ v.conn = b.conn /\ v.lt = b.lt /\ v.rep = b.rep /\ SameTransfer(b, v)
      /\ v.tm.status = "AWAITING_ACTIVE" /\ v.tm.ts = b.tm.ts
  <2>1. "AWAITING_ACTIVE" \in Statuses /\ "OTHER" \in Errors
    BY DEF Statuses, Awaiting, Errors
  <2> QED
    BY <1>1, <2>1, StatusShape
<1> HIDE DEF v
<1>4. /\ u \in TransferStates /\ u.conn = b.conn /\ u.lt = b.lt /\ u.rep = b.rep /\ SameTransfer(b, u)
      /\ u.tm.status = st /\ u.tm.ts = b.tm.ts
  BY <1>1, <1>3 DEF SameTransfer
<1>5. /\ p = x => u = b
      /\ p # x => u = v
  OBVIOUS
<1> HIDE DEF u
<1>6. /\ \A y : IsSite(u, y) <=> IsSite(b, y)
      /\ HasLocal(u) <=> HasLocal(b)
      /\ Local(u) = Local(b)
  BY <1>4, SameKind DEF SameTransfer
<1>7. Turn(u, x)
  BY <1>4 DEF Turn, SameTransfer
<1>8. u.conn[x].link = "up" /\ u.conn[x].hold = (IF u.tm.type = "LIST" THEN "free" ELSE "locked")
      /\ u.conn[x].cmd \in Early \cup {"none"}
  BY <1>4 DEF SameTransfer
<1>9. ConnChanged(u, q, x) /\ q.conn[x].link = "up" /\ Busy(q.conn[x], u.tm.pasv = x)
  BY <1>4, <1>7, <1>8, PrepareShape
<1>10. /\ p = x => prepare(b, x, k) = q
       /\ p # x => passiveReady(b, k) = q
  <2>1. CASE p = x
    BY <1>5, <2>1
  <2>2. CASE p # x
    <3>1. Other(b.tm.pasv) = x /\ ~WillFail(b)
      BY <1>1, <2>2 DEF WillFail, Erring
    <3>2. passiveReady(b, k) = prepare(v, x, k)
      BY <1>2, <3>1 DEF passiveReady, v
    <3> QED
      BY <1>5, <2>2, <3>2
  <2> QED
    BY <2>1, <2>2
<1> HIDE DEF q
<1>11. q \in TransferStates /\ q.tm = u.tm /\ q.conn[o] = u.conn[o] /\ q.rep = u.rep /\ l \in LtStates
  BY <1>9 DEF ConnChanged, LtStates
<1> HIDE DEF l
<1>12. r \in TransferStates /\ r.tm = u.tm /\ r.lt = l /\ r.rep = u.rep /\ r.conn = q.conn
  BY <1>11, SocketShape
<1> HIDE DEF r
<1>13. /\ \A y : IsSite(r, y) <=> IsSite(b, y)
       /\ HasLocal(r) /\ Local(r) = o
       /\ Turn(r, x)
  BY <1>2, <1>6, <1>7, <1>12, SameKind DEF Turn
<1>14. ConnGood(r, x)
  BY <1>2, <1>9, <1>12, <1>13, TakesItsTurn
<1>15. ConnGood(r, o)
  <2>1. Resting(r.conn[o])
    BY <1>2, <1>4, <1>11, <1>12
  <2> QED
    BY <1>2, <1>13, <2>1 DEF ConnGood
<1>16. r.tm.status = st /\ r.tm.pasv = p /\ r.tm.ts = b.tm.ts /\ r.tm.type = b.tm.type /\ ~r.tm.asserted
       /\ (r.tm.type = "UPLOAD" => r.tm.pasv = "dst") /\ \A y \in Sides : r.rep[y] = "none"
  BY <1>4, <1>12 DEF SameTransfer, Fresh
<1>17. ReportsGood(r)
  BY <1>12, <1>16, UnreportedGood DEF Published, Awaiting
<1>18. SocketGood(r)
  <2>1. Live(r, o)
    BY <1>1, <1>12, <1>16, UnreportedLive DEF Awaiting
  <2>2. CASE p = x
    <3>1. r.lt = "reserved" /\ r.tm.status = "AWAITING_PASSIVE" /\ r.tm.pasv # o
      BY <1>1, <1>12, <1>16, <2>2 DEF l
    <3> QED
      BY <1>13, <2>1, <3>1 DEF SocketGood
  <2>3. CASE p # x
    <3>1. r.lt = "listening" /\ r.tm.status = "AWAITING_ACTIVE" /\ r.tm.pasv = o
      BY <1>1, <1>12, <1>16, <2>3 DEF l
    <3> QED
      BY <1>13, <2>1, <3>1 DEF SocketGood
  <2> QED
    BY <2>2, <2>3
<1>19. r.lt # "open"
  BY <1>12 DEF l
<1>20. GoodBut(r, {})
  BY <1>12, <1>13, <1>14, <1>15, <1>16, <1>17, <1>18, <1>19, Assemble DEF o
<1> QED
  BY <1>10, <1>20 DEF r, l

\* A transfer between two sites begins.
LEMMA SitesEngaged ==
  ASSUME NEW b, NEW p \in Sides, NEW k \in Needs, Fresh(b), Published(b),
         b.tm.type = "FXP", b.tm.status = "AWAITING_PASSIVE", b.tm.pasv = p,
         \A x \in Sides : b.conn[x].link = "up" /\ b.conn[x].hold = "locked" /\ b.conn[x].cmd \in Early \cup {"none"}
  PROVE  GoodBut(prepare(b, p, k), {})
<1> DEFINE o == Other(p)
           r == prepare(b, p, k)
<1>1. b \in TransferStates /\ o \in Sides /\ o # p /\ Other(o) = p /\ Sides = {p, o}
  BY SideFacts DEF Fresh
<1>2. Turn(b, p)
  BY DEF Turn
<1>3. ConnChanged(b, r, p) /\ r.conn[p].link = "up" /\ Busy(r.conn[p], b.tm.pasv = p)
  BY <1>1, <1>2, PrepareShape
<1> HIDE DEF r
<1>4. r \in TransferStates /\ r.tm = b.tm /\ r.lt = b.lt /\ r.rep = b.rep /\ r.conn[o] = b.conn[o]
  BY <1>3 DEF ConnChanged
<1>5. IsSite(r, p) /\ IsSite(r, o) /\ ~HasLocal(r) /\ Turn(r, p)
  BY <1>2, <1>4 DEF IsSite, HasLocal, Turn
<1>6. ConnGood(r, p)
  BY <1>3, <1>4, <1>5, TakesItsTurn
<1>7. ConnGood(r, o)
  BY <1>1, <1>4, <1>5, LockedPart
<1>8. ReportsGood(r)
  BY <1>4, UnreportedGood DEF Published, Fresh, Awaiting
<1>9. r.lt = "none" /\ ~r.tm.asserted /\ (r.tm.type = "UPLOAD" => r.tm.pasv = "dst")
  BY <1>4 DEF Fresh
<1>10. GoodBut(r, {})
  BY <1>4, <1>5, <1>6, <1>7, <1>8, <1>9, Assemble DEF o
<1> QED
  BY <1>10 DEF r

(***************************************************************************)
(* The local data socket.                                                  *)
(***************************************************************************)
\* A server connects to the socket that listens.
LEMMA ListenerOpens ==
  ASSUME NEW s, GoodBut(s, {}), s.lt = "listening", s.conn[Other(Local(s))].cmd \in {"xfer", "data"}
  PROVE  GoodBut([s EXCEPT !.lt = "open"], {})
<1> DEFINE l == Local(s)
           o == Other(l)
           r == [s EXCEPT !.lt = "open"]
<1>1. s \in TransferStates /\ "open" \in LtStates /\ HasLocal(s)
  BY DEF GoodBut, LtStates
<1>2. l \in Sides /\ o \in Sides /\ Other(o) = l /\ o # l /\ ~IsSite(s, l) /\ IsSite(s, o)
  BY <1>1, HostSide
<1>3. r \in TransferStates /\ r.tm = s.tm /\ r.lt = "open" /\ r.rep = s.rep /\ r.conn = s.conn
  BY <1>1, SocketShape
<1> HIDE DEF l, r
<1>4. /\ \A y : IsSite(r, y) <=> IsSite(s, y)
      /\ HasLocal(r) /\ Local(r) = l
  BY <1>1, <1>3, SameKind DEF l
<1>5. ConnGood(r, l) /\ ConnGood(r, o)
  <2>1. ConnGood(s, l) /\ ConnGood(s, o)
    BY <1>2 DEF GoodBut
  <2> QED
    BY <1>3, <1>4, <2>1 DEF ConnGood, Live
<1>6. SocketGood(s)
  BY <1>1, SocketStatus
<1>7. Live(s, l) /\ s.tm.pasv = l /\ s.tm.status \notin {"IDLE", "AWAITING_PASSIVE"}
  BY <1>6 DEF SocketGood, l
<1>8. SocketGood(r)
  <2>1. Live(r, l) /\ r.tm.pasv = l /\ r.tm.status \notin {"IDLE", "AWAITING_PASSIVE"}
    BY <1>3, <1>7 DEF Live
  <2> QED
    BY <1>3, <1>4, <2>1 DEF SocketGood
<1>9. s.tm.status = "AWAITING_ACTIVE" => s.conn[o].cmd = "xfer"
  <2>1. SUFFICES ASSUME s.tm.status = "AWAITING_ACTIVE", s.conn[o].cmd = "data" PROVE FALSE
    BY DEF l
  <2>2. Live(s, o) /\ s.tm.status # Done(Other(o)) /\ s.tm.status # Err(Other(o))
    BY <1>1, <1>2, <2>1, UnreportedLive DEF Awaiting
  <2>3. s.tm.status \in {"TRANSFERRING", Done(Other(o)), Err(Other(o))}
    BY <1>2, <2>1, <2>2, BusyStatus
  <2> QED
    BY <2>1, <2>2, <2>3
<1>10. ReportsGood(r) /\ ~r.tm.asserted /\ (r.tm.type = "UPLOAD" => r.tm.pasv = "dst")
  BY <1>3 DEF ReportsGood, GoodBut
<1>11. GoodBut(r, {})
  BY <1>2, <1>3, <1>4, <1>5, <1>8, <1>9, <1>10, Assemble
<1> QED
  BY <1>11 DEF r

\* This host has connected: the transfer has started, unless the site failed.
LEMMA ConnectorOpens ==
  ASSUME NEW s, GoodBut(s, {}), s.lt = "connecting"
  PROVE  GoodBut(activeStarted([s EXCEPT !.lt = "open"]), {})
<1> DEFINE l == Local(s)
           o == Other(l)
           a == [s EXCEPT !.lt = "open"]
           u == [a EXCEPT !.tm.status = "TRANSFERRING"]
<1>1. s \in TransferStates /\ "open" \in LtStates /\ HasLocal(s) /\ "xfer" \in Cmds
  BY DEF GoodBut, LtStates, Cmds
<1>2. l \in Sides /\ o \in Sides /\ Other(o) = l /\ o # l /\ ~IsSite(s, l) /\ IsSite(s, o) /\ Sides = {o, l}
  BY <1>1, HostSide
<1>3. a \in TransferStates /\ a.tm = s.tm /\ a.lt = "open" /\ a.rep = s.rep /\ a.conn = s.conn
  BY <1>1, SocketShape
<1> HIDE DEF l, a
<1>4. /\ \A y : IsSite(a, y) <=> IsSite(s, y)
      /\ HasLocal(a) /\ Local(a) = l
  BY <1>1, <1>3, SameKind DEF l
<1>5. SocketGood(s)
  BY <1>1, SocketStatus
<1>6. Live(s, l) /\ s.tm.pasv # l /\ s.tm.status \in {"AWAITING_ACTIVE", Err(o)} /\ s.tm.status # "IDLE"
  BY <1>5 DEF SocketGood, l
<1>7. s.tm.pasv = o
  BY <1>1, <1>2, <1>6, Fields
<1>8. ConnGood(s, l) /\ ConnGood(s, o)
  BY <1>2 DEF GoodBut
<1>9. Err(o) \in Erring /\ "AWAITING_ACTIVE" \notin Erring /\ "AWAITING_ACTIVE" # "TARGET_COMPLETE"
      /\ Err(o) # "AWAITING_PASSIVE" /\ Err(o) # "AWAITING_ACTIVE" /\ Err(o) # "IDLE"
  BY DEF Err, Erring
<1>10. ReportsGood(a) /\ ~a.tm.asserted /\ (a.tm.type = "UPLOAD" => a.tm.pasv = "dst")
  BY <1>3 DEF ReportsGood, GoodBut
<1>11. CASE s.tm.status = Err(o)
  <2>1. activeStarted(a) = a
    BY <1>3, <1>9, <1>11 DEF activeStarted
  <2>2. ConnGood(a, l) /\ ConnGood(a, o)
    BY <1>3, <1>4, <1>8 DEF ConnGood, Live
  <2>3. SocketGood(a)
    <3>1. Live(a, l) /\ a.tm.status \notin {"IDLE", "AWAITING_PASSIVE", "AWAITING_ACTIVE"}
      BY <1>3, <1>6, <1>9, <1>11 DEF Live
    <3> QED
      BY <1>3, <1>4, <3>1 DEF SocketGood
  <2>4. a.tm.status # "AWAITING_ACTIVE"
    BY <1>3, <1>9, <1>11
  <2>5. GoodBut(a, {})
    BY <1>2, <1>3, <1>4, <1>10, <2>2, <2>3, <2>4, Assemble
  <2> QED
    BY <2>1, <2>5 DEF a
<1>12. CASE s.tm.status = "AWAITING_ACTIVE"
  <2> DEFINE r == Send(u, o, "xfer")
  <2>1. a.tm.status \in Awaiting \cup {"TRANSFERRING"} /\ "TRANSFERRING" \in Awaiting \cup {"TRANSFERRING"}
    BY <1>3, <1>12 DEF Awaiting
  <2>2. /\ u \in TransferStates /\ u.conn = a.conn /\ u.lt = a.lt /\ u.rep = a.rep /\ SameTransfer(a, u)
        /\ u.tm.status = "TRANSFERRING" /\ u.tm.ts = a.tm.ts
        /\ ReportsGood(u)
    BY <1>3, <1>10, <2>1, AdvanceShape
  <2>3. activeStarted(a) = IF IsSite(a, o) THEN startCommand(u, o) ELSE u
    BY <1>3, <1>7, <1>9, <1>12 DEF activeStarted
  <2> HIDE DEF u
  <2>4. s.conn[o].hold = "init" /\ s.conn[o].link = "up"
    <3>1. Live(s, o)
      BY <1>1, <1>2, <1>3, <2>1, UnreportedLive
    <3>2. TakesPart(s.conn[o], s.tm.status, s.tm.pasv = o, o)
      BY <1>2, <3>1, Holder
    <3>3. (s.tm.pasv = o) = TRUE
      BY <1>7
    <3>4. TakesPart(s.conn[o], "AWAITING_ACTIVE", TRUE, o)
      BY <1>12, <3>2, <3>3
    <3> QED
      BY <3>4 DEF TakesPart
  <2>5. activeStarted(a) = r
    BY <1>2, <1>3, <1>4, <2>2, <2>3, <2>4 DEF startCommand
  <2>6. ConnChanged(u, r, o) /\ r.conn[o].hold = "init" /\ r.conn[o].link = "up" /\ r.conn[o].cmd = "xfer"
    BY <1>1, <1>2, <1>3, <2>2, <2>4, SendShape
  <2> HIDE DEF r
  <2>7. r \in TransferStates /\ r.tm = u.tm /\ r.lt = "open" /\ r.rep = u.rep /\ r.conn[l] = s.conn[l]
    BY <1>2, <1>3, <2>2, <2>6 DEF ConnChanged
  <2>8. r.tm.status = "TRANSFERRING" /\ r.tm.pasv = o /\ r.tm.type = s.tm.type /\ ~r.tm.asserted
        /\ (r.tm.type = "UPLOAD" => r.tm.pasv = "dst")
    BY <1>3, <1>7, <1>10, <2>2, <2>7 DEF SameTransfer
  <2>9. /\ \A y : IsSite(r, y) <=> IsSite(s, y)
        /\ HasLocal(r) /\ Local(r) = l
    BY <1>1, <2>8, SameKind DEF l
  <2>10. ConnGood(r, o)
    BY <1>2, <2>6, <2>7, <2>8, <2>9, DataPart
  <2>11. ConnGood(r, l)
    <3>1. Resting(s.conn[l])
      BY <1>2, <1>8 DEF ConnGood
    <3> QED
      BY <1>2, <2>7, <2>9, <3>1 DEF ConnGood
  <2>12. SocketGood(r)
    <3>1. Live(r, l)
      BY <1>2, <2>7, <2>8, UnreportedLive
    <3> QED
      BY <2>7, <2>8, <2>9, <3>1 DEF SocketGood
  <2>13. ReportsGood(r)
    BY <2>2, <2>7 DEF ReportsGood
  <2>14. GoodBut(r, {})
    BY <1>2, <2>7, <2>8, <2>9, <2>10, <2>11, <2>12, <2>13, Assemble
  <2> QED
    BY <2>5, <2>14 DEF a
<1> QED
  BY <1>6, <1>11, <1>12

\* The data socket closes, in good order or with an error.
LEMMA SocketEnds ==
  ASSUME NEW s, GoodBut(s, {}), s.lt \in {"listening", "connecting", "open"}
  PROVE  LET r == [s EXCEPT !.lt = "closed"]
         IN /\ Local(s) \in Sides /\ ~IsSite(r, Local(s)) /\ Live(r, Local(s)) /\ HasLocal(s)
            /\ GoodBut(r, {Local(s)}) /\ r.tm = s.tm /\ r.conn = s.conn
<1> DEFINE l == Local(s)
           r == [s EXCEPT !.lt = "closed"]
           X == {}
<1>1. s \in TransferStates /\ HasLocal(s)
  BY DEF GoodBut
<1>2. l \in Sides /\ ~IsSite(s, l)
  BY <1>1, HostSide
<1>3. SocketGood(s)
  BY <1>1, SocketStatus
<1>4. Live(s, l)
  BY <1>3 DEF SocketGood
<1>5. X \in SUBSET Sides /\ GoodBut(s, X) /\ X \cup {l} = {l}
  OBVIOUS
<1> HIDE DEF X, l
<1>6. GoodBut(r, X \cup {Local(s)}) /\ r.tm = s.tm /\ r.conn = s.conn
  BY <1>1, <1>5, SocketCloses
<1> HIDE DEF r
<1>7. GoodBut(r, {l})
  BY <1>5, <1>6 DEF l
<1> QED
  BY <1>1, <1>2, <1>4, <1>6, <1>7, SameKind DEF Live, l, r

LEMMA SocketFails ==
  ASSUME NEW s, GoodBut(s, {}), s.lt \in {"listening", "connecting", "open"}
  PROVE  GoodBut(sideError([s EXCEPT !.lt = "closed"], Local(s), "OTHER"), {})
<1> DEFINE l == Local(s)
           r == [s EXCEPT !.lt = "closed"]
<1>1. l \in Sides /\ ~IsSite(r, l) /\ Live(r, l) /\ GoodBut(r, {l}) /\ "OTHER" \in Errors
  BY SocketEnds DEF Errors
<1> HIDE DEF l, r
<1>2. GoodBut(sideError(r, l, "OTHER"), {})
  BY <1>1, SideErrorGood
<1> QED
  BY <1>2 DEF l, r

LEMMA SocketCompletes ==
  ASSUME NEW s, GoodBut(s, {}), s.lt = "open"
  PROVE  GoodBut(sideComplete([s EXCEPT !.lt = "closed"], Local(s)), {})
<1> DEFINE l == Local(s)
           r == [s EXCEPT !.lt = "closed"]
<1>1. l \in Sides /\ ~IsSite(r, l) /\ Live(r, l) /\ GoodBut(r, {l}) /\ HasLocal(s) /\ r.tm = s.tm /\ r.conn = s.conn
  BY SocketEnds
<1>2. SocketGood(s) /\ s \in TransferStates
  BY <1>1, SocketStatus DEF GoodBut
<1>3. Other(l) \in Sides /\ Other(l) # l /\ Other(Other(l)) = l
  BY <1>1, SideFacts
<1>4. s.tm.status \in {"TRANSFERRING", "AWAITING_ACTIVE", Done(Other(l)), Err(Other(l))}
  <2>1. s.tm.status # "AWAITING_PASSIVE"
    BY <1>2 DEF SocketGood
  <2> QED
    BY <1>1, <1>2, <2>1, StatusFacts DEF Live, Awaiting
<1>5. s.tm.status = "AWAITING_ACTIVE" => l = "dst" /\ s.conn["src"].cmd = "xfer"
  <2>1. SUFFICES ASSUME s.tm.status = "AWAITING_ACTIVE" PROVE l = "dst" /\ s.conn["src"].cmd = "xfer"
    OBVIOUS
  <2>2. s.tm.pasv = l
    BY <1>2, <2>1 DEF SocketGood
  <2>3. l = "dst" /\ Other(l) = "src"
    BY <2>2 DEF Local, GoodBut, Other
  <2>4. s.conn[Other(l)].cmd = "xfer"
    BY <1>1, <2>1 DEF GoodBut
  <2> QED
    BY <2>3, <2>4
<1> HIDE DEF l, r
<1>6. GoodBut(sideComplete(r, l), {})
  BY <1>1, <1>4, <1>5, CompleteReportGood
<1> QED
  BY <1>6 DEF l, r

(***************************************************************************)
(* The actions.                                                            *)
(***************************************************************************)
LEMMA Whole ==
  ASSUME NEW r, GoodBut(r, {})
  PROVE  r = [tm |-> r.tm, conn |-> r.conn, lt |-> r.lt, rep |-> r.rep]
BY DEF GoodBut, TransferStates

LEMMA BecomeGood ==
  ASSUME NEW STATE r, GoodBut(r, {}), Become(r)
  PROVE  TransferStrong'
<1>1. r = [tm |-> r.tm, conn |-> r.conn, lt |-> r.lt, rep |-> r.rep]
  BY Whole
<1>2. tm' = r.tm /\ conn' = r.conn /\ lt' = r.lt /\ rep' = r.rep
  BY DEF Become
<1>3. State' = r
  BY <1>1, <1>2 DEF State
<1> QED
  BY <1>3 DEF TransferStrong

LEMMA StateFields ==
  State.tm = tm /\ State.conn = conn /\ State.lt = lt /\ State.rep = rep
BY DEF State

LEMMA LocalCompleteGood ==
  ASSUME TransferStrong, LocalComplete
  PROVE  TransferStrong'
<1>1. GoodBut(State, {}) /\ State.lt = "open" /\ LocalSide = Local(State)
  BY StateFields DEF TransferStrong, LocalComplete, LocalSide, Local
<1>2. GoodBut(sideComplete([State EXCEPT !.lt = "closed"], Local(State)), {})
  BY <1>1, SocketCompletes
<1>3. Become(sideComplete([State EXCEPT !.lt = "closed"], Local(State)))
  BY <1>1 DEF LocalComplete
<1> QED
  BY <1>2, <1>3, BecomeGood

LEMMA LocalErrorGood ==
  ASSUME TransferStrong, LocalError
  PROVE  TransferStrong'
<1>1. GoodBut(State, {}) /\ State.lt \in {"listening", "connecting", "open"} /\ LocalSide = Local(State)
  BY StateFields DEF TransferStrong, LocalError, LocalSide, Local
<1>2. GoodBut(sideError([State EXCEPT !.lt = "closed"], Local(State), "OTHER"), {})
  BY <1>1, SocketFails
<1>3. Become(sideError([State EXCEPT !.lt = "closed"], Local(State), "OTHER"))
  BY <1>1 DEF LocalError
<1> QED
  BY <1>2, <1>3, BecomeGood

LEMMA FDInterNewGood ==
  ASSUME TransferStrong, FDInterNew
  PROVE  TransferStrong'
<1>1. GoodBut(State, {}) /\ State.lt = "listening" /\ LocalSide = Local(State)
  BY StateFields DEF TransferStrong, FDInterNew, LocalSide, Local
<1>2. State.conn[Other(Local(State))].cmd \in {"xfer", "data"}
  BY <1>1, StateFields DEF FDInterNew
<1>3. GoodBut([State EXCEPT !.lt = "open"], {})
  BY <1>1, <1>2, ListenerOpens
<1>4. Become([State EXCEPT !.lt = "open"])
  BY DEF FDInterNew
<1> QED
  BY <1>3, <1>4, BecomeGood

LEMMA FDInterConnectedGood ==
  ASSUME TransferStrong, FDInterConnected
  PROVE  TransferStrong'
<1>1. GoodBut(State, {}) /\ State.lt = "connecting"
  BY StateFields DEF TransferStrong, FDInterConnected
<1>2. GoodBut(activeStarted([State EXCEPT !.lt = "open"]), {})
  BY <1>1, ConnectorOpens
<1>3. Become(activeStarted([State EXCEPT !.lt = "open"]))
  BY DEF FDInterConnected
<1> QED
  BY <1>2, <1>3, BecomeGood

\* The ticks and the abort
LEMMA DeadTransferGood ==
  ASSUME TransferStrong, checkForDeadFXPTransfers
  PROVE  TransferStrong'
<1>1. GoodBut(State, {})
  BY DEF TransferStrong
<1>2. CASE Become(closeRemainingConnections(State))
  <2>1. GoodBut(closeRemainingConnections(State), {})
    BY <1>1, CloseRemainingGood
  <2> QED
    BY <1>2, <2>1, BecomeGood
<1>3. CASE tm.type = "FXP" /\ tm.status = "TARGET_COMPLETE" /\ Become(finishTransferGracefullyPrematurely(State))
  <2>1. GoodBut(finishTransferGracefullyPrematurely(State), {})
    BY <1>1, <1>3, StateFields, FinishPrematurelyGood
  <2> QED
    BY <1>3, <2>1, BecomeGood
<1> QED
  BY <1>2, <1>3 DEF checkForDeadFXPTransfers

\* Neither the timeout nor an abort changes more than what is published.
LEMMA MarkedGood ==
  ASSUME NEW s, GoodBut(s, {})
  PROVE  /\ GoodBut([s EXCEPT !.tm.timeout = TRUE], {})
         /\ s.tm.type # "LIST" => GoodBut([s EXCEPT !.tm.ts = "aborted"], {})
<1>1. s \in TransferStates
  BY DEF GoodBut
<1>2. ASSUME NEW r \in TransferStates, r.conn = s.conn, r.lt = s.lt, r.rep = s.rep,
             r.tm.status = s.tm.status, r.tm.type = s.tm.type, r.tm.pasv = s.tm.pasv,
             r.tm.asserted = s.tm.asserted, r.tm.mark = s.tm.mark,
             r.tm.ts = s.tm.ts \/ (r.tm.ts = "aborted" /\ s.tm.type # "LIST")
      PROVE  GoodBut(r, {})
  <2>1. /\ \A y : IsSite(r, y) <=> IsSite(s, y)
        /\ HasLocal(r) <=> HasLocal(s)
        /\ Local(r) = Local(s)
    BY <1>2, SameKind
  <2>2. "src" \in Sides /\ Other("src") \in Sides /\ ConnGood(s, "src") /\ ConnGood(s, Other("src"))
    BY DEF Sides, Other, GoodBut
  <2>3. ConnGood(r, "src") /\ ConnGood(r, Other("src"))
    BY <1>2, <2>1, <2>2 DEF ConnGood, Live
  <2>4. HasLocal(r) => SocketGood(r)
    <3>1. HasLocal(s) => SocketGood(s)
      BY SocketStatus
    <3> QED
      BY <1>2, <2>1, <3>1 DEF SocketGood, Live
  <2>5. ReportsGood(r)
    <3>1. ReportsGood(s)
      BY DEF GoodBut
    <3> QED
      BY <1>2, <3>1 DEF ReportsGood
  <2>6. ~r.tm.asserted /\ (r.tm.type = "UPLOAD" => r.tm.pasv = "dst") /\ (~HasLocal(r) => r.lt = "none")
        /\ (HasLocal(r) /\ r.lt = "open" /\ r.tm.status = "AWAITING_ACTIVE" => r.conn[Other(Local(r))].cmd = "xfer")
    BY <1>2, <2>1 DEF GoodBut
  <2> QED
    BY <1>2, <2>2, <2>3, <2>4, <2>5, <2>6, Assemble
<1>3. GoodBut([s EXCEPT !.tm.timeout = TRUE], {})
  <2> DEFINE r == [s EXCEPT !.tm.timeout = TRUE]
  <2>1. /\ r \in TransferStates /\ r.conn = s.conn /\ r.lt = s.lt /\ r.rep = s.rep
        /\ r.tm.status = s.tm.status /\ r.tm.type = s.tm.type /\ r.tm.pasv = s.tm.pasv
        /\ r.tm.asserted = s.tm.asserted /\ r.tm.mark = s.tm.mark /\ r.tm.ts = s.tm.ts
    BY <1>1 DEF TransferStates, TmRec
  <2> HIDE DEF r
  <2>2. GoodBut(r, {})
    BY <1>2, <2>1
  <2> QED
    BY <2>2 DEF r
<1>4. s.tm.type # "LIST" => GoodBut([s EXCEPT !.tm.ts = "aborted"], {})
  <2> DEFINE r == [s EXCEPT !.tm.ts = "aborted"]
  <2>1. /\ r \in TransferStates /\ r.conn = s.conn /\ r.lt = s.lt /\ r.rep = s.rep
        /\ r.tm.status = s.tm.status /\ r.tm.type = s.tm.type /\ r.tm.pasv = s.tm.pasv
        /\ r.tm.asserted = s.tm.asserted /\ r.tm.mark = s.tm.mark /\ r.tm.ts = "aborted"
    BY <1>1 DEF TransferStates, TmRec, Results
  <2> HIDE DEF r
  <2>2. s.tm.type # "LIST" => GoodBut(r, {})
    BY <1>2, <2>1
  <2> QED
    BY <2>2 DEF r
<1> QED
  BY <1>3, <1>4

LEMMA MaxTransferTimeGood ==
  ASSUME TransferStrong, checkMaxTransferTime
  PROVE  TransferStrong'
<1>1. GoodBut(State, {})
  BY DEF TransferStrong
<1>2. GoodBut(closeRemainingConnections(State), {})
  BY <1>1, CloseRemainingGood
<1>3. GoodBut([closeRemainingConnections(State) EXCEPT !.tm.timeout = TRUE], {})
  BY <1>2, MarkedGood
<1>4. Become([closeRemainingConnections(State) EXCEPT !.tm.timeout = TRUE])
  BY DEF checkMaxTransferTime
<1> QED
  BY <1>3, <1>4, BecomeGood

LEMMA AbortGood ==
  ASSUME TransferStrong, abortTransfer
  PROVE  TransferStrong'
<1>1. GoodBut(State, {})
  BY DEF TransferStrong
<1>2. GoodBut(closeRemainingConnections(State), {}) /\ SameTransfer(State, closeRemainingConnections(State))
  BY <1>1, CloseRemainingGood
<1>3. closeRemainingConnections(State).tm.type # "LIST"
  BY <1>2, StateFields DEF abortTransfer, SameTransfer
<1>4. GoodBut([closeRemainingConnections(State) EXCEPT !.tm.ts = "aborted"], {})
  BY <1>2, <1>3, MarkedGood
<1>5. Become([closeRemainingConnections(State) EXCEPT !.tm.ts = "aborted"])
  BY DEF abortTransfer
<1> QED
  BY <1>4, <1>5, BecomeGood

\* Events of a connection that takes no part in the transfer
LEMMA LinkGood ==
  ASSUME NEW s, NEW x \in Sides, NEW l \in Links, GoodBut(s, {}), s.conn[x].link # "up"
  PROVE  GoodBut([s EXCEPT !.conn[x].link = l], {})
<1> DEFINE r == [s EXCEPT !.conn[x].link = l]
           X == {}
<1>1. ~(IsSite(s, x) /\ Live(s, x)) /\ Resting(s.conn[x]) /\ s \in TransferStates
  BY Holder DEF GoodBut
<1>2. ConnChanged(s, r, x) /\ r.conn[x].hold = s.conn[x].hold /\ r.conn[x].cmd = s.conn[x].cmd
  BY <1>1, LinkShape
<1> HIDE DEF r
<1>3. Resting(r.conn[x])
  BY <1>1, <1>2 DEF Resting
<1>4. X \in {{}, {x}} /\ GoodBut(s, X) /\ X = {}
  OBVIOUS
<1> HIDE DEF X
<1>5. GoodBut(r, {})
  BY <1>1, <1>2, <1>3, <1>4, Freed
<1> QED
  BY <1>5 DEF r

LEMMA TakeWorkGood ==
  ASSUME TransferStrong, NEW x \in Sides, TakeWork(x)
  PROVE  TransferStrong'
<1> DEFINE s == State
           r == Send(s, x, "other")
           X == {}
<1>1. GoodBut(s, {}) /\ s.conn[x].hold = "free" /\ "other" \in Cmds /\ Become(r)
  BY StateFields DEF TransferStrong, TakeWork, Lockable, Cmds
<1> HIDE DEF s
<1>2. ~(IsSite(s, x) /\ Live(s, x)) /\ s \in TransferStates
  BY <1>1, Holder DEF GoodBut
<1>3. ConnChanged(s, r, x) /\ r.conn[x].hold = s.conn[x].hold /\ r.conn[x].cmd = "other"
  BY <1>1, <1>2, SendShape
<1> HIDE DEF r
<1>4. Resting(r.conn[x])
  BY <1>1, <1>3 DEF Resting
<1>5. X \in {{}, {x}} /\ GoodBut(s, X) /\ X = {}
  BY <1>1
<1> HIDE DEF X
<1>6. GoodBut(r, {})
  BY <1>2, <1>3, <1>4, <1>5, Freed
<1> USE DEF s, r
<1> QED
  BY <1>1, <1>6, BecomeGood

LEMMA LinkEventGood ==
  ASSUME TransferStrong, NEW x \in Sides, login(x) \/ QUITResponse(x) \/ \E ok \in BOOLEAN : LoginReply(x, ok)
  PROVE  TransferStrong'
<1>1. PICK l \in Links : State.conn[x].link # "up" /\ Become([State EXCEPT !.conn[x].link = l])
  BY StateFields DEF login, QUITResponse, LoginReply, Links
<1>2. GoodBut(State, {})
  BY DEF TransferStrong
<1>3. GoodBut([State EXCEPT !.conn[x].link = l], {})
  BY <1>1, <1>2, LinkGood
<1> QED
  BY <1>1, <1>3, BecomeGood

LEMMA FDDisconnectedGood ==
  ASSUME TransferStrong, NEW x \in Sides, FDDisconnected(x)
  PROVE  TransferStrong'
<1>1. GoodBut(State, {}) /\ "down" \in Links /\ Become(Cut(State, x, "down"))
  BY DEF TransferStrong, Links, FDDisconnected
<1>2. Exempt(State, x, {})
  BY <1>1, NoneExempt
<1>3. GoodBut(Cut(State, x, "down"), {})
  BY <1>1, <1>2, CutGood
<1> QED
  BY <1>1, <1>3, BecomeGood

\* Replies
LEMMA Asked ==
  ASSUME TransferStrong, NEW x \in Sides, NEW c, Pending(x, c)
  PROVE  /\ GoodBut(State, {}) /\ State.conn[x].link = "up" /\ State.conn[x].cmd = c
         /\ Answered(x) = Answer(State, x)
         /\ c \notin {"none", "other", "abor"} => State.conn[x].hold # "free"
<1>1. GoodBut(State, {}) /\ State.conn[x].link = "up" /\ State.conn[x].cmd = c
  BY StateFields DEF TransferStrong, Pending
<1>2. c \notin {"none", "other", "abor"} => State.conn[x].hold # "free"
  BY <1>1, Holder DEF Resting
<1> QED
  BY <1>1, <1>2 DEF Answered, Answer

LEMMA RefusalGood ==
  ASSUME TransferStrong, NEW x \in Sides, NEW c, Pending(x, c), c \notin {"none", "other", "abor"}, NEW e \in Errors,
         Become(handleTransferFail(Answered(x), x, e))
  PROVE  TransferStrong'
<1>1. GoodBut(State, {}) /\ State.conn[x].hold # "free" /\ Answered(x) = Answer(State, x)
  BY Asked
<1>2. GoodBut(handleTransferFail(Answered(x), x, e), {})
  BY <1>1, RefusedGood
<1> QED
  BY <1>2, BecomeGood

LEMMA DropGood ==
  ASSUME TransferStrong, NEW x \in Sides, NEW c, Pending(x, c), Become(Cut(Answered(x), x, "login"))
  PROVE  TransferStrong'
<1>1. GoodBut(State, {}) /\ Answered(x) = Answer(State, x)
  BY Asked
<1>2. GoodBut(Cut(Answered(x), x, "login"), {})
  BY <1>1, DroppedGood
<1> QED
  BY <1>2, BecomeGood

LEMMA GoOnGood ==
  ASSUME TransferStrong, NEW x \in Sides, NEW c \in Early \cup {"prep"}, Pending(x, c), NEW k \in Needs,
         Become(handleConnection(Answered(x), x, k))
  PROVE  TransferStrong'
<1>1. GoodBut(State, {}) /\ State.conn[x].link = "up" /\ State.conn[x].cmd = c /\ Answered(x) = Answer(State, x)
  BY Asked
<1>2. GoodBut(handleConnection(Answered(x), x, k), {})
  BY <1>1, AnswerGood
<1> QED
  BY <1>2, BecomeGood

LEMMA OtherReplyGood ==
  ASSUME TransferStrong, NEW x \in Sides, NEW k \in Needs, NEW ok \in BOOLEAN, OtherReply(x, k, ok)
  PROVE  TransferStrong'
<1>1. Pending(x, "other") /\ "other" \in Early \cup {"prep"}
  BY DEF OtherReply, Early
<1>2. Become(handleConnection(Answered(x), x, k)) \/ Become(Cut(Answered(x), x, "login"))
  BY DEF OtherReply
<1> QED
  BY <1>1, <1>2, GoOnGood, DropGood

LEMMA CWDReplyGood ==
  ASSUME TransferStrong, NEW x \in Sides, NEW k \in Needs, NEW ok \in BOOLEAN, CWDReply(x, k, ok)
  PROVE  TransferStrong'
<1>1. Pending(x, "cwd") /\ "cwd" \in Early \cup {"prep"} /\ "OTHER" \in Errors
  BY DEF CWDReply, Early, Errors
<1>2. Become(handleConnection(Answered(x), x, k)) \/ Become(handleTransferFail(Answered(x), x, "OTHER"))
  BY DEF CWDReply
<1> QED
  BY <1>1, <1>2, GoOnGood, RefusalGood

LEMMA PrepReplyGood ==
  ASSUME TransferStrong, NEW x \in Sides, NEW k \in Needs, NEW ok \in BOOLEAN, PrepReply(x, k, ok)
  PROVE  TransferStrong'
<1>1. Pending(x, "prep") /\ "prep" \in Early \cup {"prep"} /\ "OTHER" \in Errors
  BY DEF PrepReply, Errors
<1>2. \/ Become(handleConnection(Answered(x), x, k))
      \/ Become(handleTransferFail(Answered(x), x, "OTHER"))
      \/ Become(Cut(Answered(x), x, "login"))
  BY DEF PrepReply
<1> QED
  BY <1>1, <1>2, GoOnGood, RefusalGood, DropGood

LEMMA PASVAbortResponseGood ==
  ASSUME TransferStrong, NEW x \in Sides, NEW k \in Needs, PASVAbortResponse(x, k)
  PROVE  TransferStrong'
<1>1. Pending(x, "abor") /\ "abor" \in Early \cup {"prep"} /\ Become(handleConnection(Answered(x), x, k))
  BY DEF PASVAbortResponse, Early
<1> QED
  BY <1>1, GoOnGood

\* The PRET is accepted: on to the PASV.
LEMMA PretGood ==
  ASSUME NEW s, NEW x \in Sides, GoodBut(s, {}), s.conn[x].cmd = "pret"
  PROVE  GoodBut(Send(s, x, "pasv"), {})
<1> DEFINE r == Send(s, x, "pasv")
           X == {}
<1>1. IsSite(s, x) /\ Live(s, x) /\ s.conn[x].link = "up" /\ s \in TransferStates /\ "pasv" \in Cmds
  BY Holder DEF Resting, GoodBut, Cmds
<1>2. /\ s.conn[x].hold = "init" /\ s.tm.pasv = x
      /\ s.tm.status \in {"AWAITING_PASSIVE", Err(Other(x))}
  BY <1>1, BusyStatus
<1>3. ConnChanged(s, r, x) /\ r.conn[x].hold = "init" /\ r.conn[x].link = "up" /\ r.conn[x].cmd = "pasv"
  BY <1>1, <1>2, SendShape
<1> HIDE DEF r
<1>4. r.tm = s.tm /\ r \in TransferStates
  BY <1>3 DEF ConnChanged
<1>5. IsSite(r, x) /\ Live(r, x)
  BY <1>1, <1>4, SameKind DEF Live
<1>6. (s.tm.pasv = x) = TRUE /\ Busy(r.conn[x], TRUE)
  BY <1>2, <1>3 DEF Busy
<1>7. /\ Err(Other(x)) \notin {"AWAITING_PASSIVE", "AWAITING_ACTIVE", "TRANSFERRING", Done(Other(x))}
      /\ Done(Other(x)) # "AWAITING_PASSIVE"
  BY DEF Err, Done
<1>8. TakesPart(r.conn[x], s.tm.status, TRUE, x)
  <2>1. CASE s.tm.status = "AWAITING_PASSIVE"
    <3>1. TakesPart(r.conn[x], "AWAITING_PASSIVE", TRUE, x)
      BY <1>3, <1>6, <1>7 DEF TakesPart
    <3> QED
      BY <2>1, <3>1
  <2>2. CASE s.tm.status = Err(Other(x))
    BY <1>3, <1>6, <1>7, <2>2 DEF TakesPart
  <2> QED
    BY <1>2, <2>1, <2>2
<1>9. ConnGood(r, x)
  BY <1>4, <1>5, <1>6, <1>8 DEF ConnGood
<1>10. s.tm.status # "AWAITING_ACTIVE"
  BY <1>2, <1>7
<1>11. X \in {{}, {x}} /\ GoodBut(s, X)
  OBVIOUS
<1> HIDE DEF X
<1>12. GoodBut(r, {})
  BY <1>1, <1>3, <1>9, <1>10, <1>11, Rejoin
<1> QED
  BY <1>12 DEF r

LEMMA PRETReplyGood ==
  ASSUME TransferStrong, NEW x \in Sides, NEW ok \in BOOLEAN, PRETReply(x, ok)
  PROVE  TransferStrong'
<1>1. Pending(x, "pret")
  BY DEF PRETReply
<1>2. CASE Become(Send(State, x, "pasv"))
  <2>1. GoodBut(State, {}) /\ State.conn[x].cmd = "pret"
    BY <1>1, Asked
  <2>2. GoodBut(Send(State, x, "pasv"), {})
    BY <2>1, PretGood
  <2> QED
    BY <1>2, <2>2, BecomeGood
<1>3. ASSUME NEW e \in Errors, Become(handleTransferFail(Answered(x), x, e)) PROVE TransferStrong'
  BY <1>1, <1>3, RefusalGood
<1> QED
  BY <1>2, <1>3 DEF PRETReply, Errors

LEMMA PASVReplyGood ==
  ASSUME TransferStrong, NEW x \in Sides, NEW k \in Needs, NEW ok \in BOOLEAN, PASVReply(x, k, ok)
  PROVE  TransferStrong'
<1>1. Pending(x, "pasv") /\ "OTHER" \in Errors
  BY DEF PASVReply, Errors
<1>2. CASE Become(passiveReady(Answered(x), k))
  <2>1. GoodBut(State, {}) /\ State.conn[x].cmd = "pasv" /\ Answered(x) = Answer(State, x)
    BY <1>1, Asked
  <2>2. GoodBut(passiveReady(Answered(x), k), {})
    BY <2>1, PassiveReadyGood
  <2> QED
    BY <1>2, <2>2, BecomeGood
<1>3. CASE Become(handleTransferFail(Answered(x), x, "OTHER"))
  BY <1>1, <1>3, RefusalGood
<1> QED
  BY <1>2, <1>3 DEF PASVReply

LEMMA PORTReplyGood ==
  ASSUME TransferStrong, NEW x \in Sides, NEW ok \in BOOLEAN, PORTReply(x, ok)
  PROVE  TransferStrong'
<1>1. Pending(x, "port") /\ "OTHER" \in Errors
  BY DEF PORTReply, Errors
<1>2. CASE Become(activeReady(Answered(x)))
  <2>1. GoodBut(State, {}) /\ State.conn[x].cmd = "port" /\ Answered(x) = Answer(State, x)
    BY <1>1, Asked
  <2>2. GoodBut(activeReady(Answered(x)), {})
    BY <2>1, ActiveReadyGood
  <2> QED
    BY <1>2, <2>2, BecomeGood
<1>3. CASE Become(handleTransferFail(Answered(x), x, "OTHER"))
  BY <1>1, <1>3, RefusalGood
<1> QED
  BY <1>2, <1>3 DEF PORTReply

LEMMA StartReplyGood ==
  ASSUME TransferStrong, NEW x \in Sides, NEW code \in {150, 226, 550}, StartReply(x, code)
  PROVE  TransferStrong'
<1> DEFINE s == started(State, x)
<1>1. Pending(x, "xfer")
  BY DEF StartReply
<1>2. GoodBut(State, {}) /\ State.conn[x].cmd = "xfer"
  BY <1>1, Asked
<1>3. GoodBut(s, {}) /\ s.conn[x].cmd = "data"
  BY <1>2, StartedGood
<1>4. ~s.tm.asserted
  BY <1>3 DEF GoodBut
<1>5. \/ Become(s) \/ Become(completed(s, x))
      \/ \E e \in Errors : Become(handleTransferFail(Answered(x), x, e))
  BY <1>4 DEF StartReply, Errors
<1>6. CASE Become(s)
  BY <1>3, <1>6, BecomeGood
<1>7. CASE Become(completed(s, x))
  <2>1. GoodBut(completed(s, x), {})
    BY <1>3, CompletedGood
  <2> QED
    BY <1>7, <2>1, BecomeGood
<1>8. ASSUME NEW e \in Errors, Become(handleTransferFail(Answered(x), x, e)) PROVE TransferStrong'
  BY <1>1, <1>8, RefusalGood
<1> QED
  BY <1>5, <1>6, <1>7, <1>8

LEMMA CompleteReplyGood ==
  ASSUME TransferStrong, NEW x \in Sides, NEW ok \in BOOLEAN, CompleteReply(x, ok)
  PROVE  TransferStrong'
<1>1. Pending(x, "data") /\ "OTHER" \in Errors
  BY DEF CompleteReply, Errors
<1>2. CASE Become(completed(State, x))
  <2>1. GoodBut(State, {}) /\ State.conn[x].cmd = "data"
    BY <1>1, Asked
  <2>2. GoodBut(completed(State, x), {})
    BY <2>1, CompletedGood
  <2> QED
    BY <1>2, <2>2, BecomeGood
<1>3. CASE Become(handleTransferFail(Answered(x), x, "OTHER"))
  BY <1>1, <1>3, RefusalGood
<1> QED
  BY <1>2, <1>3 DEF CompleteReply

\* Engaging
\* reset, written as the record it makes.
LEMMA ResetIs ==
  ASSUME NEW t, NEW p
  PROVE  reset(t, p) = [tm |-> [status |-> "AWAITING_PASSIVE", type |-> t, pasv |-> p, error |-> tm.error,
                                timeout |-> FALSE, ts |-> "none", mark |-> FALSE, asserted |-> tm.asserted],
                        conn |-> conn, lt |-> "none", rep |-> [x \in Sides |-> "none"]]
<1> DEFINE d == [status |-> "AWAITING_PASSIVE", type |-> t, pasv |-> p, error |-> tm.error,
                 timeout |-> FALSE, ts |-> "none", mark |-> FALSE, asserted |-> tm.asserted]
           f == [x \in Sides |-> "none"]
<1>1. reset(t, p) = [State EXCEPT !.tm = d, !.rep = f, !.lt = "none"]
  BY DEF reset
<1>2. State \in [tm : {tm}, conn : {conn}, lt : {lt}, rep : {rep}]
  BY DEF State
<1> HIDE DEF d, f
<1>3. [State EXCEPT !.tm = d, !.rep = f, !.lt = "none"]
        = [tm |-> d, conn |-> conn, lt |-> "none", rep |-> f]
  <2> DEFINE r == [State EXCEPT !.tm = d, !.rep = f, !.lt = "none"]
  <2>1. r \in [tm : {d}, conn : {conn}, lt : {"none"}, rep : {f}]
    BY <1>2
  <2> HIDE DEF r
  <2>2. r = [tm |-> d, conn |-> conn, lt |-> "none", rep |-> f]
    BY <2>1
  <2> QED
    BY <2>2 DEF r
<1> QED
  BY <1>1, <1>3 DEF d, f

LEMMA ResetShape ==
  ASSUME TransferStrong, tm.status = "IDLE", NEW t \in Types, NEW p \in Sides, t = "UPLOAD" => p = "dst"
  PROVE  LET s == reset(t, p)
         IN /\ Fresh(s) /\ s.tm.status = "AWAITING_PASSIVE" /\ s.tm.type = t /\ s.tm.pasv = p
            /\ s.tm.ts = "none" /\ s.conn = conn
            /\ \A x \in Sides : Resting(s.conn[x])
<1> DEFINE s == reset(t, p)
<1>1. GoodBut(State, {}) /\ State \in TransferStates /\ ~State.tm.asserted /\ State.tm.status = "IDLE"
  BY StateFields DEF TransferStrong, GoodBut
<1>2. /\ s.tm = [status |-> "AWAITING_PASSIVE", type |-> t, pasv |-> p, error |-> tm.error, timeout |-> FALSE,
                 ts |-> "none", mark |-> FALSE, asserted |-> tm.asserted]
      /\ s.rep = [x \in Sides |-> "none"] /\ s.lt = "none" /\ s.conn = conn
      /\ s = [tm |-> s.tm, conn |-> s.conn, lt |-> s.lt, rep |-> s.rep]
  <2>1. s = [tm |-> [status |-> "AWAITING_PASSIVE", type |-> t, pasv |-> p, error |-> tm.error, timeout |-> FALSE,
                     ts |-> "none", mark |-> FALSE, asserted |-> tm.asserted],
             conn |-> conn, lt |-> "none", rep |-> [x \in Sides |-> "none"]]
    BY ResetIs
  <2> HIDE DEF s
  <2> QED
    BY <2>1
<1> HIDE DEF s
<1>3. tm.error \in Errors /\ tm.asserted = FALSE /\ conn \in [Sides -> ConnRec]
  <2>1. tm.error \in Errors /\ tm.asserted \in BOOLEAN /\ conn \in [Sides -> ConnRec]
    BY <1>1, Fields, StateFields
  <2>2. ~tm.asserted
    BY <1>1, StateFields
  <2>3. tm.asserted = FALSE
    BY <2>1, <2>2, Zenon
  <2> QED
    BY <2>1, <2>3, Zenon
<1>4. s.tm \in TmRec
  <2>1. /\ "AWAITING_PASSIVE" \in Statuses /\ t \in Types /\ p \in Sides /\ tm.error \in Errors
        /\ "none" \in Results /\ FALSE \in BOOLEAN /\ tm.asserted \in BOOLEAN
    BY <1>3 DEF Statuses, Awaiting, Results
  <2> QED
    BY <1>2, <2>1 DEF TmRec
<1>5. s \in TransferStates
  BY <1>2, <1>3, <1>4 DEF TransferStates, LtStates
<1>6. \A x \in Sides : Resting(s.conn[x])
  <2>1. \A x \in Sides : ~Live(State, x)
    BY <1>1 DEF Live
  <2>2. \A x \in Sides : Resting(State.conn[x])
    BY <1>1, <2>1, Holder
  <2> QED
    BY <1>2, <2>2, StateFields
<1>7. Fresh(s)
  BY <1>2, <1>3, <1>5 DEF Fresh
<1> QED
  BY <1>2, <1>6, <1>7 DEF s

LEMMA FreshKept ==
  ASSUME NEW s, NEW r, NEW x, Fresh(s), ConnChanged(s, r, x)
  PROVE  Fresh(r) /\ r.tm = s.tm /\ r.conn[Other(x)] = s.conn[Other(x)]
BY DEF Fresh, ConnChanged

LEMMA Announced ==
  ASSUME NEW s, Fresh(s), s.tm.type # "LIST"
  PROVE  LET r == announce(s)
         IN /\ Fresh(r) /\ Published(r) /\ r.conn = s.conn /\ r.tm.status = s.tm.status
            /\ r.tm.type = s.tm.type /\ r.tm.pasv = s.tm.pasv
<1> DEFINE r == announce(s)
<1>1. /\ r \in TransferStates /\ r.conn = s.conn /\ r.lt = s.lt /\ r.rep = s.rep /\ SameTransfer(s, r)
      /\ r.tm.status = s.tm.status /\ r.tm.ts = "inprogress"
  BY AnnounceShape DEF Fresh
<1> HIDE DEF r
<1>2. Fresh(r) /\ Published(r) /\ r.tm.type = s.tm.type /\ r.tm.pasv = s.tm.pasv
  BY <1>1 DEF Fresh, Published, SameTransfer
<1> QED
  BY <1>1, <1>2 DEF r

LEMMA GivenBack ==
  ASSUME NEW s, Fresh(s), s.tm.type = "FXP", s.tm.ts = "none", Resting(s.conn["dst"])
  PROVE  GoodBut([Return(s, "src") EXCEPT !.tm.status = "IDLE"], {})
<1> DEFINE a == Return(s, "src")
           r == [a EXCEPT !.tm.status = "IDLE"]
           Y == {}
<1>1. s \in TransferStates /\ "src" \in Sides /\ Other("src") = "dst" /\ Sides = {"src", "dst"}
  BY DEF Fresh, Sides, Other
<1>2. ConnChanged(s, a, "src") /\ a.conn["src"].hold = "free" /\ a.conn["src"].cmd \in {"none", "other"}
  BY <1>1, ReturnShape
<1> HIDE DEF a
<1>3. Fresh(a) /\ a.tm = s.tm /\ a.conn["dst"] = s.conn["dst"] /\ a \in TransferStates
  BY <1>1, <1>2, FreshKept DEF Fresh
<1>4. "IDLE" \in Statuses /\ "OTHER" \in Errors
  BY DEF Statuses, Errors
<1>5. /\ r \in TransferStates /\ r.conn = a.conn /\ r.lt = a.lt /\ r.rep = a.rep /\ SameTransfer(a, r)
      /\ r.tm.status = "IDLE" /\ r.tm.ts = a.tm.ts
  BY <1>3, <1>4, StatusShape
<1> HIDE DEF r
<1>6. \A y \in Sides : Resting(r.conn[y])
  <2>1. Resting(r.conn["src"]) /\ Resting(r.conn["dst"])
    BY <1>2, <1>3, <1>5 DEF Resting
  <2> QED
    BY <1>1, <2>1
<1>7. ReportsGood(r)
  <2>1. (\A x \in Sides : r.rep[x] = "none") /\ r.tm.ts \in {"none", "failed", "dupe"} /\ r.tm.type # "LIST"
    BY <1>3, <1>5 DEF Fresh, SameTransfer
  <2> QED
    BY <1>5, <2>1, IdleReports
<1>8. SameTransfer(a, r) /\ r.lt = "none" /\ ~a.tm.asserted /\ (a.tm.type = "UPLOAD" => a.tm.pasv = "dst")
  BY <1>3, <1>5 DEF Fresh
<1>9. Y \in SUBSET Sides /\ (HasLocal(a) => Local(a) \notin Y)
      /\ (\A y \in Sides : y \notin Y \/ ~IsSite(a, y) => Resting(r.conn[y]))
  BY <1>6
<1> HIDE DEF Y
<1>10. GoodBut(r, Y)
  BY <1>3, <1>5, <1>7, <1>8, <1>9, Ended
<1> QED
  BY <1>10 DEF Y, r, a

LEMMA EngageFXPGood ==
  ASSUME TransferStrong, NEW p \in Sides, NEW ks \in Needs, NEW kd \in Needs, engageFXP(p, ks, kd)
  PROVE  TransferStrong'
<1> DEFINE z == reset("FXP", p)
           s == lockTransferConn(z, "src", ks)
           b == lockTransferConn(s, "dst", kd)
           both == announce(b)
           k == IF p = "src" THEN ks ELSE kd
<1>1. "src" \in Sides /\ "dst" \in Sides /\ Other("src") = "dst" /\ Other("dst") = "src" /\ Sides = {"src", "dst"}
      /\ "FXP" \in Types /\ k \in Needs
  BY DEF Sides, Other, Types
<1>2. tm.status = "IDLE" /\ conn["src"].link = "up"
  BY StateFields DEF engageFXP, Idle, Lockable
<1>3. /\ Fresh(z) /\ z.tm.status = "AWAITING_PASSIVE" /\ z.tm.type = "FXP" /\ z.tm.pasv = p
      /\ z.tm.ts = "none" /\ z.conn = conn
      /\ \A x \in Sides : Resting(z.conn[x])
  BY <1>1, <1>2, ResetShape
<1>4. \/ Become([Return(s, "src") EXCEPT !.tm.status = "IDLE"])
      \/ Lockable("dst") /\ Become(lateFailure(both, "failed"))
      \/ Lockable("dst") /\ Become(prepare(both, p, k))
  BY DEF engageFXP
<1> HIDE DEF z
<1>5. ConnChanged(z, s, "src") /\ s.conn["src"].link = "up" /\ s.conn["src"].hold = "locked"
      /\ s.conn["src"].cmd \in Early \cup {"none"}
  BY <1>1, <1>2, <1>3, LockShape DEF Fresh, Resting
<1> HIDE DEF s
<1>6. Fresh(s) /\ s.tm = z.tm /\ s.conn["dst"] = z.conn["dst"] /\ s \in TransferStates
  BY <1>1, <1>3, <1>5, FreshKept DEF Fresh
<1>7. CASE Become([Return(s, "src") EXCEPT !.tm.status = "IDLE"])
  <2>1. Resting(s.conn["dst"]) /\ s.tm.type = "FXP" /\ s.tm.ts = "none"
    BY <1>1, <1>3, <1>6
  <2>2. GoodBut([Return(s, "src") EXCEPT !.tm.status = "IDLE"], {})
    BY <1>6, <2>1, GivenBack
  <2> QED
    BY <1>7, <2>2, BecomeGood
<1>8. ASSUME Lockable("dst")
      PROVE  /\ Fresh(both) /\ Published(both) /\ both.tm.type = "FXP" /\ both.tm.status = "AWAITING_PASSIVE"
             /\ both.tm.pasv = p
             /\ \A x \in Sides : both.conn[x].link = "up" /\ both.conn[x].hold = "locked"
                                 /\ both.conn[x].cmd \in Early \cup {"none"}
  <2>1. s.conn["dst"].link = "up" /\ Resting(s.conn["dst"])
    BY <1>1, <1>3, <1>6, <1>8 DEF Lockable
  <2>2. ConnChanged(s, b, "dst") /\ b.conn["dst"].link = "up" /\ b.conn["dst"].hold = "locked"
        /\ b.conn["dst"].cmd \in Early \cup {"none"}
    BY <1>1, <1>3, <1>6, <2>1, LockShape DEF Resting
  <2> HIDE DEF b
  <2>3. Fresh(b) /\ b.tm = z.tm /\ b.conn["src"] = s.conn["src"]
    BY <1>1, <1>6, <2>2, FreshKept
  <2>4. /\ Fresh(both) /\ Published(both) /\ both.conn = b.conn /\ both.tm.status = b.tm.status
        /\ both.tm.type = b.tm.type /\ both.tm.pasv = b.tm.pasv
    BY <1>3, <2>3, Announced
  <2> HIDE DEF both
  <2> QED
    BY <1>1, <1>3, <1>5, <2>2, <2>3, <2>4
<1> HIDE DEF both, k
<1>9. CASE Lockable("dst") /\ Become(lateFailure(both, "failed"))
  <2>1. \A x \in Sides : IsSite(both, x)
    BY <1>8, <1>9 DEF IsSite
  <2>2. GoodBut(lateFailure(both, "failed"), {})
    BY <1>8, <1>9, <2>1, LateFailureGood
  <2> QED
    BY <1>9, <2>2, BecomeGood
<1>10. CASE Lockable("dst") /\ Become(prepare(both, p, k))
  <2>1. GoodBut(prepare(both, p, k), {})
    BY <1>1, <1>8, <1>10, SitesEngaged
  <2> QED
    BY <1>10, <2>1, BecomeGood
<1> QED
  BY <1>4, <1>7, <1>9, <1>10

LEMMA EngageLocalGood ==
  ASSUME TransferStrong, NEW p \in Sides, NEW k \in Needs, NEW t, NEW x,
         \/ t = "DOWNLOAD" /\ x = "src"
         \/ t = "UPLOAD" /\ x = "dst",
         <<"UPLOAD", "src">> \notin Modes, engageLocal(t, x, p, k)
  PROVE  TransferStrong'
<1> DEFINE z == reset(t, p)
           s == lockTransferConn(z, x, k)
           b == announce(s)
           o == Other(x)
<1>1. x \in Sides /\ o \in Sides /\ o # x /\ Sides = {x, o} /\ t \in Types /\ t # "LIST" /\ t # "FXP"
      /\ o = IF t = "UPLOAD" THEN "src" ELSE "dst"
  BY DEF Sides, Other, Types
<1>2. tm.status = "IDLE" /\ conn[x].link = "up"
  BY StateFields DEF engageLocal, Idle, Lockable
<1>3. t = "UPLOAD" => p = "dst"
  BY DEF engageLocal, Sides
<1>4. /\ Fresh(z) /\ z.tm.status = "AWAITING_PASSIVE" /\ z.tm.type = t /\ z.tm.pasv = p
      /\ z.tm.ts = "none" /\ z.conn = conn
      /\ \A y \in Sides : Resting(z.conn[y])
  BY <1>1, <1>2, <1>3, ResetShape
<1>5. \/ \E ts \in {"failed", "dupe"} : Become(lateFailure(b, ts))
      \/ p = x /\ Become([prepare(b, x, k) EXCEPT !.lt = "reserved"])
      \/ p # x /\ Become([passiveReady(b, k) EXCEPT !.lt = "listening"])
  BY DEF engageLocal
<1> HIDE DEF z, o
<1>6. ConnChanged(z, s, x) /\ s.conn[x].link = "up" /\ s.conn[x].hold = "locked"
      /\ s.conn[x].cmd \in Early \cup {"none"}
  BY <1>1, <1>2, <1>4, LockShape DEF Fresh, Resting
<1> HIDE DEF s
<1>7. Fresh(s) /\ s.tm = z.tm /\ s.conn[o] = z.conn[o]
  BY <1>4, <1>6, FreshKept DEF o
<1>8. /\ Fresh(b) /\ Published(b) /\ b.conn = s.conn /\ b.tm.status = "AWAITING_PASSIVE"
      /\ b.tm.type = t /\ b.tm.pasv = p
  BY <1>1, <1>4, <1>7, Announced
<1> HIDE DEF b
<1>9. HasLocal(b) /\ Local(b) = o /\ IsSite(b, x) /\ Resting(b.conn[o])
  BY <1>1, <1>4, <1>7, <1>8 DEF HasLocal, Local, IsSite
<1>10. CASE \E ts \in {"failed", "dupe"} : Become(lateFailure(b, ts))
  <2>1. PICK ts \in {"failed", "dupe"} : Become(lateFailure(b, ts))
    BY <1>10
  <2>2. \A y \in Sides : ~IsSite(b, y) => Resting(b.conn[y])
    BY <1>1, <1>9
  <2>3. GoodBut(lateFailure(b, ts), {})
    BY <1>1, <1>8, <2>2, LateFailureGood
  <2> QED
    BY <2>1, <2>3, BecomeGood
<1>11. /\ p = x => GoodBut([prepare(b, x, k) EXCEPT !.lt = "reserved"], {})
       /\ p # x => GoodBut([passiveReady(b, k) EXCEPT !.lt = "listening"], {})
  BY <1>1, <1>6, <1>8, <1>9, LocalEngaged
<1>12. CASE p = x /\ Become([prepare(b, x, k) EXCEPT !.lt = "reserved"])
  BY <1>11, <1>12, BecomeGood
<1>13. CASE p # x /\ Become([passiveReady(b, k) EXCEPT !.lt = "listening"])
  BY <1>11, <1>13, BecomeGood
<1> QED
  BY <1>5, <1>10, <1>12, <1>13

LEMMA EngageListGood ==
  ASSUME TransferStrong, NEW p \in Sides, NEW k \in Needs, engageList(p, k)
  PROVE  TransferStrong'
<1> DEFINE b == reset("LIST", p)
           x == "src"
<1>1. x \in Sides /\ "LIST" \in Types /\ "dst" \in Sides /\ x # "dst"
  BY DEF Sides, Types
<1>2. tm.status = "IDLE" /\ conn[x].link = "up" /\ conn[x].hold = "free" /\ conn[x].cmd = "none"
  BY StateFields DEF engageList, Idle, Lockable, Processing
<1>3. \/ p = x /\ Become([prepare(b, x, k) EXCEPT !.lt = "reserved"])
      \/ p # x /\ Become([passiveReady(b, k) EXCEPT !.lt = "listening"])
  BY DEF engageList
<1>4. /\ Fresh(b) /\ b.tm.status = "AWAITING_PASSIVE" /\ b.tm.type = "LIST" /\ b.tm.pasv = p
      /\ b.tm.ts = "none" /\ b.conn = conn
      /\ \A y \in Sides : Resting(b.conn[y])
  BY <1>1, <1>2, ResetShape
<1> HIDE DEF b, x
<1>5. HasLocal(b) /\ Local(b) = "dst" /\ Resting(b.conn["dst"]) /\ Published(b)
  BY <1>1, <1>4 DEF HasLocal, Local, Published
<1>6. /\ p = x => GoodBut([prepare(b, x, k) EXCEPT !.lt = "reserved"], {})
      /\ p # x => GoodBut([passiveReady(b, k) EXCEPT !.lt = "listening"], {})
  BY <1>1, <1>2, <1>4, <1>5, LocalEngaged
<1>7. CASE p = x /\ Become([prepare(b, x, k) EXCEPT !.lt = "reserved"])
  BY <1>6, <1>7, BecomeGood
<1>8. CASE p # x /\ Become([passiveReady(b, k) EXCEPT !.lt = "listening"])
  BY <1>6, <1>8, BecomeGood
<1> QED
  BY <1>3, <1>7, <1>8

(***************************************************************************)
(* The invariant and what it implies.                                      *)
(***************************************************************************)
LEMMA TransferInit ==
  ASSUME Init
  PROVE  TransferStrong
<1>1. /\ State.tm = [status |-> "IDLE", type |-> "FXP", pasv |-> "src", error |-> "OTHER", timeout |-> FALSE,
                     ts |-> "none", mark |-> FALSE, asserted |-> FALSE]
      /\ State.conn = [x \in Sides |-> [link |-> "down", cmd |-> "none", hold |-> "free"]]
      /\ State.lt = "none" /\ State.rep = [x \in Sides |-> "none"]
  BY StateFields DEF Init
<1>2. State \in TransferStates
  <2>1. State.tm \in TmRec
    BY <1>1 DEF TmRec, Statuses, Types, Sides, Errors, Results
  <2>2. State.conn \in [Sides -> ConnRec]
    BY <1>1 DEF ConnRec, Links, Cmds, Holds
  <2> QED
    BY <1>1, <2>1, <2>2, StateFields DEF TransferStates, LtStates, State
<1>3. "src" \in Sides /\ Other("src") \in Sides
  BY DEF Sides, Other
<1>4. ~HasLocal(State) /\ ~Live(State, "src") /\ ~Live(State, Other("src"))
  BY <1>1 DEF HasLocal, Live
<1>5. ConnGood(State, "src") /\ ConnGood(State, Other("src"))
  BY <1>1, <1>3, <1>4 DEF ConnGood, Resting
<1>6. ReportsGood(State)
  BY <1>1, <1>2, IdleReports
<1> QED
  BY <1>1, <1>2, <1>3, <1>4, <1>5, <1>6, Assemble DEF TransferStrong

LEMMA TransferStep ==
  ASSUME <<"UPLOAD", "src">> \notin Modes, TransferStrong, [Next]_vars
  PROVE  TransferStrong'
<1>1. CASE Engage
  <2>1. ASSUME NEW p \in Sides, NEW ks \in Needs, NEW kd \in Needs, engageFXP(p, ks, kd) PROVE TransferStrong'
    BY <2>1, EngageFXPGood
  <2>2. ASSUME NEW p \in Sides, NEW k \in Needs, engageLocal("DOWNLOAD", "src", p, k) PROVE TransferStrong'
    BY <2>2, EngageLocalGood
  <2>3. ASSUME NEW p \in Sides, NEW k \in Needs, engageLocal("UPLOAD", "dst", p, k) PROVE TransferStrong'
    BY <2>3, EngageLocalGood
  <2>4. ASSUME NEW p \in Sides, NEW k \in Needs, engageList(p, k) PROVE TransferStrong'
    BY <2>4, EngageListGood
  <2> QED
    BY <1>1, <2>1, <2>2, <2>3, <2>4 DEF Engage
<1>2. ASSUME NEW x \in Sides, ConnEvent(x) PROVE TransferStrong'
  <2>1. CASE TakeWork(x)
    BY <2>1, TakeWorkGood
  <2>2. CASE login(x) \/ QUITResponse(x)
    BY <2>2, LinkEventGood
  <2>3. CASE FDDisconnected(x)
    BY <2>3, FDDisconnectedGood
  <2>4. ASSUME NEW ok \in BOOLEAN, LoginReply(x, ok) PROVE TransferStrong'
    BY <2>4, LinkEventGood
  <2>5. ASSUME NEW ok \in BOOLEAN, PRETReply(x, ok) PROVE TransferStrong'
    BY <2>5, PRETReplyGood
  <2>6. ASSUME NEW ok \in BOOLEAN, PORTReply(x, ok) PROVE TransferStrong'
    BY <2>6, PORTReplyGood
  <2>7. ASSUME NEW ok \in BOOLEAN, CompleteReply(x, ok) PROVE TransferStrong'
    BY <2>7, CompleteReplyGood
  <2>8. ASSUME NEW k \in Needs, NEW ok \in BOOLEAN, OtherReply(x, k, ok) PROVE TransferStrong'
    BY <2>8, OtherReplyGood
  <2>9. ASSUME NEW k \in Needs, NEW ok \in BOOLEAN, CWDReply(x, k, ok) PROVE TransferStrong'
    BY <2>9, CWDReplyGood
  <2>10. ASSUME NEW k \in Needs, NEW ok \in BOOLEAN, PrepReply(x, k, ok) PROVE TransferStrong'
    BY <2>10, PrepReplyGood
  <2>11. ASSUME NEW k \in Needs, NEW ok \in BOOLEAN, PASVReply(x, k, ok) PROVE TransferStrong'
    BY <2>11, PASVReplyGood
  <2>12. ASSUME NEW code \in {150, 226, 550}, StartReply(x, code) PROVE TransferStrong'
    BY <2>12, StartReplyGood
  <2>13. ASSUME NEW k \in Needs, PASVAbortResponse(x, k) PROVE TransferStrong'
    BY <2>13, PASVAbortResponseGood
  <2> QED
    BY <1>2, <2>1, <2>2, <2>3, <2>4, <2>5, <2>6, <2>7, <2>8, <2>9, <2>10, <2>11, <2>12, <2>13 DEF ConnEvent
<1>3. CASE LocalEvent
  BY <1>3, FDInterNewGood, FDInterConnectedGood, LocalCompleteGood, LocalErrorGood DEF LocalEvent
<1>4. CASE tick
  BY <1>4, DeadTransferGood, MaxTransferTimeGood DEF tick
<1>5. CASE abortTransfer
  BY <1>5, AbortGood
<1>6. CASE UNCHANGED vars
  BY <1>6 DEF vars, TransferStrong, State
<1> QED
  BY <1>1, <1>2, <1>3, <1>4, <1>5, <1>6 DEF Next

\* What the parts of the invariant say, in the words of the properties.
LEMMA StrongType ==
  ASSUME TransferStrong
  PROVE  TypeOK
<1>1. /\ State \in TransferStates /\ ReportsGood(State)
      /\ IF ~HasLocal(State) THEN State.lt = "none" ELSE SocketGood(State)
  BY DEF TransferStrong, GoodBut
<1>2. tm \in TmRec /\ conn \in [Sides -> ConnRec] /\ lt \in LtStates /\ rep \in [Sides -> {"none", "ok", "err"}]
  BY <1>1, Fields, StateFields
<1>3. tm.status = "IDLE" \/ tm.type = "FXP" => lt = "none"
  BY <1>1, StateFields DEF HasLocal, SocketGood
<1>4. tm.type = "LIST" => tm.ts = "none"
  BY <1>1, StateFields DEF ReportsGood
<1> QED
  BY <1>2, <1>3, <1>4 DEF TypeOK, TmRec, ConnRec

LEMMA StrongOwnership ==
  ASSUME TransferStrong
  PROVE  Ownership
<1> SUFFICES ASSUME NEW x \in Sides
             PROVE  /\ conn[x].hold # "free" <=>
                         IsSite(State, x) /\ tm.status \notin {"IDLE", Done(x), Err(x)}
                    /\ conn[x].hold # "free" => conn[x].link = "up"
                    /\ conn[x].cmd \in {"prep", "pret", "pasv", "port", "xfer", "data"} =>
                         conn[x].hold = "init"
  BY DEF Ownership
<1>1. GoodBut(State, {}) /\ State.tm = tm /\ State.conn = conn
  BY StateFields DEF TransferStrong
<1>2. CASE IsSite(State, x) /\ Live(State, x)
  <2>1. TakesPart(conn[x], tm.status, tm.pasv = x, x) /\ conn[x].hold # "free" /\ conn[x].link = "up"
    BY <1>1, <1>2, Holder
  <2>2. tm.status \notin {"IDLE", Done(x), Err(x)}
    BY <1>1, <1>2 DEF Live
  <2>3. conn[x].cmd = "prep" => conn[x].hold = "init"
    <3>1. State \in TransferStates
      BY <1>1 DEF GoodBut
    <3>2. tm.status \in {"TRANSFERRING", "AWAITING_ACTIVE", "AWAITING_PASSIVE", Done(Other(x)), Err(Other(x))}
      BY <1>1, <2>2, <3>1, StatusFacts DEF Awaiting
    <3> QED
      BY <2>1, <3>2 DEF TakesPart, Busy, Early
  <2>4. conn[x].cmd \in {"pret", "pasv", "port", "xfer", "data"} => conn[x].hold = "init"
    BY <1>1, <1>2, BusyStatus
  <2> QED
    BY <1>2, <2>1, <2>2, <2>3, <2>4
<1>3. CASE ~(IsSite(State, x) /\ Live(State, x))
  <2>1. Resting(conn[x])
    BY <1>1, <1>3, Holder
  <2>2. ~(IsSite(State, x) /\ tm.status \notin {"IDLE", Done(x), Err(x)})
    BY <1>1, <1>3 DEF Live
  <2> QED
    BY <2>1, <2>2 DEF Resting
<1> QED
  BY <1>2, <1>3

LEMMA StrongOrder ==
  ASSUME TransferStrong
  PROVE  HandshakeOrder
<1> SUFFICES ASSUME NEW x \in Sides
             PROVE  /\ conn[x].cmd = "port" => tm.pasv # x /\ tm.status # "AWAITING_PASSIVE"
                    /\ conn[x].cmd \in {"pret", "pasv"} =>
                         tm.pasv = x /\ tm.status \in {"AWAITING_PASSIVE"} \cup Erring
                    /\ conn[x].cmd \in {"xfer", "data"} =>
                         tm.status \notin {"AWAITING_PASSIVE"}
                           \cup (IF tm.pasv = x THEN {"AWAITING_ACTIVE"} ELSE {})
  BY DEF HandshakeOrder
<1>1. GoodBut(State, {}) /\ State.tm = tm /\ State.conn = conn /\ State \in TransferStates /\ Other(x) \in Sides
  BY StateFields, SideFacts DEF TransferStrong, GoodBut
<1>2. Err(Other(x)) \in Erring /\ Err(Other(x)) \notin Awaiting /\ Done(Other(x)) \notin Awaiting
  BY <1>1, StatusFacts
<1>3. CASE IsSite(State, x) /\ Live(State, x)
  <2>1. conn[x].cmd = "port" => tm.pasv # x /\ tm.status # "AWAITING_PASSIVE"
    BY <1>1, <1>2, <1>3, BusyStatus DEF Awaiting
  <2>2. conn[x].cmd \in {"pret", "pasv"} => tm.pasv = x /\ tm.status \in {"AWAITING_PASSIVE"} \cup Erring
    BY <1>1, <1>2, <1>3, BusyStatus
  <2>3. TakesPart(conn[x], tm.status, tm.pasv = x, x)
    BY <1>1, <1>3, Holder
  <2>4. CASE tm.pasv = x
    <3>1. (tm.pasv = x) = TRUE
      BY <2>4
    <3>2. TakesPart(conn[x], tm.status, TRUE, x)
      BY <2>3, <3>1
    <3>3. conn[x].cmd \in {"xfer", "data"} => tm.status \notin {"AWAITING_PASSIVE", "AWAITING_ACTIVE"}
      BY <3>2 DEF TakesPart, Busy, Early
    <3> QED
      BY <2>1, <2>2, <2>4, <3>3
  <2>5. CASE tm.pasv # x
    <3>1. (tm.pasv = x) = FALSE
      BY <2>5
    <3>2. TakesPart(conn[x], tm.status, FALSE, x)
      BY <2>3, <3>1
    <3>3. conn[x].cmd \in {"xfer", "data"} => tm.status # "AWAITING_PASSIVE"
      BY <3>2 DEF TakesPart, Busy, Early
    <3> QED
      BY <2>1, <2>2, <2>5, <3>3
  <2> QED
    BY <2>4, <2>5
<1>4. CASE ~(IsSite(State, x) /\ Live(State, x))
  <2>1. Resting(conn[x])
    BY <1>1, <1>4, Holder
  <2> QED
    BY <2>1 DEF Resting
<1> QED
  BY <1>3, <1>4

LEMMA StrongWait ==
  ASSUME TransferStrong
  PROVE  NoSilentWait
<1>1. GoodBut(State, {}) /\ State.tm = tm /\ State.conn = conn /\ State.lt = lt /\ State \in TransferStates
  BY StateFields DEF TransferStrong, GoodBut
<1>2. tm.status \in Awaiting \cup {"TRANSFERRING"} => \A x \in Sides : Live(State, x)
  BY <1>1, StatusFacts DEF Live, Awaiting
<1>3. ASSUME NEW x \in Sides, IsSite(State, x), tm.status = "AWAITING_PASSIVE", tm.pasv = x
      PROVE  conn[x].hold # "free" /\ conn[x].cmd # "none"
  <2>1. TakesPart(conn[x], tm.status, tm.pasv = x, x) /\ (tm.pasv = x) = TRUE /\ conn[x].hold # "free"
    BY <1>1, <1>2, <1>3, Holder DEF Awaiting
  <2>2. TakesPart(conn[x], "AWAITING_PASSIVE", TRUE, x)
    BY <1>3, <2>1
  <2> QED
    BY <2>1, <2>2 DEF TakesPart, Busy, Early
<1>4. ASSUME NEW x \in Sides, IsSite(State, x), tm.status = "AWAITING_ACTIVE", tm.pasv # x
      PROVE  conn[x].hold # "free" /\ conn[x].cmd # "none"
  <2>1. TakesPart(conn[x], tm.status, tm.pasv = x, x) /\ (tm.pasv = x) = FALSE /\ conn[x].hold # "free"
    BY <1>1, <1>2, <1>4, Holder DEF Awaiting
  <2>2. TakesPart(conn[x], "AWAITING_ACTIVE", FALSE, x)
    BY <1>4, <2>1
  <2> QED
    BY <2>1, <2>2 DEF TakesPart, Busy, Early
<1>5. ASSUME NEW x \in Sides, IsSite(State, x), tm.status = "TRANSFERRING"
      PROVE  conn[x].cmd \in {"xfer", "data"}
  <2>1. TakesPart(conn[x], "TRANSFERRING", tm.pasv = x, x)
    BY <1>1, <1>2, <1>5, Holder
  <2> QED
    BY <2>1 DEF TakesPart
<1>6. tm.pasv \in Sides /\ Other(tm.pasv) \in Sides /\ tm.pasv # Other(tm.pasv)
  BY <1>1, Fields, SideFacts
<1>7. ASSUME tm.status = "AWAITING_PASSIVE", ~IsSite(State, tm.pasv) PROVE FALSE
  <2>1. HasLocal(State) /\ tm.pasv = Local(State)
    BY <1>1, <1>6, <1>7, LocalFacts
  <2>2. SocketGood(State)
    BY <1>1, <2>1, SocketStatus
  <2> QED
    BY <1>1, <1>7, <2>1, <2>2 DEF SocketGood
<1>8. ASSUME tm.status = "AWAITING_ACTIVE", ~IsSite(State, Other(tm.pasv)) PROVE lt = "connecting"
  <2>1. HasLocal(State) /\ Other(tm.pasv) = Local(State)
    BY <1>1, <1>6, <1>8, LocalFacts
  <2>2. SocketGood(State)
    BY <1>1, <2>1, SocketStatus
  <2> QED
    BY <1>1, <1>6, <1>8, <2>1, <2>2 DEF SocketGood
<1>9. tm.status \in Awaiting =>
        \/ \E x \in Sides : conn[x].hold # "free" /\ conn[x].cmd # "none"
        \/ lt \in {"connecting", "open"}
  <2>1. CASE tm.status = "AWAITING_PASSIVE"
    BY <1>3, <1>6, <1>7, <2>1
  <2>2. CASE tm.status = "AWAITING_ACTIVE"
    BY <1>4, <1>6, <1>8, <2>2
  <2> QED
    BY <2>1, <2>2 DEF Awaiting
<1> QED
  BY <1>5, <1>9 DEF NoSilentWait

LEMMA StrongVerdict ==
  ASSUME TransferStrong
  PROVE  Verdict
<1>1. ReportsGood(State) /\ State.tm = tm /\ State.rep = rep
  BY StateFields DEF TransferStrong, GoodBut
<1> QED
  BY <1>1 DEF ReportsGood, Verdict

\* From the start and by every step the state is good for both sides.
LEMMA AlwaysStrong ==
  ASSUME <<"UPLOAD", "src">> \notin Modes
  PROVE  Spec => []TransferStrong
<1>1. Init => TransferStrong
  BY TransferInit
<1>2. TransferStrong /\ [Next]_vars => TransferStrong'
  BY TransferStep
<1> QED
  BY <1>1, <1>2, PTL DEF Spec

\* TransferMonitor, its two connections and the local data socket agree on who
\* holds what and whose turn it is, whatever the sites answer and in whatever
\* order: a connection is locked exactly as long as its side of the transfer is
\* under way, and PORT, RETR and STOR are sent in the order a data connection
\* needs (transfermonitor.cpp, sitelogic.cpp's handleConnection).
THEOREM TransferCorrect ==
  ASSUME <<"UPLOAD", "src">> \notin Modes
  PROVE  Spec => []TransferInv
<1>1. TransferStrong => TransferInv
  BY StrongType, StrongOwnership, StrongOrder DEF TransferInv
<1> QED
  BY <1>1, AlwaysStrong, PTL

\* No order of replies, lost connections, data socket events and timeouts makes
\* an assert of TransferMonitor, SiteLogic or ConnStateTracker fail, but for an
\* upload with this host as its passive side.
THEOREM AssertsNeverFail ==
  ASSUME <<"UPLOAD", "src">> \notin Modes
  PROVE  Spec => []NoAssertFails
<1>1. TransferStrong => NoAssertFails
  BY StateFields DEF TransferStrong, GoodBut, NoAssertFails
<1> QED
  BY <1>1, AlwaysStrong, PTL

\* Until a side has completed or failed some command is outstanding or some
\* data socket is connecting whose outcome moves the transfer on: the monitor,
\* the connections and the data socket never all wait for each other.
THEOREM NobodyWaits ==
  ASSUME <<"UPLOAD", "src">> \notin Modes
  PROVE  Spec => []NoSilentWait
<1>1. TransferStrong => NoSilentWait
  BY StrongWait
<1> QED
  BY <1>1, AlwaysStrong, PTL

\* The TransferStatus an idle monitor leaves behind is true: successful exactly
\* when both sides reported completion, never still in progress, and the file no
\* longer marked as uploading once a side has reported (finish,
\* transferFailed, targetComplete and targetError of transfermonitor.cpp).
THEOREM VerdictTrue ==
  ASSUME <<"UPLOAD", "src">> \notin Modes
  PROVE  Spec => []Verdict
<1>1. TransferStrong => Verdict
  BY StrongVerdict
<1> QED
  BY <1>1, AlwaysStrong, PTL
=============================================================================
