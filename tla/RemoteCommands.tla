-------------------------- MODULE RemoteCommands --------------------------
(***************************************************************************)
(* The commands of the UDP interface (RemoteCommandHandler) and the        *)
(* requests of the REST interface (RestApi) that start jobs, address       *)
(* groups of sites and end spread jobs.  The two were written apart and    *)
(* must do the same.                                                       *)
(*                                                                         *)
(* A path is a sequence of levels; an absolute one starts with the level   *)
(* "/".  The engine's answer to a spread job is given by SpreadJobs and is *)
(* any answer here; transfer jobs are started as the engine checks them.   *)
(***************************************************************************)
EXTENDS Integers, Sequences, FiniteSets, SequencesExt

CONSTANTS SiteNames,      \* the sites that exist
          SectionNames,   \* the sections some site may define
          Given,          \* the paths a command may name
          Bytes           \* the sizes of what a spread job has on a site, and in all

\* A path has a level and no name of a site or section is empty; "*" is the
\* commands' word for all sites, no site has it for its name.
ASSUME RemoteAssumption ==
  /\ SiteNames \subseteq STRING \ {"", "*"} /\ SectionNames \subseteq STRING \ {""}
  /\ Given \subseteq Seq(STRING) \ {<<>>}
  /\ Bytes \subseteq Nat /\ 0 \in Bytes

VARIABLES config,   \* per site: disabled, and the sections it defines
          notify,   \* RemoteCommandNotify: 0 disabled .. 3 all commands
          job,      \* the spread job: status, its sites, the done ones, bytes
          last,     \* the last command and what it led to
          topic     \* which commands are sent; the topics share no state

remoteVars == <<config, notify, job, last, topic>>

ACTION_REQUESTED == 1
JOBS_ADDED == 2
ALL_COMMANDS == 3
Unknown == "nowhere"       \* a name that is no site and no section
NoName == ""
Refused == [type |-> "refused"]
DownloadPath == <<"/", "dl">>
MAX_PERCENTAGE_FOR_INCOMPLETE_DELETE == 95

isRelative(p) == Head(p) # "/"
hasSection(s, sec) == sec \in config[s].sections
getSectionPath(s, sec) == <<"/", s, sec>>
getSiteLogic(s) == s \in SiteNames

useOrSectionTranslate(p, s) ==
  IF ~isRelative(p) THEN [ok |-> TRUE, section |-> NoName, path |-> p]
  ELSE IF hasSection(s, Head(p)) THEN [ok |-> TRUE, section |-> Head(p), path |-> getSectionPath(s, Head(p)) \o Tail(p)]
  ELSE [ok |-> FALSE, section |-> NoName, path |-> p]

---------------------------------------------------------------------------
(* Transfer jobs *)

SectionGood(s, sec) == sec = NoName \/ hasSection(s, sec)

newTransferJobFXP(s, sp, ssec, f, d, dp, dsec, df) ==
  IF getSiteLogic(s) /\ getSiteLogic(d) /\ SectionGood(s, ssec) /\ SectionGood(d, dsec) /\ f # NoName /\ df # NoName
  THEN [type |-> "fxp", src |-> s, spath |-> sp, ssec |-> ssec, file |-> f, dst |-> d, dpath |-> dp, dsec |-> dsec, dfile |-> df]
  ELSE Refused

newTransferJobDownload(s, sp, ssec, f, dp, df) ==
  IF getSiteLogic(s) /\ SectionGood(s, ssec) /\ f # NoName /\ df # NoName
  THEN [type |-> "download", src |-> s, spath |-> sp, ssec |-> ssec, file |-> f, dst |-> NoName, dpath |-> dp, dsec |-> NoName, dfile |-> df]
  ELSE Refused

newTransferJobUpload(sp, f, d, dp, dsec, df) ==
  IF getSiteLogic(d) /\ SectionGood(d, dsec) /\ f # NoName /\ df # NoName
  THEN [type |-> "upload", src |-> NoName, spath |-> sp, ssec |-> NoName, file |-> f, dst |-> d, dpath |-> dp, dsec |-> dsec, dfile |-> df]
  ELSE Refused

\* the name at the destination: the last argument of fxp, or the source's name
DstFile(c) == IF c.dfile = NoName THEN c.file ELSE c.dfile

commandFXPNoSection(c) ==
  LET s == useOrSectionTranslate(c.sp, c.src)
      d == useOrSectionTranslate(c.dp, c.dst)
  IN IF ~getSiteLogic(c.src) \/ ~getSiteLogic(c.dst) THEN Refused
     ELSE IF ~s.ok \/ ~d.ok THEN Refused
     ELSE newTransferJobFXP(c.src, s.path, NoName, c.file, c.dst, d.path, NoName, DstFile(c))

\* c.named: the command gives the file by itself, as fxp always does; otherwise
\* it is the last level of the path
commandFXP(c) ==
  LET s == useOrSectionTranslate(c.sp, c.src)
      d == useOrSectionTranslate(c.dp, c.dst)
  IN IF ~getSiteLogic(c.src) \/ ~getSiteLogic(c.dst) THEN Refused
     ELSE IF ~s.ok \/ ~d.ok THEN Refused
     ELSE newTransferJobFXP(c.src, s.path, s.section, c.file, c.dst, d.path, d.section, DstFile(c))

commandDownload(c, dpath) ==
  LET s == useOrSectionTranslate(c.sp, c.src)
      file == IF c.named THEN c.file ELSE Last(s.path)
  IN IF ~getSiteLogic(c.src) THEN Refused
     ELSE IF ~s.ok THEN Refused
     ELSE newTransferJobDownload(c.src, IF c.named THEN s.path ELSE Front(s.path), s.section, file, dpath, file)

commandDownloadToPath(c) == commandDownload(c, c.dp)

commandUpload(c) ==
  LET file == IF c.named THEN c.file ELSE Last(c.sp)
      d == useOrSectionTranslate(c.dp, c.dst)
  IN IF ~getSiteLogic(c.dst) THEN Refused
     ELSE IF ~d.ok THEN Refused
     ELSE newTransferJobUpload(IF c.named THEN c.sp ELSE Front(c.sp), file, c.dst, d.path, d.section, file)

\* a section the path names goes before the one of the section key
SideSection(given, translated) == IF translated # NoName THEN translated ELSE given

\* one side of a posted transfer job: the section key first, then the path key
TransferSide(site, section, path) ==
  LET t == useOrSectionTranslate(path, site)
      bySection == IF section = NoName THEN <<>> ELSE getSectionPath(site, section)
  IN IF section # NoName /\ site = NoName THEN [ok |-> FALSE]
     ELSE IF section # NoName /\ ~hasSection(site, section) THEN [ok |-> FALSE]
     ELSE IF path # <<>> /\ site # NoName
          THEN IF t.ok THEN [ok |-> TRUE, path |-> t.path, section |-> SideSection(section, t.section)]
                       ELSE [ok |-> FALSE]
     ELSE IF path # <<>> THEN [ok |-> TRUE, path |-> path, section |-> section]
     ELSE IF bySection # <<>> THEN [ok |-> TRUE, path |-> bySection, section |-> section]
     ELSE IF site = NoName THEN [ok |-> TRUE, path |-> DownloadPath, section |-> section]
     ELSE [ok |-> FALSE]

handleTransferJobPost(r) ==
  LET s == TransferSide(r.src, r.ssec, r.sp)
      d == TransferSide(r.dst, r.dsec, r.dp)
  IN IF \E x \in {r.src, r.dst} : x # NoName /\ ~getSiteLogic(x) THEN Refused
     ELSE IF r.src = NoName /\ r.dst = NoName THEN Refused
     ELSE IF ~s.ok \/ ~d.ok THEN Refused
     ELSE IF r.src # NoName /\ r.dst # NoName
          THEN newTransferJobFXP(r.src, s.path, s.section, r.file, r.dst, d.path, d.section, r.file)
     ELSE IF r.src # NoName THEN newTransferJobDownload(r.src, s.path, s.section, r.file, d.path, r.file)
     ELSE newTransferJobUpload(s.path, r.file, r.dst, d.path, d.section, r.file)

---------------------------------------------------------------------------
(* Groups of sites *)

Enabled(s) == ~config[s].disabled

\* the UDP interface: "*", a list of names, or a section when no name is a site
getSiteLogicList(names) ==
  LET found == IF names = {"*"} THEN {s \in SiteNames : Enabled(s)} ELSE names \cap SiteNames
  IN IF found # {} THEN found
     ELSE {s \in SiteNames : Enabled(s) /\ \E x \in names : names = {x} /\ hasSection(s, x)}

\* the REST interface: sites, sites_with_sections and sites_all add up
restSiteLogicList(r) ==
     (r.sites \cap SiteNames)
  \cup {s \in SiteNames : r.all /\ Enabled(s)}
  \cup {s \in SiteNames : Enabled(s) /\ \E x \in r.sections : x \in SectionNames /\ hasSection(s, x)}

\* commandRawWithPath: sites on which the path cannot be resolved are skipped
commandRawWithPath(names, p) ==
  [s \in {x \in getSiteLogicList(names) : useOrSectionTranslate(p, x).ok} |-> useOrSectionTranslate(p, s).path]

---------------------------------------------------------------------------
(* Spread jobs *)

\* the sites a new spread job is asked for
parseRace(section, names) ==
  IF names = {"*"} THEN {s \in SiteNames : hasSection(s, section) /\ Enabled(s)} ELSE names

handleSpreadJobPost(section, names, all) ==
  IF all THEN {s \in SiteNames : Enabled(s) /\ hasSection(s, section)} ELSE names

\* the bell after a UDP command: the level all commands, or a job that was added
UdpBell(cmd, result) ==
  \/ notify = ALL_COMMANDS
  \/ cmd \in {"race", "distribute", "transfer"} /\ result # "ERROR" /\ notify >= JOBS_ADDED
  \/ cmd = "prepare" /\ result = "PREPARED" /\ notify >= ACTION_REQUESTED
  \/ cmd = "prepare" /\ result = "STARTED" /\ notify >= JOBS_ADDED

\* notifyoncurrentrequest
RestBell(cmd, result) ==
  \/ notify >= ALL_COMMANDS
  \/ /\ result # "ERROR"
     /\ notify >= JOBS_ADDED \/ (cmd # "transfer" /\ result = "PREPARED" /\ notify >= ACTION_REQUESTED)

\* a done site is never incomplete enough; others by their share of the bytes
isIncompleteEnoughForDelete(s) ==
  /\ s \notin job.done
  /\ job.total = 0 \/ (job.have[s] * 100) \div job.total < MAX_PERCENTAGE_FOR_INCOMPLETE_DELETE

abortRace(j) == IF j.status = "RUNNING" THEN [j EXCEPT !.status = "ABORTED"] ELSE j

deleteOnSites(j, delsites) ==
  [abortRace(j) EXCEPT !.deleted = @ \cup (delsites \cap j.sites)]

deleteOnAllSites(j, deleteoncomplete) ==
  deleteOnSites(j, {s \in j.sites : deleteoncomplete \/ isIncompleteEnoughForDelete(s)})

removeSiteFromRaceDeleteFiles(j, s, deleteoncomplete) ==
  IF s \notin j.sites THEN j
  ELSE [j EXCEPT !.sites = @ \ {s},
                 !.deleted = @ \cup {x \in {s} : deleteoncomplete \/ isIncompleteEnoughForDelete(s)}]

\* the commands abort, delete and abortdeleteincomplete
UdpEnd(cmd, names) ==
  CASE cmd = "abort" -> abortRace(job)
    [] cmd = "delete" /\ names = {} -> deleteOnAllSites(job, TRUE)
    [] cmd = "delete" /\ names # {} -> deleteOnSites(job, getSiteLogicList(names))
    [] cmd = "abortdeleteincomplete" -> deleteOnAllSites(job, FALSE)

\* POST /spreadjobs/JOB/abort with the key delete; with sites only those leave
handleSpreadJobAbort(mode, names) ==
  IF names = {}
  THEN CASE mode = "NONE" -> abortRace(job)
         [] mode = "INCOMPLETE" -> deleteOnAllSites(job, FALSE)
         [] mode \in {"OWN", "ALL"} -> deleteOnAllSites(job, TRUE)
  ELSE LET s == CHOOSE x \in names : TRUE     \* one site: several are taken one after the other
       IN CASE mode = "NONE" -> [job EXCEPT !.sites = @ \ {s}]
            [] mode = "INCOMPLETE" -> removeSiteFromRaceDeleteFiles(job, s, FALSE)
            [] mode \in {"OWN", "ALL"} -> removeSiteFromRaceDeleteFiles(job, s, TRUE)

---------------------------------------------------------------------------
Files == {"f", NoName}
Named == SiteNames \cup {Unknown}
Results == {"STARTED", "PREPARED", "ERROR"}
Nothing == [cmd |-> "nothing"]

Topics == {"transfer", "spread", "group", "end"}
Jobs == [status : {"RUNNING"}, sites : {SiteNames}, done : SUBSET SiteNames,
         have : [SiteNames -> Bytes], total : Bytes, deleted : {{}}]

\* The commands of the topics transfer and group change nothing that another
\* command reads: one of them is sent in a behaviour.  A topic varies the
\* part of the configuration that its commands read
RemoteInit ==
  /\ topic \in Topics
  /\ config \in [SiteNames -> [disabled : BOOLEAN, sections : SUBSET SectionNames]]
  /\ topic \in {"transfer"} => \A s \in SiteNames : Enabled(s)
  /\ notify = JOBS_ADDED
  /\ job \in Jobs
  /\ topic # "end" => job.done = {} /\ job.total = 0 /\ job.have = [s \in SiteNames |-> 0]
  /\ topic = "end" => \A s \in SiteNames : config[s].sections = SectionNames
  /\ last = Nothing

setNotify ==
  /\ topic = "spread"
  /\ \E n \in 0..ALL_COMMANDS : notify' = n
  /\ last' = Nothing /\ UNCHANGED <<config, job, topic>>

\* handleMessage dispatching fxp, download, downloadtopath and upload
UdpTransfer ==
  /\ topic = "transfer" /\ last = Nothing
  /\ \E cmd \in {"fxp", "download", "downloadtopath", "upload"}, src, dst \in Named, sp, dp \in Given,
        named \in BOOLEAN, dfile \in {NoName, "g"} :
     /\ IF cmd = "fxp" THEN named ELSE dfile = NoName
     /\ LET c == [src |-> src, dst |-> dst, sp |-> sp, dp |-> dp, file |-> "f", named |-> named, dfile |-> dfile]
            r == CASE cmd = "fxp" -> commandFXP(c)
                   [] cmd = "download" -> commandDownload(c, DownloadPath)
                   [] cmd = "downloadtopath" -> commandDownloadToPath(c)
                   [] cmd = "upload" -> commandUpload(c)
        IN last' = [cmd |-> cmd, asked |-> c, result |-> r,
                    bell |-> UdpBell("transfer", IF r = Refused THEN "ERROR" ELSE "STARTED")]
  /\ UNCHANGED <<config, notify, job, topic>>

PostTransfer ==
  /\ topic = "transfer" /\ last = Nothing
  /\ \E src, dst \in Named \cup {NoName}, ssec, dsec \in SectionNames \cup {NoName}, sp, dp \in Given \cup {<<>>}, f \in Files :
       LET c == [src |-> src, dst |-> dst, ssec |-> ssec, dsec |-> dsec, sp |-> sp, dp |-> dp, file |-> f]
           r == handleTransferJobPost(c)
       IN last' = [cmd |-> "post", asked |-> c, result |-> r,
                   bell |-> RestBell("transfer", IF r = Refused THEN "ERROR" ELSE "STARTED")]
  /\ UNCHANGED <<config, notify, job, topic>>

\* race, distribute and prepare; sites may name sites that do not define the section
UdpSpread ==
  /\ topic = "spread"
  /\ \E cmd \in {"race", "distribute", "prepare"}, sec \in SectionNames, names \in (SUBSET SiteNames) \cup {{"*"}}, result \in Results :
       /\ cmd # "prepare" => result # "PREPARED"
       /\ last' = [cmd |-> cmd, section |-> sec, names |-> names, sites |-> parseRace(sec, names), result |-> result,
                   bell |-> UdpBell(cmd, result)]
  /\ UNCHANGED <<config, notify, job, topic>>

\* raw, rawwithpath and idle: the command goes to every site of the group
UdpGroup ==
  /\ topic = "group" /\ last = Nothing
  /\ \E names \in {{n} : n \in Named \cup SectionNames \cup {"*"}} \cup {SiteNames, SiteNames \cup {Unknown}}, p \in Given :
       last' = [cmd |-> "group", names |-> names, sites |-> getSiteLogicList(names), path |-> p,
                withpath |-> commandRawWithPath(names, p)]
  /\ UNCHANGED <<config, notify, job, topic>>

UdpEndJob ==
  /\ topic = "end"
  /\ \E cmd \in {"abort", "delete", "abortdeleteincomplete"}, names \in {{}, {"*"}, SiteNames} \cup {{s} : s \in Named} :
       /\ cmd # "delete" => names = {}
       /\ job' = UdpEnd(cmd, names)
       /\ last' = [cmd |-> cmd, names |-> names, was |-> job]
  /\ UNCHANGED <<config, notify, topic>>

PostEndJob ==
  /\ topic = "end"
  /\ \E mode \in {"NONE", "INCOMPLETE", "OWN", "ALL"}, names \in {{}} \cup {{s} : s \in Named} :
       /\ job' = handleSpreadJobAbort(mode, names)
       /\ last' = [cmd |-> "postabort", mode |-> mode, names |-> names, was |-> job]
  /\ UNCHANGED <<config, notify, topic>>

RemoteNext == setNotify \/ UdpTransfer \/ PostTransfer \/ UdpSpread \/ UdpGroup \/ UdpEndJob \/ PostEndJob
RemoteSpec == RemoteInit /\ [][RemoteNext]_remoteVars

---------------------------------------------------------------------------
(* Properties *)

TransferCommands == {"fxp", "download", "downloadtopath", "upload"}

\* the request of the REST interface that says the same as a UDP command
AsPost(cmd, c) ==
  [src |-> IF cmd = "upload" THEN NoName ELSE c.src, dst |-> IF cmd \in {"fxp", "upload"} THEN c.dst ELSE NoName,
   ssec |-> NoName, dsec |-> NoName, sp |-> c.sp, dp |-> IF cmd = "download" THEN <<>> ELSE c.dp, file |-> c.file]

\* A transfer job asked for over UDP is the job the REST interface starts for
\* the same sites, paths and file: the two argument parsers
\* (RemoteCommandHandler::command*, RestApi::handleTransferJobPost) agree.  The
\* REST interface has one name for both ends, so fxp is compared without another
\* name at the destination.
SameJob ==
  last.cmd \in TransferCommands /\ last.asked.named /\ last.asked.dfile = NoName =>
    last.result = handleTransferJobPost(AsPost(last.cmd, last.asked))

\* A transfer job reads and writes exactly the paths the command named, those of
\* the download directory included: splitting a path into directory and file
\* loses nothing, and a file has another name at the destination only if fxp
\* gave it one (src/API:365-371).
NamesThePath ==
  last.cmd \in TransferCommands /\ last.result # Refused =>
    LET c == last.asked
        r == last.result
        source == IF last.cmd = "upload" THEN c.sp ELSE useOrSectionTranslate(c.sp, c.src).path
        target == CASE last.cmd \in {"fxp", "upload"} -> useOrSectionTranslate(c.dp, c.dst).path
                    [] last.cmd = "download" -> DownloadPath
                    [] last.cmd = "downloadtopath" -> c.dp
    IN /\ Append(r.spath, r.file) = IF c.named THEN Append(source, c.file) ELSE source
       /\ r.dpath = target
       /\ r.dfile = IF c.dfile # NoName THEN c.dfile ELSE r.file

\* The section a transfer job carries (it decides skip lists and statistics) is
\* one its site defines and its path lies in, except when a request gave both a
\* section and an absolute path.
JobInSection ==
  last.cmd \in TransferCommands \cup {"post"} /\ last.result # Refused =>
    LET r == last.result
        In(site, path, sec, file) ==
          sec # NoName => hasSection(site, sec) /\ IsPrefix(getSectionPath(site, sec), path \o <<file>>)
        Both(sec, p) == last.cmd = "post" /\ sec # NoName /\ p # <<>> /\ ~isRelative(p)
    IN /\ (last.cmd = "post" /\ Both(last.asked.ssec, last.asked.sp)) \/ In(r.src, r.spath, r.ssec, r.file)
       /\ (last.cmd = "post" /\ Both(last.asked.dsec, last.asked.dp)) \/ In(r.dst, r.dpath, r.dsec, r.dfile)

\* A command to a group of sites ("*" or a section) never reaches a disabled
\* site, the group is the one the REST interface would address, and a raw
\* command in a path runs only where the path resolves.
GroupsAgree ==
  last.cmd = "group" =>
    /\ \A s \in last.sites : config[s].disabled => s \in last.names
    /\ last.sites = restSiteLogicList(
          [sites |-> last.names, all |-> last.names = {"*"},
           sections |-> IF last.names \cap (SiteNames \cup {"*"}) = {} THEN last.names ELSE {}])
    /\ \A s \in DOMAIN last.withpath : ~isRelative(last.withpath[s])

\* Over both interfaces a new spread job asks the same sites and the bell rings
\* for the same outcomes at every level.
SpreadAgrees ==
  last.cmd \in {"race", "distribute", "prepare"} =>
    /\ last.sites = handleSpreadJobPost(last.section, last.names, last.names = {"*"})
    /\ last.bell = RestBell(last.cmd, last.result)

\* The sites a command that ends a job names, all of the job's if it names none.
SitesMeant ==
  CASE last.names = {} -> last.was.sites
    [] last.names # {} /\ last.cmd = "delete" -> getSiteLogicList(last.names)
    [] OTHER -> last.names

\* Those of all sites on which files are deleted, were they named: "incomplete"
\* spares the done sites and those with 95 percent of the bytes or more.
SitesDue ==
  CASE last.cmd = "abort" \/ (last.cmd = "postabort" /\ last.mode = "NONE") -> {}
    [] last.cmd = "abortdeleteincomplete" \/ (last.cmd = "postabort" /\ last.mode = "INCOMPLETE") ->
         {s \in SiteNames : s \notin last.was.done /\ (last.was.total = 0 \/ 100 * last.was.have[s] < 95 * last.was.total)}
    [] OTHER -> SiteNames

\* However a spread job is ended, over either interface, files are deleted on
\* exactly the sites of the job that were named, or all if none was, and that
\* are due: all of them, the incomplete ones or none.  A REST request that names
\* sites takes these from the job and leaves it running
\* (restapi.cpp:1622-1638); every other ending ends the job and keeps its
\* sites.  That holds of the UDP command "delete JOB SITES" too
\* (remotecommandhandler.cpp:496-501, engine.cpp:826-829), although
\* src/API:419-420 says of it that the sites are removed from the job instead of
\* aborting it: here the interfaces do differ.
DeletesAsAsked ==
  last.cmd \in {"abort", "delete", "abortdeleteincomplete", "postabort"} =>
    /\ job.deleted = last.was.deleted \cup (SitesMeant \cap last.was.sites \cap SitesDue)
    /\ IF last.cmd = "postabort" /\ last.names # {}
       THEN job.status = last.was.status /\ job.sites = last.was.sites \ last.names
       ELSE job.status = "ABORTED" /\ job.sites = last.was.sites

\* Types.
RemoteTypeOK ==
  /\ topic \in Topics /\ notify \in 0..ALL_COMMANDS
  /\ job.status \in {"RUNNING", "ABORTED"} /\ job.sites \subseteq SiteNames /\ job.deleted \subseteq SiteNames
  /\ last.cmd \in TransferCommands => last.result.type \in {"refused", IF last.cmd = "downloadtopath" THEN "download" ELSE last.cmd}

\* A command has the same meaning on both interfaces, but for what DeletesAsAsked
\* excepts, and that of its words.
InterfacesAgree ==
  /\ RemoteTypeOK /\ SameJob /\ NamesThePath /\ JobInSection
  /\ GroupsAgree /\ SpreadAgrees /\ DeletesAsAsked
=============================================================================
