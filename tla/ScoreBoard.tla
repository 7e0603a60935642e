----------------------------- MODULE ScoreBoard -----------------------------
(***************************************************************************)
(* How the engine decides what to send where in one spread job: the        *)
(* scoreboard and the failboard (src/src/engine.cpp, race.cpp), fed with   *)
(* the change marks of the sites' file lists and worked off by             *)
(* issueOptimalTransfers.                                                  *)
(*                                                                         *)
(* An element of a board is <<f, a, b>>: send file f from site a to site   *)
(* b.  The score of an element only orders the transfers and is left out;  *)
(* ElementBoard models the container.  The update of the board may be      *)
(* deferred while the work queue is overloaded; forcescoreboard, which     *)
(* limits the deferral to one tick, is not kept, so an update may be       *)
(* deferred for longer here.  Skiplists appear as the files a site denies. *)
(* A reset of the job replaces the lists of its sites; transfers in flight *)
(* and deferred updates that still hold replaced lists are forgotten here. *)
(***************************************************************************)
EXTENDS Integers, FiniteSets

CONSTANTS
  Site, File,
  Settings,     \* the pairs of sites raceTransferPossible allows by settings
  NoCompleteDown, \* the sites with no download slots once they are complete
  Denied,       \* <<f, s>>: the skiplist of site s denies file f
  MaxPair,      \* MAX_SINGLE_PAIR_FILE_TRANSFER_ATTEMPTS
  MaxAll,       \* MAX_TRANSFER_ATTEMPTS_BEFORE_SKIP
  MaxFailures,  \* MAX_LIST_FAILURES_BEFORE_STATE_FAILED
  MaxXfer       \* bound: transfers in flight

ASSUME BoardAssumption ==
  /\ Settings \subseteq Site \X Site /\ NoCompleteDown \subseteq Site
  /\ Denied \subseteq File \X Site
  /\ MaxPair \in Nat \ {0} /\ MaxAll \in Nat \ {0}
  /\ MaxFailures \in Nat \ {0}
  /\ MaxXfer \in Nat

Element == File \X Site \X Site
States == {"ABSENT", "UNKNOWN", "NONEXISTENT", "LISTED", "PRE_FAIL", "FAILED"}

VARIABLES
  lists,    \* what the FileList of each site holds, and its marks
  sites,    \* the sites of the job
  done,     \* the sites whose SiteRace is over
  board,    \* scoreboard
  tried,    \* the elements of it that wasAttempted holds for
  fail,     \* failboard
  pend,     \* spreadjobfilelistschanged
  xfer,     \* transfers of the job in flight
  attempts  \* transferattempts

bvars == <<lists, sites, done, board, tried, fail, pend, xfer, attempts>>
jobvars == <<sites, done, attempts>>

ListRec == [st : States, size : [File -> {"no", "empty", "full"}],
            up : SUBSET File, ch : SUBSET File, changed : BOOLEAN,
            failures : 0..MaxFailures - 1, inb : BOOLEAN,
            dip : BOOLEAN] \* history: on the board, it has been PRE_FAIL or FAILED
BlankList(st) == [st |-> st, size |-> [f \in File |-> "no"], up |-> {},
                  ch |-> {}, changed |-> FALSE, failures |-> 0, inb |-> FALSE,
                  dip |-> FALSE]

BoardTypeOK ==
  /\ lists \in [Site -> ListRec]
  /\ done \subseteq Site /\ sites \subseteq Site
  /\ board \subseteq Element /\ fail \subseteq Element /\ tried \subseteq board
  /\ pend \subseteq Site
  /\ xfer \subseteq Element \X {"both", "complete", "error"}
  /\ attempts \in [pair : [Element -> 0..MaxPair],
                   all : [File \X Site -> 0..MaxAll]]

NoAttempts == [pair |-> [e \in Element |-> 0],
               all |-> [k \in File \X Site |-> 0]]

ScoreInit ==
  /\ \E st \in [Site -> {"ABSENT", "UNKNOWN"}] :
       lists = [l \in Site |-> BlankList(st[l])]
  /\ sites = Site /\ done = {} /\ board = {} /\ tried = {} /\ fail = {} /\ pend = {}
  /\ xfer = {}
  /\ attempts = NoAttempts

Contains(ls, l, f) == ls[l].size[f] # "no"

\* raceTransferPossible, for lists of two sites.
Possible(a, b) ==
  /\ a # b /\ <<a, b>> \in Settings
  /\ ~(a \in done /\ a \in NoCompleteDown)

Sendable(ls, f, a, b) ==
  /\ ls[a].size[f] = "full" /\ ~Contains(ls, b, f)
  /\ <<f, b>> \notin Denied /\ Possible(a, b)

\* hasFailedTransfer: the pair has had its share of attempts, or all
\* sources of the destination together have.
hasFailedTransfer(at, e) ==
  at.all[<<e[1], e[3]>>] >= MaxAll \/ at.pair[e] >= MaxPair

Lesser(a, b) == IF a < b THEN a ELSE b
addTransferAttempt(e) ==
  [pair |-> [attempts.pair EXCEPT ![e] = Lesser(@ + 1, MaxPair)],
   all |-> [attempts.all EXCEPT ![<<e[1], e[3]>>] = Lesser(@ + 1, MaxAll)]]

\* setChanged, with the names that are marked for the scoreboard.
Mark(r, F) == [r EXCEPT !.ch = @ \cup F, !.changed = TRUE, !.failures = 0]

\* What is left of the attempted flags t when the elements R leave the
\* scoreboard: the container moves its last element into the gap, which
\* clears the flag of that one.
Flags(t, R) == IF R = {} THEN {t} ELSE SUBSET t

ElementsOf(L) == {e \in Element : e[2] \in L \/ e[3] \in L}

(***************************************************************************)
(* addToScoreBoard, addToScoreBoardForPair: a list that is not on the      *)
(* board yet is compared with every other list of the job, both ways.      *)
(***************************************************************************)
ForPair(ls, a, b) ==
  IF ls[b].st \in {"ABSENT", "UNKNOWN", "PRE_FAIL", "FAILED"} THEN {}
  ELSE {<<f, a, b>> : f \in {g \in File : Sendable(ls, g, a, b)}}
addToScoreBoard(ls, l) ==
  UNION {ForPair(ls, c, l) \cup ForPair(ls, l, c) : c \in sites}

\* Comparing creates the directory in the books of the other sites.
AddSubDirectory(ls) ==
  [l \in Site |-> IF l \in sites /\ ls[l].st = "ABSENT"
                  THEN BlankList("UNKNOWN") ELSE ls[l]]

(***************************************************************************)
(* updateScoreBoard: the marked files of the lists in pend.  The order in  *)
(* which the lists are taken makes no difference: what is removed and what *)
(* is added depends on the lists only, and no element is both.             *)
(***************************************************************************)
Comparable(ls) == {c \in sites : ls[c].st \notin {"ABSENT", "UNKNOWN"}}

\* Variant: elements to a destination that has got the file stay.
GoneSourceOnly(ls, L) ==
  {e \in Element :
     /\ e[2] \in L /\ e[3] \in Comparable(ls)
     /\ e[1] \in ls[e[2]].ch /\ ~Contains(ls, e[2], e[1])}

Gone(ls, L) ==
  {e \in Element :
     \/ /\ e[2] \in L /\ e[3] \in Comparable(ls)
        /\ e[1] \in ls[e[2]].ch /\ ~Contains(ls, e[2], e[1])
     \/ /\ e[3] \in L /\ e[2] \in Comparable(ls)
        /\ e[1] \in ls[e[3]].ch /\ Contains(ls, e[3], e[1])}

\* Variant: the reverse direction after a deletion is left out.
ComeForwardOnly(ls, L) ==
  {e \in Element :
     /\ e[2] \in L /\ e[3] \in Comparable(ls) /\ e[1] \in ls[e[2]].ch
     /\ ls[e[2]].st # "FAILED" /\ ls[e[3]].st # "FAILED"
     /\ Sendable(ls, e[1], e[2], e[3])}

Come(ls, L) ==
  {e \in Element :
     /\ \/ e[2] \in L /\ e[3] \in Comparable(ls) /\ e[1] \in ls[e[2]].ch
        \/ e[3] \in L /\ e[2] \in Comparable(ls) /\ e[1] \in ls[e[3]].ch
     /\ ls[e[2]].st # "FAILED" /\ ls[e[3]].st # "FAILED"
     /\ Sendable(ls, e[1], e[2], e[3])}
BoardUpdatesReset(r) == [r EXCEPT !.ch = {}, !.changed = FALSE]

\* b and t are the board and its attempted elements so far, P the lists.
updateScoreBoard(ls, b, t, P) ==
  LET failed == {l \in P : ls[l].st = "FAILED"}
      L == P \ failed
      come == Come(ls, L)
      good == {e \in come : ~hasFailedTransfer(attempts, e)}
      gone == Gone(ls, L) \cup ElementsOf(failed)
  IN /\ board' = (b \ gone) \cup good
     /\ tried' \in Flags(t \ (gone \cup good), b \cap gone)
     /\ fail' = (fail \ gone) \cup (come \ good)
     /\ lists' = [l \in Site |->
                    CASE l \in failed -> [ls[l] EXCEPT !.inb = FALSE, !.dip = FALSE]
                      [] l \in L -> BoardUpdatesReset(ls[l])
                      [] OTHER -> IF L = {} THEN ls[l]
                                  ELSE AddSubDirectory(ls)[l]]
     /\ pend' = {}

(***************************************************************************)
(* jobFileListRefreshed for list l, whose new contents are in ls; the work *)
(* queue may be overloaded.                                                *)
(***************************************************************************)
jobFileListRefreshed(ls, l, overload) ==
  LET on == ~ls[l].inb /\ ls[l].st # "FAILED"
      add == IF on THEN addToScoreBoard(ls, l) ELSE {}
      ls1 == IF on THEN [AddSubDirectory(ls) EXCEPT ![l].inb = TRUE,
                           ![l].dip = (ls[l].st = "PRE_FAIL")] ELSE ls
      P == IF ls[l].changed THEN pend \cup {l} ELSE pend
  IN IF l \in done
     THEN lists' = ls /\ UNCHANGED <<board, tried, fail, pend>>
     ELSE IF ~overload
          THEN updateScoreBoard(ls1, board \cup add, tried \ add, P)
          ELSE /\ lists' = ls1 /\ board' = board \cup add
               /\ tried' = tried \ add /\ pend' = P
               /\ UNCHANGED fail

(***************************************************************************)
(* What the connections of a site report.                                  *)
(***************************************************************************)
HasList(l) == lists[l].st # "ABSENT"

\* A listing is worked in: files may appear, grow, shrink and vanish, but
\* one that is being uploaded stays.  G are known files that grow.
Listing(l, size, G, overload) ==
  LET r == lists[l]
      new == [f \in File |-> IF f \in r.up /\ size[f] = "no"
                             THEN r.size[f] ELSE size[f]]
      F == {f \in File : new[f] # r.size[f]} \cup G
      r1 == [r EXCEPT !.size = new, !.st = "LISTED"]
  IN /\ HasList(l)
     /\ G \subseteq {f \in File : r.size[f] = "full" /\ new[f] = "full"}
     /\ jobFileListRefreshed([lists EXCEPT ![l] = IF F = {} THEN r1
                                                  ELSE Mark(r1, F)],
                             l, overload)
     /\ UNCHANGED <<jobvars, xfer>>

\* A CWD to the directory is denied.  report: the list's own update state
\* moved to REFRESHED by this.
CwdFailed(l, report, overload) ==
  LET r == lists[l]
      fatal == r.st = "PRE_FAIL" \/ (r.st = "LISTED" /\ r.failures + 1 >= MaxFailures)
      r1 == CASE fatal -> [Mark(r, {}) EXCEPT !.st = "FAILED",
                                               !.dip = r.inb]
              [] ~fatal /\ r.st = "LISTED" -> [r EXCEPT !.failures = @ + 1]
              [] r.st = "UNKNOWN" -> [r EXCEPT !.st = "NONEXISTENT"]
              [] OTHER -> r
      ls == [lists EXCEPT ![l] = r1]
  IN /\ HasList(l)
     /\ fatal \/ r.st = "UNKNOWN" => report
     /\ IF report THEN jobFileListRefreshed(ls, l, overload)
        ELSE lists' = ls /\ UNCHANGED <<board, tried, fail, pend>>
     /\ UNCHANGED <<jobvars, xfer>>

\* A CWD succeeds, or the MKD that was to make the directory fails.
SitePathState(l, exists) ==
  /\ HasList(l)
  /\ LET r == lists[l]
         prefail == ~exists /\ r.st \in {"UNKNOWN", "NONEXISTENT"}
     IN lists' = [lists EXCEPT ![l] =
                    CASE exists -> [r EXCEPT !.st = "LISTED"]
                      [] prefail -> [r EXCEPT !.st = "PRE_FAIL", !.dip = r.inb]
                      [] OTHER -> r]
  /\ UNCHANGED <<jobvars, board, tried, fail, pend, xfer>>

\* A list of another job is refreshed: the deferred updates of this one are
\* worked in as well.
OtherJobRefreshed ==
  /\ pend # {}
  /\ updateScoreBoard(lists, board, tried, pend)
  /\ UNCHANGED <<jobvars, xfer>>


(***************************************************************************)
(* Transfers.                                                              *)
(***************************************************************************)
transferExpectedSoon(e) ==
  /\ e[3] \notin done /\ e \notin tried
  /\ Contains(lists, e[2], e[1]) /\ ~Contains(lists, e[3], e[1])

\* T are the elements that are engaged (slots, logins, the retry backoff
\* and the potential tracker decide).  Engaging touches the file in the
\* destination's list, which rules out the other sources of it.
issueOptimalTransfers(T) ==
  /\ T # {}
  /\ \A e \in T : transferExpectedSoon(e)
  /\ \A e, d \in T : e[1] = d[1] /\ e[3] = d[3] => e = d
  /\ lists' = [l \in Site |->
                 LET F == {e[1] : e \in {x \in T : x[3] = l}}
                 IN IF F = {} THEN lists[l]
                    ELSE Mark([lists[l] EXCEPT
                                 !.size = [f \in File |-> IF f \in F THEN "empty"
                                                          ELSE @[f]],
                                 !.up = @ \cup F], F)]
  /\ tried' = tried \cup T
  /\ xfer' = xfer \cup (T \X {"both"})
  /\ UNCHANGED <<jobvars, board, fail, pend>>

\* finishUpload and removeFile.
FinishUpload(r, f) ==
  IF f \in r.up THEN Mark([r EXCEPT !.up = @ \ {f}], {}) ELSE r
RemoveFile(r, f) ==
  IF r.size[f] = "no" THEN r
  ELSE Mark([r EXCEPT !.size[f] = "no", !.up = @ \ {f}], {f})

\* The destination is through with its part of the transfer.
TargetEnds(e, err) ==
  LET f == e[1]  b == e[3]
  IN /\ <<e, "both">> \in xfer
     /\ lists' = [lists EXCEPT ![b] = IF err THEN RemoveFile(@, f)
                                      ELSE FinishUpload(@, f)]
     /\ xfer' = (xfer \ {<<e, "both">>})
                  \cup {<<e, IF err THEN "error" ELSE "complete">>}
     /\ UNCHANGED <<jobvars, board, tried, fail, pend>>

\* The destination has the file already, and may name other files it has
\* (XDUPE); SiteLogic then works the list in.
TargetDupe(e, F, overload) ==
  LET f == e[1]  b == e[3]
      r == FinishUpload(lists[b], f)
      new == {g \in F : r.size[g] = "no"}
      r1 == IF new = {} THEN r
            ELSE Mark([r EXCEPT !.size = [g \in File |-> IF g \in new THEN "empty"
                                                         ELSE @[g]]], new)
      ls == [lists EXCEPT ![b] = r1]
  IN /\ <<e, "both">> \in xfer
     /\ xfer' = (xfer \ {<<e, "both">>}) \cup {<<e, "error">>}
     /\ IF F = {} THEN lists' = ls /\ UNCHANGED <<board, tried, fail, pend>>
        ELSE jobFileListRefreshed(ls, b, overload)
     /\ UNCHANGED jobvars

\* TransferMonitor::finish: Race::transferSuccessful, setFileUpdateFlag.
transferSuccessful(e) ==
  LET f == e[1]  b == e[3]
  IN /\ <<e, "complete">> \in xfer
     /\ attempts' = addTransferAttempt(e)
     /\ lists' = [lists EXCEPT ![b] =
                    IF @.size[f] = "empty"
                    THEN Mark([@ EXCEPT !.size[f] = "full"], {f}) ELSE @]
     /\ xfer' = xfer \ {<<e, "complete">>}
     /\ UNCHANGED <<sites, done, board, tried, fail, pend>>

\* Race::transferFailed, then Engine::transferFailed.
transferFailed(e, ph) ==
  LET at == addTransferAttempt(e)
      move == IF hasFailedTransfer(at, e) THEN {e} \cap board ELSE {}
  IN /\ ph \in {"complete", "error"} /\ <<e, ph>> \in xfer
     /\ attempts' = at
     /\ fail' = fail \cup move
     /\ board' = board \ move /\ tried' \in Flags(tried \ move, move)
     /\ xfer' = xfer \ {<<e, ph>>}
     /\ UNCHANGED <<lists, sites, done, pend>>

(***************************************************************************)
(* The job.                                                                *)
(***************************************************************************)
wipeFromScoreBoard(L) ==
  /\ board' = board \ ElementsOf(L)
  /\ tried' \in Flags(tried \ ElementsOf(L), board \cap ElementsOf(L))
  /\ fail' = fail \ ElementsOf(L)

removeSiteFromRace(s) ==
  /\ s \in sites
  /\ sites' = sites \ {s} /\ done' = done \cup {s}
  /\ wipeFromScoreBoard({s})
  /\ UNCHANGED <<lists, attempts, pend, xfer>>

\* A site is complete (D = {s}), or the job is aborted or times out
\* (D = sites); with the last site the job is over.
SitesDone(D) ==
  /\ D # {} /\ D \subseteq sites \ done
  /\ done' = done \cup D
  /\ IF sites \subseteq done' THEN wipeFromScoreBoard(sites)
     ELSE UNCHANGED <<board, tried, fail>>
  /\ UNCHANGED <<lists, sites, attempts, pend, xfer>>

resetRace(hard) ==
  /\ lists' = [l \in Site |->
                 IF l \in sites THEN BlankList(IF hard THEN "UNKNOWN"
                                               ELSE lists[l].st)
                 ELSE lists[l]]
  /\ done' = done \ sites
  /\ attempts' = NoAttempts
  /\ wipeFromScoreBoard(sites)
  /\ xfer' = {} /\ pend' = {}
  /\ UNCHANGED sites

\* Variant: the failboard is not emptied.
RetryFailedKeeps ==
  /\ attempts # NoAttempts /\ sites \ done # {}
  /\ attempts' = NoAttempts
  /\ board' = board \cup fail /\ tried' = tried \ fail
  /\ UNCHANGED <<lists, sites, done, pend, xfer, fail>>

\* Nothing has happened for a while, and nothing on the board is expected
\* to: failed transfers get another chance (clearTransferAttempts,
\* restoreFromFailed).  SpreadJobs models that it happens once.
RetryFailed ==
  /\ attempts # NoAttempts /\ sites \ done # {}
  /\ attempts' = NoAttempts
  /\ board' = board \cup fail /\ tried' = tried \ fail /\ fail' = {}
  /\ UNCHANGED <<lists, sites, done, pend, xfer>>

ScoreNext ==
  \/ \E l \in Site, o \in BOOLEAN :
       \/ \E size \in [File -> {"no", "empty", "full"}], G \in SUBSET File :
            Listing(l, size, G, o)
       \/ \E report \in BOOLEAN : CwdFailed(l, report, o)
  \/ \E l \in Site, x \in BOOLEAN : SitePathState(l, x)
  \/ OtherJobRefreshed
  \/ /\ Cardinality(xfer) < MaxXfer
     /\ \E T \in SUBSET board : issueOptimalTransfers(T)
  \/ \E e \in Element :
       \/ \E err \in BOOLEAN : TargetEnds(e, err)
       \/ \E F \in SUBSET File, o \in BOOLEAN : TargetDupe(e, F, o)
       \/ transferSuccessful(e)
       \/ \E ph \in {"complete", "error"} : transferFailed(e, ph)
  \/ \E s \in Site : removeSiteFromRace(s)
  \/ \E D \in {{s} : s \in Site} \cup {sites \ done} : SitesDone(D)
  \/ \E hard \in BOOLEAN : resetRace(hard)
  \/ RetryFailed

ScoreSpec == ScoreInit /\ [][ScoreNext]_bvars

(***************************************************************************)
(* Properties.                                                             *)
(***************************************************************************)
Marked(e) == e[1] \in lists[e[2]].ch \cup lists[e[3]].ch

\* Nothing is forgotten: a file that a site has and another could get is on
\* the scoreboard and not taken for attempted, or on the failboard, or marked
\* in one of the two lists so that the next update puts it there; however
\* listings, failures, deferrals and transfers interleave.  A refresh is one
\* step here: what is called while issueOptimalTransfers walks the scoreboard
\* is not spoken of.  One case is left
\* out (dip): a source that comes on the board, its files unchanged, while
\* the destination has failed for the moment does not return to the board
\* when the destination recovers.
Remembered ==
  \A f \in File, a, b \in sites :
    LET e == <<f, a, b>>
    IN /\ lists[a].inb /\ lists[b].inb /\ ~lists[b].dip
       /\ {a, b} \cap done = {}
       /\ lists[a].st # "FAILED" /\ lists[b].st \in {"LISTED", "NONEXISTENT"}
       /\ Sendable(lists, f, a, b)
       => e \in (board \ tried) \cup fail \/ Marked(e)

\* Nothing outdated stays: an element between sites of the job whose file has left the source or has
\* come to the destination is due to be taken off, the file being marked.
OutdatedMarked ==
  \A e \in board \cup fail :
    {e[2], e[3]} \subseteq sites /\ ~Marked(e) =>
      Contains(lists, e[2], e[1]) /\ ~Contains(lists, e[3], e[1])

\* Only transfers that have used up their attempts wait on the failboard.
FailedExhausted == \A e \in fail : hasFailedTransfer(attempts, e)

\* The failboard holds only elements it may hold, and the counters of attempts
\* stay within their bounds.
FailedInv == BoardTypeOK /\ FailedExhausted
=============================================================================
