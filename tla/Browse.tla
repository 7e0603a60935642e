------------------------------- MODULE Browse -------------------------------
(***************************************************************************)
(* The browser (src/src/ui/screens/browsescreen.cpp, browsescreensite.cpp, *)
(* browsescreenlocal.cpp, browsescreenselector.cpp): one or two sides, the *)
(* requests each side has under way, and the questions it asks.            *)
(*                                                                         *)
(* A side sends requests to a site or to the local storage, which execute  *)
(* them in any order; the side takes the results in the order it asked,    *)
(* and only when the browser is the top window.  What a directory holds is *)
(* abstracted to whether the listing is older than a change the side made. *)
(* The cursor, sorting, filters and comparing are left out.                *)
(***************************************************************************)
EXTENDS Integers, Sequences, FiniteSets, SequencesExt

CONSTANTS BPath,       \* directories
          SplitPath,   \* the ones visited while there are two sides (a bound)
          BName,       \* names of files
          MaxRequests, \* bound on the requests under way, of one side
          MaxSplitRequests \* ... and of each of two

ASSUME BrowseAssumption == SplitPath \subseteq BPath /\ IsFiniteSet(BName)

VARIABLES
  sides,     \* 1 is left, 2 is right; a single browser is side 1
  pane,      \* split, and the active side
  question,  \* the window above the browser that will hand it a command
  wrong      \* ghost: what has gone wrong with an answer so far

bvars == <<sides, pane, question, wrong>>

Nowhere == "nowhere"
Side == {1, 2}
Other(i) == 3 - i
\* DELETE stands for delete and wipe, MOVE for make directory, nuke and move:
\* they differ only in what is asked of the site or the local storage.
Changes == {"DELETE", "MOVE"}

\* BrowseScreenRequest.  late (ghost): a change of the same directory by the
\* same side was executed after this listing was taken.  Of a side, stale
\* (ghost): the same of what it shows; missed (ghost): a change has been
\* reported when another directory was shown, or a listing has failed, and
\* since then no listing was taken over with none out of date behind it.
RequestRec == [type : Changes \cup {"FILELIST", "PATH_INFO"},
               path : BPath \cup {Nowhere}, files : SUBSET BName,
               state : {"pending", "ok", "failed", "asked"}, late : BOOLEAN]
SideRec == [type : {"SITE", "LOCAL", "SELECTOR"}, path : BPath \cup {Nowhere},
            selected : SUBSET BName, requests : Seq(RequestRec),
            confirm : {"NONE", "DELETE"}, refreshafter : BOOLEAN,
            stale : BOOLEAN, missed : BOOLEAN]

\* Types.
BrowseTypeOK ==
  /\ sides \in [Side -> SideRec]
  /\ pane \in [split : BOOLEAN, active : Side, top : BOOLEAN]
  /\ question \in [kind : {"none", "confirm", "makedir", "move"},
                   asker : Side, path : BPath \cup {Nowhere},
                   files : SUBSET BName]
  /\ wrong \in [astray : BOOLEAN, assert : BOOLEAN]

Selector == [type |-> "SELECTOR", path |-> Nowhere, selected |-> {},
             requests |-> <<>>, confirm |-> "NONE", refreshafter |-> FALSE,
             stale |-> FALSE, missed |-> FALSE]
NoQuestion == [kind |-> "none", asker |-> 1, path |-> Nowhere, files |-> {}]

Request(type, path, files) ==
  [type |-> type, path |-> path, files |-> files, state |-> "pending",
   late |-> FALSE]

\* gotoPath of a site, requestLocalFileList of a local side.
gotoPath(s, p) == [s EXCEPT !.requests = Append(@, Request("FILELIST", p, {}))]
refreshFileList(s) == gotoPath(s, s.path)

NewSide(type, p) == gotoPath([Selector EXCEPT !.type = type], p)

\* initializeSite, initializeLocal, initializeSplit, ...SiteLocal, ...SiteSite.
BrowseInit ==
  /\ \E p \in BPath, q \in SplitPath :
       \/ \E type \in {"SITE", "LOCAL"} :
            /\ sides = <<NewSide(type, p), Selector>>
            /\ pane = [split |-> FALSE, active |-> 1, top |-> TRUE]
       \/ /\ sides = <<NewSide("SITE", q), Selector>>
          /\ pane = [split |-> TRUE, active |-> 2, top |-> TRUE]
       \/ \E type \in {"SITE", "LOCAL"} :
            /\ sides = <<NewSide("SITE", q), NewSide(type, q)>>
            /\ pane = [split |-> TRUE, active |-> 1, top |-> TRUE]
  /\ question = NoQuestion
  /\ wrong = [astray |-> FALSE, assert |-> FALSE]

Visited == IF pane.split THEN SplitPath ELSE BPath

-----------------------------------------------------------------------------
(* The site and the local storage execute requests in any order. *)

\* A change makes what the side shows, and what it has listed, out of date.
Execute(i, k) ==
  LET s == sides[i]
      r == s.requests[k]
  IN /\ r.state = "pending"
     /\ \E result \in {"ok", "failed"} :
          LET hit == result = "ok" /\ r.type \in Changes
              touched == [j \in DOMAIN s.requests |->
                            LET q == s.requests[j] IN
                            IF j = k THEN [q EXCEPT !.state = result]
                            ELSE IF /\ hit /\ q.type = "FILELIST"
                                    /\ q.state = "ok" /\ q.path = r.path
                                 THEN [q EXCEPT !.late = TRUE] ELSE q]
          IN sides' = [sides EXCEPT ![i].requests = touched,
                         ![i].stale = @ \/ (hit /\ r.path = s.path)]
     /\ UNCHANGED <<pane, question, wrong>>

-----------------------------------------------------------------------------
(* update: a side takes over the results that are ready. *)

\* The requests at the front that the loop of handleReadyRequests reaches: it
\* stops behind a question, whose result it has consumed.
ReadyCount(s) ==
  LET Ready(k) == \A j \in 1..k : s.requests[j].state \in {"ok", "failed"}
      Stops(k) == \E j \in 1..(k - 1) : s.requests[j].type = "PATH_INFO"
      counts == {k \in 0..Len(s.requests) : Ready(k) /\ ~Stops(k)}
  IN CHOOSE k \in counts : \A j \in counts : j <= k

\* loadFileListFromRequest and BrowseScreenLocal::gotoPath: a listing that
\* failed leaves the list alone.
LoadFileList(s, r) ==
  IF r.state = "failed" THEN [s EXCEPT !.missed = TRUE]
  ELSE [s EXCEPT !.path = r.path, !.selected = {}, !.stale = r.late,
                 !.missed = s.missed /\ \E k \in DOMAIN s.requests : s.requests[k].late]

\* Variant: a local change is looked at like a change of a site.
HandleChangeHere(s, r) ==
  IF r.state = "ok" /\ r.path = s.path THEN [s EXCEPT !.refreshafter = TRUE] ELSE s

\* A site asks for a new listing if the change succeeded and is visible now; a
\* local side always does.
HandleChange(s, r) ==
  IF s.type = "LOCAL" \/ (r.state = "ok" /\ r.path = s.path)
  THEN [s EXCEPT !.refreshafter = TRUE]
  ELSE [s EXCEPT !.missed = @ \/ r.state = "ok"]

HandleRequest(s, r) ==
  IF r.type = "FILELIST" THEN LoadFileList(s, r)
  ELSE IF r.type \in Changes THEN HandleChange(s, r) ELSE s

\* The results rs, one after the other.
HandleRequests(s, rs) ==
  LET after[k \in 0..Len(rs)] ==
        IF k = 0 THEN s ELSE HandleRequest(after[k - 1], rs[k])
  IN after[Len(rs)]

\* The results taken over when n are ready, the last of them a question if asks,
\* and the requests that stay: the question is asked until a command comes.
TakenOver(n, asks) == IF asks THEN n - 1 ELSE n
StillThere(s, n, asks) ==
  LET rest == SubSeq(s.requests, TakenOver(n, asks) + 1, Len(s.requests))
  IN IF asks THEN <<[s.requests[n] EXCEPT !.state = "asked"]>> \o Tail(rest) ELSE rest

\* handleReadyRequests of the side: the side, whether it asks the other side
\* to refresh too, and whether it asks a question.
handleReadyRequests(s) ==
  LET n == ReadyCount(s)
      asks == n > 0 /\ s.requests[n].type = "PATH_INFO"
      left == StillThere(s, n, asks)
      done == [HandleRequests(s, SubSeq(s.requests, 1, TakenOver(n, asks)))
                 EXCEPT !.requests = left]
      refresh == n > 0 /\ left = <<>> /\ done.refreshafter
  IN [side |-> IF refresh
               THEN refreshFileList([done EXCEPT !.refreshafter = FALSE])
               ELSE done,
      suggest |-> refresh /\ s.type = "SITE",
      asks |-> asks]

\* suggestOtherRefresh: both sides show the same site.
WithSuggestion(all, i, suggest) ==
  IF suggest /\ pane.split /\ all[1].type = "SITE" /\ all[2].type = "SITE"
  THEN [all EXCEPT ![Other(i)] = refreshFileList(@)]
  ELSE all

\* The question of a local side about the files it is to delete.
LocalQuestion(i, all) ==
  [kind |-> "confirm", asker |-> i, path |-> all[i].requests[1].path,
   files |-> all[i].requests[1].files]

Fits(all) ==
  \A i \in Side :
    Len(all[i].requests) <= IF pane.split THEN MaxSplitRequests ELSE MaxRequests

\* BrowseScreen::update: the left side, and the right one unless a question
\* has come up.  (\E l \in {e}: TLC evaluates e once.)
update ==
  /\ pane.top /\ question.kind = "none"
  /\ \E l \in {handleReadyRequests(sides[1])} :
     \E one \in {WithSuggestion([sides EXCEPT ![1] = l.side], 1, l.suggest)} :
     \E r \in {handleReadyRequests(one[2])} :
     \E both \in {IF l.asks \/ ~pane.split THEN one
                  ELSE WithSuggestion([one EXCEPT ![2] = r.side], 2, r.suggest)} :
       /\ both # sides
       /\ Fits(both)
       /\ sides' = both
       /\ question' = IF l.asks THEN LocalQuestion(1, both)
                      ELSE IF pane.split /\ r.asks THEN LocalQuestion(2, both)
                      ELSE question
  /\ UNCHANGED <<pane, wrong>>

-----------------------------------------------------------------------------
(* Keys.  They reach the browser when no other window is above it. *)

OnTop == pane.top /\ question.kind = "none"
Active == sides[pane.active]

\* Moving the cursor and selecting: what getSelectedNames returns.
Select ==
  /\ OnTop
  /\ Active.path # Nowhere
  /\ \E files \in SUBSET BName : sides' = [sides EXCEPT ![pane.active].selected = files]
  /\ UNCHANGED <<pane, question, wrong>>

\* Enter, left, the section hot keys, "go to path" and refresh.
ChangeDirectory ==
  /\ OnTop
  /\ Active.path # Nowhere
  /\ \E p \in Visited : sides' = [sides EXCEPT ![pane.active] = gotoPath(@, p)]
  /\ Fits(sides')
  /\ UNCHANGED <<pane, question, wrong>>

\* Delete and wipe on a site: the question comes at once.
DeleteKeySite ==
  /\ OnTop
  /\ Active.type = "SITE" /\ Active.selected # {}
  /\ sides' = [sides EXCEPT ![pane.active].confirm = "DELETE"]
  /\ question' = [kind |-> "confirm", asker |-> pane.active,
                  path |-> Active.path, files |-> Active.selected]
  /\ UNCHANGED <<pane, wrong>>

\* Delete and wipe on a local side: first it finds out what would be lost.
DeleteKeyLocal ==
  /\ OnTop
  /\ Active.type = "LOCAL" /\ Active.selected # {}
  /\ sides' = [sides EXCEPT ![pane.active].requests =
                 Append(@, Request("PATH_INFO", Active.path, Active.selected))]
  /\ Fits(sides')
  /\ UNCHANGED <<pane, question, wrong>>

\* goMakeDir, goMove (initiateMove) and goNuke.
OpenInput ==
  /\ OnTop
  /\ Active.path # Nowhere
  /\ \E kind \in {"makedir", "move"} :
       /\ kind = "move" => Active.selected # {}
       /\ question' = [kind |-> kind, asker |-> pane.active, path |-> Active.path,
                       files |-> Active.selected]
  /\ UNCHANGED <<sides, pane, wrong>>

\* switchSide: the side that is left is updated first, and may ask.
switchSide(all) ==
  LET i == pane.active
  IN \E h \in {handleReadyRequests(all[i])} :
       /\ sides' = IF h.suggest /\ all[1].type = "SITE" /\ all[2].type = "SITE"
                   THEN [all EXCEPT ![i] = h.side, ![Other(i)] = refreshFileList(@)]
                   ELSE [all EXCEPT ![i] = h.side]
       /\ Fits(sides')
       /\ pane' = [pane EXCEPT !.split = TRUE, !.active = Other(i)]
       /\ question' = IF h.asks THEN LocalQuestion(i, sides') ELSE question
       /\ UNCHANGED wrong

\* KEYACTION_SPLIT: a second side, or the other one.
SplitKey ==
  /\ OnTop
  /\ Active.path \in SplitPath \cup {Nowhere}
  /\ \A k \in DOMAIN Active.requests : Active.requests[k].path \in SplitPath
  /\ IF pane.split THEN switchSide(sides) ELSE switchSide([sides EXCEPT ![2] = Selector])

\* BROWSESCREENACTION_SITE (goSite) and BROWSESCREENACTION_HOME.
OpenSide ==
  /\ OnTop
  /\ Active.type = "SELECTOR"
  /\ \E type \in {"SITE", "LOCAL"}, p \in Visited :
       sides' = [sides EXCEPT ![pane.active] = NewSide(type, p)]
  /\ Fits(sides')
  /\ UNCHANGED <<pane, question, wrong>>

Leave == pane' = [pane EXCEPT !.top = FALSE] /\ UNCHANGED sides

\* closeSide: one side stays, and a selector alone is not kept on screen.
closeSide ==
  IF pane.split
  THEN /\ sides' = [sides EXCEPT ![1] = sides[Other(pane.active)], ![2] = Selector]
       /\ pane' = [split |-> FALSE, active |-> 1,
                   top |-> sides[Other(pane.active)].type # "SELECTOR"]
  ELSE Leave

\* BROWSESCREENACTION_CLOSE; its outstanding requests are still executed, but
\* nobody takes their results.
CloseKey ==
  /\ OnTop
  /\ IF Active.type # "SELECTOR" /\ pane.split
     THEN IF sides[Other(pane.active)].type = "SELECTOR" THEN Leave
          ELSE /\ sides' = [sides EXCEPT ![pane.active] = Selector]
               /\ UNCHANGED pane
     ELSE closeSide
  /\ UNCHANGED <<question, wrong>>

\* KEYACTION_BACK_CANCEL: first the selection goes, then the window.
BackKey ==
  /\ OnTop
  /\ \/ /\ Active.selected # {}
        /\ sides' = [sides EXCEPT ![pane.active].selected = {}]
        /\ UNCHANGED pane
     \/ Leave
  /\ UNCHANGED <<question, wrong>>

\* goContinueBrowsing; a browser that is opened anew is BrowseInit.
continueBrowsing ==
  /\ ~pane.top
  /\ Active.type # "SELECTOR" \/ pane.split
  /\ pane' = [pane EXCEPT !.top = TRUE]
  /\ UNCHANGED <<sides, question, wrong>>

-----------------------------------------------------------------------------
(* Commands: the answers of the windows above the browser. *)

\* One request for every file; which file it is matters when it is deleted.
Requests(type, s, files) ==
  [k \in 1..Len(SetToSeq(files)) |->
     Request(type, s.path, IF type = "DELETE" THEN {SetToSeq(files)[k]} ELSE {})]

\* BrowseScreenSite::command.
SiteCommand(s, command) ==
  CASE command = "yes" ->
         [s EXCEPT !.confirm = "NONE",
            !.requests = IF s.confirm = "NONE" THEN @
                         ELSE @ \o Requests(s.confirm, s, s.selected)]
    [] command = "no" -> [s EXCEPT !.confirm = "NONE"]
    [] command = "makedir" ->
         [s EXCEPT !.requests = Append(@, Request("MOVE", s.path, {}))]
    [] OTHER -> [s EXCEPT !.requests = @ \o Requests("MOVE", s, s.selected)]

\* Variant: "yes" deletes the names in the directory shown now.
LocalCommandHere(s, command) ==
  IF s.requests # <<>> /\ Head(s.requests).type = "PATH_INFO"
  THEN [s EXCEPT !.requests =
          Tail(@) \o (IF command = "yes"
                      THEN Requests("DELETE", s, Head(s.requests).files)
                      ELSE <<>>)]
  ELSE s

\* BrowseScreenLocal::command: a question at the front takes any command.
LocalCommand(s, command) ==
  IF s.requests # <<>> /\ Head(s.requests).type = "PATH_INFO"
  THEN LET q == Head(s.requests)
           deletes == Requests("DELETE", [s EXCEPT !.path = q.path], q.files)
       IN [s EXCEPT !.requests =
             Tail(@) \o (IF command = "yes" THEN deletes ELSE <<>>)]
  ELSE CASE command = "makedir" ->
              [s EXCEPT !.requests = Append(@, Request("MOVE", s.path, {}))]
         [] command = "move" ->
              [s EXCEPT !.requests = @ \o Requests("MOVE", s, s.selected)]
         [] OTHER -> s

\* BrowseScreen::command hands the command to the active side, whichever side
\* the question came from.
command(c) ==
  LET s == Active
      t == CASE s.type = "SITE" -> SiteCommand(s, c)
             [] s.type = "LOCAL" -> LocalCommand(s, c)
             [] OTHER -> s
  IN /\ sides' = [sides EXCEPT ![pane.active] = t]
     /\ Fits(sides')
     /\ wrong' = [astray |-> wrong.astray \/ question.asker # pane.active,
                  assert |-> wrong.assert
                    \/ (s.type = "SITE" /\ c = "yes" /\ s.confirm = "NONE")]

\* confirmYes, confirmNo, returnMakeDir, returnMove, returnNuke, and the keys
\* that only close the window.
Answer ==
  /\ question.kind # "none"
  /\ \/ /\ question.kind = "confirm"
        /\ \E c \in {"yes", "no"} : command(c)
     \/ /\ question.kind \in {"makedir", "move"}
        /\ command(question.kind)
     \/ /\ question.kind # "confirm"
        /\ UNCHANGED <<sides, wrong>>
  /\ question' = NoQuestion
  /\ UNCHANGED pane

BrowseStep ==
  \/ \E i \in Side : \E k \in 1..MaxRequests :
       k <= Len(sides[i].requests) /\ Execute(i, k)
  \/ update \/ Select \/ ChangeDirectory \/ DeleteKeySite \/ DeleteKeyLocal
  \/ OpenInput \/ SplitKey \/ OpenSide \/ CloseKey \/ BackKey
  \/ continueBrowsing \/ Answer

\* A failed assert ends the program; and, a bound, the browser is not followed
\* further once an answer has gone to a side that did not ask.
BrowseNext == ~wrong.assert /\ ~wrong.astray /\ BrowseStep

BrowseSpec == BrowseInit /\ [][BrowseNext]_bvars

-----------------------------------------------------------------------------
(* Properties. *)

\* Every file that a "yes" starts to delete is one the question was about, as
\* long as the question was asked by the side that gets the answer.
DeletedIsAsked ==
  [][ \A i \in Side :
        /\ question.kind = "confirm" /\ question.asker = pane.active
        /\ Len(sides'[i].requests) >= Len(sides[i].requests)
        => \A k \in DOMAIN sides'[i].requests :
             LET r == sides'[i].requests[k] IN
             r.type = "DELETE" /\ r.state = "pending"
             => \/ \E j \in DOMAIN sides[i].requests : sides[i].requests[j] = r
                \/ r.path = question.path /\ r.files \subseteq question.files ]_bvars

\* A side that waits for the answer to a question is being asked now: its
\* queue does not stay blocked behind a question nobody sees.  (Until an
\* answer has gone to the wrong side.)
BlockedIsAsked ==
  \A i \in Side :
    /\ ~wrong.astray /\ (i = 1 \/ pane.split)
    /\ sides[i].requests # <<>> /\ Head(sides[i].requests).state = "asked"
    => question.kind = "confirm" /\ question.asker = i

\* A side with no requests under way does not show a directory as it was
\* before a change the side made; unless a listing failed since, or, on a
\* site, the change was reported while another directory was shown.  (A side
\* whose last request was a question answered "no" may still have the refresh
\* ahead of it: nothing triggers it before the next request.)
FreshWhenQuiet ==
  \A i \in Side :
    /\ sides[i].requests = <<>> /\ sides[i].stale
    => sides[i].refreshafter \/ sides[i].missed

\* A browser on screen shows at least one directory or has a side to choose
\* one for, and the active side is one that is shown.
SideShown ==
  /\ pane.top => (sides[1].type # "SELECTOR" \/ pane.split)
  /\ ~pane.split => pane.active = 1

\* The sides of a browser, their requests and the question on screen agree.
BrowseInv == BrowseTypeOK /\ BlockedIsAsked /\ FreshWhenQuiet /\ SideShown

\* The site side asserts that a "yes" answers its own question
\* (BrowseScreenSite::command, assert(false) for an unknown action).
YesReachesAsker == ~wrong.assert
=============================================================================
