--------------------------------- MODULE Ui ---------------------------------
(***************************************************************************)
(* The terminal user interface (src/src/ui/ui.cpp and the screens under    *)
(* src/src/ui/screens): which window has the keyboard, the windows below   *)
(* it, the questions that wait for an answer, the bars around the window   *)
(* and the sizes the windows draw with.                                    *)
(*                                                                         *)
(* Every window is one object, made once and initialised again whenever it *)
(* is opened: a window that is in the stack twice has one state.  Each     *)
(* screen is an operator whose disjuncts are the keys that leave it or     *)
(* that do something; the cursor, the scrolling and the editing of fields  *)
(* stay inside the screen and are left out, and so is whatever the screens *)
(* show.  The browser is seen from outside here.                           *)
(***************************************************************************)
EXTENDS Integers, Sequences, FiniteSets

CONSTANTS Rows,      \* heights the terminal may have
          LegendModes,  \* "DISABLED" and the ways a legend is shown
          MaxDepth   \* bound on the windows below the top one

ASSUME RowsAssumption == Rows \subseteq Nat /\ \A r \in Rows : r > 4
ASSUME ModesAssumption == "DISABLED" \in LegendModes
ASSUME DepthAssumption == MaxDepth \in Nat

VARIABLES
  ui,        \* topwindow, history, split; height: the rows the windows know
  frame,     \* rows of the terminal, mainrow, the bars and the legend mode
  dialog,    \* what the confirmation (or a selection of sites) is about
  asked,     \* what each window remembers of its questions
  browse,    \* the browser: opened before, and split in two
  sections,  \* the mode of the sections screen
  connid,    \* the connection the raw data screen shows
  watched,   \* the buffers whose additions are pushed to the interface
  data,      \* the state of the data file
  did        \* the operation the last key started

uivars == <<ui, frame, dialog, asked, browse, sections, connid, watched, data, did>>

None == "none"
\* A data file that does not exist yet is written as a plain one.
DataFileStates == {"EXISTS_ENCRYPTED", "EXISTS_DECRYPTED", "EXISTS_PLAIN"}
Buffers == {"EventLog", "RawCommand", "RawData0", "RawData1"}

\* The windows redrawAll resizes, and the three that Ui::init forgets there.
mainwindows ==
  {"Main", "NewKey", "Confirmation", "EditSite", "SiteStatus", "RawData",
   "RawCommand", "Browse", "NewRace", "RaceStatus", "GlobalOptions",
   "SkipList", "ChangeKey", "EventLog", "ProxyOptions", "EditProxy",
   "ViewFile", "Nuke", "FileViewerSettings", "ScoreBoard", "SelectSites",
   "Transfers", "TransferJobStatus", "AllSpreadJobs", "AllTransferJobs",
   "TransferStatus", "TransfersFilter", "Info", "SelectJobs", "MakeDir",
   "Sections", "EditSection", "SiteSections",
   "EditSiteSection", "SiteSlots", "Snake", "DisableEncryption", "Move",
   "FileInfo", "KeyBinds", "Metrics", "TransferPairing", "ExternalScripts"}
Unlisted == {"Login", "TransferJobsFilter", "SpreadJobsFilter"}
Window == mainwindows \cup Unlisted

\* The height of an open window; the listed ones always have the same, and a
\* window that is not open gets its height when it is opened.
HeightKeys == Unlisted \cup {"listed"}
HeightKey(w) == IF w \in Unlisted THEN w ELSE "listed"

\* What the questions of the screens ask for.
Questions ==
  {"deleteSite", "abortRace", "abortTransferJob", "deleteOwnIncomplete",
   "deleteOwnAll", "removeSite", "removeSiteDeleteOwn", "removeSiteDeleteAll",
   "removeSiteFromAll", "resetHourly", "resetAll", "resetHourlyTotals",
   "resetAllTotals", "removeSection", "updateSections", "removeProxy",
   "browser"}
SelectModes == {"ADD", "DELETE", "DELETE_OWN"}

\* Types.  A top window None is a history that was popped when empty.
UiTypeOK ==
  /\ ui \in [top : Window \cup {None}, history : Seq(Window), split : BOOLEAN,
             height : [HeightKeys -> Int]]
  /\ frame \in [rows : Rows, main : Int, info : BOOLEAN, legend : BOOLEAN,
                mode : LegendModes, full : BOOLEAN]
  /\ dialog \in [mode : {None, "INFO", "NORMAL", "STRONG", "SELECT"},
                 about : Questions \cup SelectModes \cup {None}, step : 0..2]
  /\ asked \in [{"Main", "AllSpreadJobs", "RaceStatus", "select",
                   "other"} ->
                  SUBSET (Questions \cup SelectModes)]
  /\ browse \in [opened : BOOLEAN, split : BOOLEAN]
  /\ sections \in {"EDIT", "SELECT"}
  /\ connid \in {0, 1}
  /\ watched \subseteq Buffers
  /\ data \in DataFileStates
  /\ did \in Questions \cup SelectModes \cup {None}

-----------------------------------------------------------------------------
(* The frame: Ui's bars and the heights of the windows. *)

enableInfo(f) == IF f.info THEN f ELSE [f EXCEPT !.info = TRUE, !.main = @ - 2]
disableInfo(f) == IF f.info THEN [f EXCEPT !.info = FALSE, !.main = @ + 2] ELSE f
enableLegend(f) ==
  IF f.legend \/ f.mode = "DISABLED" THEN f
  ELSE [f EXCEPT !.legend = TRUE, !.main = @ - 2]
disableLegend(f) ==
  IF f.legend THEN [f EXCEPT !.legend = FALSE, !.main = @ + 2] ELSE f

\* Every listed window and the top window learn the height of the frame.
redrawAll(u, f) ==
  [u EXCEPT !.height = [k \in HeightKeys |->
                          IF k \in {"listed", HeightKey(u.top)} THEN f.main
                          ELSE u.height[k]]]

Reframed(u, f) == IF f = frame THEN u ELSE redrawAll(u, f)

setLegendMode(f, mode) ==
  LET g == [f EXCEPT !.mode = mode]
  IN CASE f.mode = "DISABLED" -> enableLegend(g)
       [] f.mode # "DISABLED" /\ mode = "DISABLED" -> disableLegend(g)
       [] OTHER -> g

terminalSizeChanged ==
  /\ \E r \in Rows \ {frame.rows} :
       LET f == [frame EXCEPT !.rows = r,
                   !.main = r - (IF frame.info THEN 2 ELSE 0)
                              - (IF frame.legend THEN 2 ELSE 0)]
       IN frame' = f /\ ui' = redrawAll(ui, f)
  /\ did' = None
  /\ UNCHANGED <<dialog, asked, browse, watched, sections, connid, data>>

\* Ui::globalKeyBinds: full screen.  The other global keys act on the engine.
\* The login screen and a question take every key themselves.
globalKeyBinds ==
  /\ ui.top \notin {"Login", "Confirmation"}
  /\ LET f == IF frame.full
              THEN [enableLegend(enableInfo(frame)) EXCEPT !.full = FALSE]
              ELSE [disableLegend(disableInfo(frame)) EXCEPT !.full = TRUE]
     IN /\ frame' = f
        /\ ui' = IF f.main = frame.main THEN ui ELSE redrawAll(ui, f)
  /\ did' = None
  /\ UNCHANGED <<dialog, asked, browse, watched, sections, connid, data>>

-----------------------------------------------------------------------------
(* The stack of windows. *)

\* UIWindow::init: an opened window draws with the height of the frame.
Initialized(u, w) == [u EXCEPT !.height[HeightKey(w)] = frame.main]

switchToWindow(u, w, allowsplit) ==
  [u EXCEPT !.history = Append(@, u.top), !.top = w,
            !.split = @ /\ allowsplit]

\* Variant: the bars stay split.
switchToLastSplit(u) ==
  [u EXCEPT !.top = IF u.history = <<>> THEN None
                    ELSE u.history[Len(u.history)],
            !.history = IF @ = <<>> THEN @ ELSE SubSeq(@, 1, Len(@) - 1),
            !.height[HeightKey(u.top)] = IF u.top \in Unlisted THEN 0 ELSE @]

switchToLast(u) ==
  [u EXCEPT !.split = FALSE,
            !.top = IF u.history = <<>> THEN None
                    ELSE u.history[Len(u.history)],
            !.history = IF @ = <<>> THEN @ ELSE SubSeq(@, 1, Len(@) - 1),
            !.height[HeightKey(u.top)] = IF u.top \in Unlisted THEN 0 ELSE @]

\* A browser that is drawn tells Ui whether it is split.
Drawn(u) == IF u.top = "Browse" THEN [u EXCEPT !.split = browse.split] ELSE u

Room == Len(ui.history) < MaxDepth

Go(w) ==
  /\ Room
  /\ ui' = switchToWindow(Initialized(ui, w), w, FALSE)
  /\ did' = None
  /\ UNCHANGED <<frame, dialog, asked, browse, watched, sections, connid, data>>

Buffer(w, conn) ==
  IF w # "RawData" THEN w ELSE IF conn = 0 THEN "RawData0" ELSE "RawData1"

\* goEventLog, goRawCommand, goRawData: the window watches its buffer.
GoWatching(w) ==
  /\ Room
  /\ ui' = switchToWindow(Initialized(ui, w), w, FALSE)
  /\ connid' = 0
  /\ watched' = watched \cup {Buffer(w, 0)}
  /\ did' = None
  /\ UNCHANGED <<frame, dialog, asked, browse, sections, data>>

\* goBrowse..., goBrowseSplit and goBrowseLocal.
GoBrowse(twosides) ==
  /\ Room
  /\ browse' = [opened |-> TRUE, split |-> twosides]
  /\ ui' = switchToWindow([Initialized(ui, "Browse") EXCEPT !.split = twosides],
                          "Browse", twosides)
  /\ did' = None
  /\ UNCHANGED <<frame, dialog, asked, watched, sections, connid, data>>

goContinueBrowsing ==
  /\ browse.opened
  /\ Room
  /\ ui' = [switchToWindow(ui, "Browse", TRUE) EXCEPT !.split = browse.split]
  /\ did' = None
  /\ UNCHANGED <<frame, dialog, asked, browse, watched, sections, connid, data>>

returnToLast ==
  /\ ui' = Drawn(switchToLast(ui))
  /\ did' = None
  /\ UNCHANGED <<frame, dialog, asked, browse, watched, sections, connid, data>>

\* The screens that unwatch their buffer before they return.
ReturnUnwatching ==
  /\ ui' = Drawn(switchToLast(ui))
  /\ watched' = watched \ {Buffer(ui.top, connid)}
  /\ connid' = 0
  /\ did' = None
  /\ UNCHANGED <<frame, dialog, asked, browse, sections, data>>

\* RawDataScreen's left and right, with goRawDataJump: the window stays and
\* shows another connection.
goRawDataJump(conn) ==
  /\ watched' = (watched \ {Buffer("RawData", connid)}) \cup {Buffer("RawData", conn)}
  /\ connid' = conn
  /\ ui' = Initialized(ui, "RawData")
  /\ did' = None
  /\ UNCHANGED <<frame, dialog, asked, browse, sections, data>>

\* returnTransferFilters and its two likes initialise the list again first.
returnFilters(list) ==
  /\ ui' = Drawn(switchToLast(Initialized(ui, list)))
  /\ did' = None
  /\ UNCHANGED <<frame, dialog, asked, browse, sections, connid, watched, data>>

goInfo ==
  /\ Room
  /\ ui' = switchToWindow(Initialized(ui, "Confirmation"), "Confirmation", FALSE)
  /\ dialog' = [mode |-> "INFO", about |-> None, step |-> 0]
  /\ did' = None
  /\ UNCHANGED <<frame, asked, browse, watched, sections, connid, data>>

\* A question; the window keeps `keep' to know later what "yes" means.
Ask(mode, question, who, keep) ==
  /\ Room
  /\ ui' = switchToWindow(Initialized(ui, "Confirmation"), "Confirmation", FALSE)
  /\ dialog' = [mode |-> mode, about |-> question, step |-> 0]
  /\ asked' = [asked EXCEPT ![who] = keep]
  /\ did' = None
  /\ UNCHANGED <<frame, browse, watched, sections, connid, data>>

goConfirmation(question) == Ask("NORMAL", question, "other", {question})
goStrongConfirmation(question) == Ask("STRONG", question, "other", {question})

\* An operation that needs no question and leaves the windows alone; it
\* never is one of those that the screens ask about.
Remember(who, keep) ==
  /\ asked' = [asked EXCEPT ![who] = keep]
  /\ did' = None
  /\ UNCHANGED <<ui, frame, dialog, browse, watched, sections, connid, data>>

NoDialog == [mode |-> None, about |-> None, step |-> 0]

\* The operations of a chain of "if" in the order the code tests them.
FirstOf(order, flags, otherwise) ==
  LET hits == {i \in DOMAIN order : order[i] \in flags}
  IN IF hits = {} THEN otherwise
     ELSE order[CHOOSE i \in hits : \A j \in hits : i <= j]

\* The other screens keep one action, which the next question overwrites.
OtherYes(flags) == IF flags = {} THEN None ELSE CHOOSE q \in flags : TRUE

\* goSelectSites and goSelectSitesFrom; RaceStatusScreen remembers what for.
goSelectSites(mode) ==
  /\ Room
  /\ ui' = switchToWindow(Initialized(ui, "SelectSites"), "SelectSites", FALSE)
  /\ dialog' = [mode |-> "SELECT", about |-> mode, step |-> 0]
  /\ asked' = [asked EXCEPT !["select"] = {mode} \ {None}]
  /\ did' = None
  /\ UNCHANGED <<frame, browse, sections, connid, watched, data>>

\* returnSelectItems: the window below takes the selection over; only
\* RaceStatusScreen does something with it, and forgets its questions.
returnSelectItems ==
  LET u == switchToLast(ui) IN
  /\ ui' = Drawn(u)
  /\ did' = IF u.top = "RaceStatus" THEN OtherYes(asked["select"]) ELSE None
  /\ asked' = [asked EXCEPT !["select"] = {},
                 !["RaceStatus"] = IF u.top = "RaceStatus" THEN {} ELSE @]
  /\ dialog' = NoDialog
  /\ UNCHANGED <<frame, browse, sections, connid, watched, data>>

CancelSelection ==
  /\ ui' = Drawn(switchToLast(ui))
  /\ dialog' = NoDialog
  /\ asked' = [asked EXCEPT !["select"] = {}]
  /\ did' = None
  /\ UNCHANGED <<frame, browse, sections, connid, watched, data>>

\* setEncrypted or setPlain of the data file, and back.
EncryptionSet(state) ==
  /\ data' = state
  /\ ui' = Drawn(switchToLast(ui))
  /\ did' = None
  /\ UNCHANGED <<frame, dialog, asked, browse, sections, connid, watched>>

EncryptionEntries ==
  IF data = "EXISTS_DECRYPTED" THEN {"ChangeKey", "DisableEncryption"}
  ELSE {"NewKey"}

goSections(mode) ==
  /\ Room
  /\ ui' = switchToWindow(Initialized(ui, "Sections"), "Sections", FALSE)
  /\ sections' = mode
  /\ did' = None
  /\ UNCHANGED <<frame, dialog, asked, browse, connid, watched, data>>

\* returnRaceStatus: everything below is dropped but the main screen.
returnRaceStatus ==
  /\ ui' = switchToWindow(
             [Initialized(ui, "RaceStatus") EXCEPT !.history = <<>>,
                                                   !.top = "Main"],
             "RaceStatus", FALSE)
  /\ did' = None
  /\ UNCHANGED <<frame, dialog, asked, browse, watched, sections, connid, data>>

-----------------------------------------------------------------------------
(* Answers. *)

\* MainScreen::command, "yes".
MainYes(flags) ==
  FirstOf(<<"abortRace", "abortTransferJob", "deleteOwnIncomplete",
            "deleteOwnAll", "removeSiteFromAll">>, flags, "deleteSite")

\* AllRacesScreen::command, "yes".
AllSpreadJobsYes(flags) ==
  FirstOf(<<"abortRace", "deleteOwnIncomplete", "deleteOwnAll">>, flags, None)

\* RaceStatusScreen::command, "yes".
RaceStatusYes(flags) ==
  FirstOf(<<"removeSite", "removeSiteDeleteOwn", "removeSiteDeleteAll",
            "abortRace", "deleteOwnIncomplete", "deleteOwnAll",
            "removeSiteFromAll">>, flags, None)

Keeper(w) == IF w \in {"Main", "AllSpreadJobs", "RaceStatus"} THEN w ELSE "other"

YesOf(w, flags) ==
  CASE w = "Main" -> MainYes(flags)
    [] w = "AllSpreadJobs" -> AllSpreadJobsYes(flags)
    [] w = "RaceStatus" -> RaceStatusYes(flags)
    [] OTHER -> OtherYes(flags)

\* Ui::confirmYes: the window below gets "yes".  EditSiteSectionScreen then
\* returns as well, if it could set the sections.
confirmYes ==
  LET u == switchToLast(ui) IN
  /\ did' = YesOf(u.top, asked[Keeper(u.top)])
  /\ asked' = [asked EXCEPT ![Keeper(u.top)] = {}]
  /\ dialog' = NoDialog
  /\ \/ ui' = Drawn(u)
     \/ u.top = "EditSiteSection" /\ ui' = Drawn(switchToLast(u))
  /\ UNCHANGED <<frame, browse, watched, sections, connid, data>>

\* Variant: "no" does not clear what was asked.
confirmNoKeeps ==
  /\ did' = None
  /\ dialog' = NoDialog
  /\ ui' = Drawn(switchToLast(ui))
  /\ UNCHANGED <<frame, asked, browse, watched, sections, connid, data>>

confirmNo ==
  LET u == switchToLast(ui) IN
  /\ did' = None
  /\ asked' = [asked EXCEPT ![Keeper(u.top)] = {}]
  /\ dialog' = NoDialog
  /\ ui' = Drawn(u)
  /\ UNCHANGED <<frame, browse, watched, sections, connid, data>>

\* ConfirmationScreen::keyPressed.
ConfirmationScreen ==
  /\ ui.top = "Confirmation"
  /\ \/ /\ dialog.mode = "INFO"
        /\ ui' = Drawn(switchToLast(ui))
        /\ dialog' = NoDialog
        /\ did' = None
        /\ UNCHANGED <<frame, asked, browse, watched, sections, connid, data>>
     \/ dialog.mode = "NORMAL" /\ (confirmYes \/ confirmNo)
     \/ dialog.mode = "STRONG" /\ dialog.step = 2 /\ confirmYes
     \/ dialog.mode = "STRONG" /\ confirmNo
     \/ /\ dialog.mode = "STRONG" /\ dialog.step < 2
        /\ dialog' = [dialog EXCEPT !.step = @ + 1]
        /\ did' = None
        /\ UNCHANGED <<ui, frame, asked, browse, watched, sections, connid, data>>

-----------------------------------------------------------------------------
(* The screens: one operator for the keys of each. *)

\* MainScreen::keyPressed.  The key that aborts remembers the job before it
\* looks whether the job still runs, and only then asks.
MainScreen ==
  /\ ui.top = "Main"
  /\ \/ \E w \in {"SiteStatus", "RaceStatus", "TransferJobStatus",
                  "GlobalOptions", "Info", "ScoreBoard", "Metrics",
                  "AllSpreadJobs", "EditSite", "Snake", "AllTransferJobs",
                  "Transfers"} : Go(w)
     \/ \E w \in {"EventLog", "RawCommand"} : GoWatching(w)
     \/ goSections("EDIT")
     \/ \E twosides \in BOOLEAN : GoBrowse(twosides)
     \/ goContinueBrowsing
     \/ Ask("NORMAL", "deleteSite", "Main", asked["Main"])
     \/ \E q \in {"abortRace", "abortTransferJob"} :
          \/ Ask("NORMAL", q, "Main", asked["Main"] \cup {q})
          \/ Remember("Main", asked["Main"] \cup {q})
     \/ \E q \in {"deleteOwnIncomplete", "deleteOwnAll", "removeSiteFromAll"} :
          Ask("NORMAL", q, "Main", asked["Main"] \cup {q})

\* AllRacesScreen::keyPressed, with the same order when it aborts.
AllSpreadJobsScreen ==
  /\ ui.top = "AllSpreadJobs"
  /\ \/ \E w \in {"RaceStatus", "SpreadJobsFilter", "Transfers"} : Go(w)
     \/ returnToLast
     \/ \E q \in {"abortRace", "deleteOwnIncomplete", "deleteOwnAll"} :
          Ask("NORMAL", q, "AllSpreadJobs", asked["AllSpreadJobs"] \cup {q})
     \/ Remember("AllSpreadJobs", asked["AllSpreadJobs"] \cup {"abortRace"})

\* AllTransferJobsScreen::keyPressed.
AllTransferJobsScreen ==
  /\ ui.top = "AllTransferJobs"
  /\ \/ \E w \in {"TransferJobStatus", "TransferJobsFilter", "Transfers"} : Go(w)
     \/ GoBrowse(TRUE)
     \/ goConfirmation("abortTransferJob")
     \/ returnToLast

\* RaceStatusScreen::keyPressed and deleteFiles.
RaceStatusScreen ==
  /\ ui.top = "RaceStatus"
  /\ \/ \E w \in {"Transfers", "SiteStatus", "EditSite"} : Go(w)
     \/ GoBrowse(FALSE)
     \/ GoWatching("RawCommand")
     \/ \E q \in {"removeSite", "removeSiteDeleteOwn", "removeSiteDeleteAll",
                  "abortRace", "deleteOwnIncomplete", "deleteOwnAll",
                  "removeSiteFromAll"} :
          Ask("NORMAL", q, "RaceStatus", asked["RaceStatus"] \cup {q})
     \/ \E mode \in SelectModes : goSelectSites(mode)
     \/ returnToLast

\* TransferJobStatusScreen::keyPressed.
TransferJobStatusScreen ==
  /\ ui.top = "TransferJobStatus"
  /\ \/ GoBrowse(TRUE)
     \/ Go("Transfers")
     \/ goConfirmation("abortTransferJob")
     \/ returnToLast

\* SiteStatusScreen::keyPressed.
SiteStatusScreen ==
  /\ ui.top = "SiteStatus"
  /\ \/ \E w \in {"EditSite", "Transfers", "AllTransferJobs",
                  "AllSpreadJobs"} : Go(w)
     \/ \E w \in {"RawData", "RawCommand"} : GoWatching(w)
     \/ GoBrowse(FALSE)
     \/ goConfirmation("resetHourly")
     \/ goStrongConfirmation("resetAll")
     \/ returnToLast

\* InfoScreen::keyPressed.
InfoScreen ==
  /\ ui.top = "Info"
  /\ \/ \E q \in {"resetHourly", "resetHourlyTotals"} : goConfirmation(q)
     \/ \E q \in {"resetAll", "resetAllTotals"} : goStrongConfirmation(q)
     \/ returnToLast

\* TransfersScreen::keyPressed.
TransfersScreen ==
  /\ ui.top = "Transfers"
  /\ \/ Go("TransferStatus")
     \/ Go("TransfersFilter")
     \/ returnToLast

\* TransfersFilterScreen::keyPressed; Done is returnTransferFilters.
TransfersFilterScreen ==
  /\ ui.top = "TransfersFilter"
  /\ \/ Go("SelectJobs")
     \/ goSelectSites(None)
     \/ returnFilters("Transfers")
     \/ returnToLast

\* SpreadJobsFilterScreen::keyPressed; Done is returnSpreadJobsFilters.
SpreadJobsFilterScreen ==
  /\ ui.top = "SpreadJobsFilter"
  /\ \/ goSelectSites(None)
     \/ returnFilters("AllSpreadJobs")
     \/ returnToLast

\* TransferJobsFilterScreen::keyPressed; Done is returnTransferJobsFilters.
TransferJobsFilterScreen ==
  /\ ui.top = "TransferJobsFilter"
  /\ \/ goSelectSites(None)
     \/ returnFilters("AllTransferJobs")
     \/ returnToLast

\* SelectSitesScreen::keyPressed and SelectJobsScreen::keyPressed.
SelectSitesScreen ==
  /\ ui.top = "SelectSites"
  /\ \/ returnSelectItems
     \/ CancelSelection

SelectJobsScreen ==
  /\ ui.top = "SelectJobs"
  /\ returnSelectItems \/ returnToLast

\* EditSiteScreen::keyPressed.
EditSiteScreen ==
  /\ ui.top = "EditSite"
  /\ \/ \E w \in {"SkipList", "SiteSections", "SiteSlots"} : Go(w)
     \/ goSelectSites(None)
     \/ goInfo
     \/ returnToLast

\* GlobalOptionsScreen::keyPressed; redraw hides the entries that do not fit
\* the state of the data file.  Done applies the legend mode and returns.
GlobalOptionsScreen ==
  /\ ui.top = "GlobalOptions"
  /\ \/ \E w \in {"SkipList", "ProxyOptions", "FileViewerSettings",
                  "KeyBinds"} : Go(w)
     \/ \E w \in EncryptionEntries : Go(w)
     \/ returnToLast
     \/ \E mode \in LegendModes \ {frame.mode} :
          LET f == setLegendMode(frame, mode) IN
          /\ frame' = f
          /\ ui' = Drawn(switchToLast(Reframed(ui, f)))
          /\ did' = None
          /\ UNCHANGED <<dialog, asked, browse, sections, connid, watched, data>>

\* NewKeyScreen::keyPressed and Ui::newKey, which asserts that the data file
\* was not encrypted; DisableEncryptionScreen and ChangeKeyScreen.
NewKeyScreen ==
  /\ ui.top = "NewKey"
  /\ \/ returnToLast
     \/ EncryptionSet("EXISTS_DECRYPTED")

DisableEncryptionScreen ==
  /\ ui.top = "DisableEncryption"
  /\ \/ returnToLast
     \/ data = "EXISTS_DECRYPTED" /\ EncryptionSet("EXISTS_PLAIN")

\* SectionsScreen::keyPressed, in both of its modes.
SectionsScreen ==
  /\ ui.top = "Sections"
  /\ \/ sections = "EDIT" /\ Go("EditSection")
     \/ sections = "EDIT" /\ goConfirmation("removeSection")
     \/ sections = "SELECT" /\ returnSelectItems
     \/ sections = "SELECT" /\ returnToLast
     \/ sections = "EDIT" /\ returnToLast

\* EditSectionScreen::keyPressed.
EditSectionScreen ==
  /\ ui.top = "EditSection"
  /\ \/ Go("SkipList")
     \/ returnToLast

\* SiteSectionsScreen::keyPressed.
SiteSectionsScreen ==
  /\ ui.top = "SiteSections"
  /\ \/ Go("EditSiteSection")
     \/ returnToLast

\* EditSiteSectionScreen::keyPressed.
EditSiteSectionScreen ==
  /\ ui.top = "EditSiteSection"
  /\ \/ goSections("SELECT")
     \/ goConfirmation("updateSections")
     \/ returnToLast

\* ProxyOptionsScreen::keyPressed.
ProxyOptionsScreen ==
  /\ ui.top = "ProxyOptions"
  /\ \/ Go("EditProxy")
     \/ goConfirmation("removeProxy")
     \/ returnToLast

\* SkipListScreen::keyPressed: an expression that does not parse is reported.
SkipListScreen ==
  /\ ui.top = "SkipList"
  /\ goInfo \/ returnToLast

\* EventLogScreen::keyPressed.
EventLogScreen ==
  /\ ui.top = "EventLog"
  /\ goInfo \/ ReturnUnwatching

\* RawCommandScreen::keyPressed.
RawCommandScreen ==
  /\ ui.top = "RawCommand"
  /\ ReturnUnwatching

\* RawDataScreen::keyPressed: left and right move between the connections.
RawDataScreen ==
  /\ ui.top = "RawData"
  /\ \/ goInfo
     \/ ReturnUnwatching
     \/ goRawDataJump(1 - connid)

\* BrowseScreen and its two sides, seen from outside: the windows they open,
\* the questions they ask, and the sides they close or open.
BrowseScreen ==
  /\ ui.top = "Browse"
  /\ \/ \E w \in {"NewRace", "EditSiteSection", "ViewFile", "Nuke", "MakeDir",
                  "Move", "FileInfo", "SiteSections", "KeyBinds",
                  "ExternalScripts"} : Go(w)
     \/ GoWatching("RawCommand")
     \/ Go("RawCommand")
     \/ goInfo
     \/ \E mode \in {"NORMAL", "STRONG"} : Ask(mode, "browser", "other", {"browser"})
     \/ returnToLast
     \/ /\ browse' = [browse EXCEPT !.split = ~@]
        /\ ui' = [ui EXCEPT !.split = ~browse.split]
        /\ did' = None
        /\ UNCHANGED <<frame, dialog, asked, sections, connid, watched, data>>

\* NewRaceScreen::keyPressed and startRace.
NewRaceScreen ==
  /\ ui.top = "NewRace"
  /\ \/ goInfo
     \/ returnRaceStatus
     \/ returnToLast

\* NukeScreen, MakeDirScreen and MoveScreen hand their input to the browser
\* (returnNuke, returnMakeDir, returnMove) or return.
InputScreens ==
  /\ ui.top \in {"Nuke", "MakeDir", "Move"}
  /\ returnToLast

\* ViewFileScreen: a key, or update when the external viewer has ended.
ViewFileScreen ==
  /\ ui.top = "ViewFile"
  /\ returnToLast

\* KeyBindsScreen::keyPressed.
KeyBindsScreen ==
  /\ ui.top = "KeyBinds"
  /\ returnToLast

\* The forms that are left by Done or by Cancel.
EditProxyScreen == ui.top = "EditProxy" /\ returnToLast
SiteSlotsScreen == ui.top = "SiteSlots" /\ returnToLast
FileViewerSettingsScreen == ui.top = "FileViewerSettings" /\ returnToLast
ExternalScriptsScreen == ui.top = "ExternalScripts" /\ returnToLast
ChangeKeyScreen == ui.top = "ChangeKey" /\ returnToLast
\* The screens that only show something.
ScoreBoardScreen == ui.top = "ScoreBoard" /\ returnToLast
MetricsScreen == ui.top = "Metrics" /\ returnToLast
SnakeScreen == ui.top = "Snake" /\ returnToLast
FileInfoScreen == ui.top = "FileInfo" /\ returnToLast
TransferStatusScreen == ui.top = "TransferStatus" /\ returnToLast

\* LoginScreen::keyPressed and Ui::key.  The settings that tryDecrypt loads
\* may bring another legend mode.
LoginScreen ==
  /\ ui.top = "Login"
  /\ data = "EXISTS_ENCRYPTED"
  /\ data' = "EXISTS_DECRYPTED"
  /\ \E mode \in LegendModes :
       LET loaded == IF mode = frame.mode THEN frame ELSE setLegendMode(frame, mode)
           opened == switchToWindow(Initialized(ui, "Main"), "Main", FALSE)
           f == enableLegend(enableInfo(loaded))
       IN /\ frame' = f
          /\ ui' = redrawAll(opened, f)
  /\ did' = None
  /\ UNCHANGED <<dialog, asked, browse, sections, connid, watched>>

\* UIWindow::keyPressedBase: the key that shows the binds of a window.
keyPressedBase ==
  /\ ui.top \notin {"Login", "Confirmation", "FileInfo", "Browse", "Metrics"}
  /\ Go("KeyBinds")

\* Ui::init, with the data file as it was found.
UiInit ==
  /\ data \in {"EXISTS_ENCRYPTED", "EXISTS_PLAIN"}
  /\ \E r \in Rows, mode \in LegendModes :
       LET bare == [rows |-> r, main |-> r, info |-> FALSE, legend |-> FALSE,
                    mode |-> mode, full |-> FALSE]
           f == IF data = "EXISTS_PLAIN" THEN enableLegend(enableInfo(bare))
                ELSE bare
           first == IF data = "EXISTS_PLAIN" THEN "Main" ELSE "Login"
       IN /\ frame = f
          /\ ui = [top |-> first, history |-> <<>>, split |-> FALSE,
                   height |-> [k \in HeightKeys |->
                                 IF k = HeightKey(first) THEN f.main ELSE 0]]
  /\ dialog = NoDialog
  /\ asked = [w \in {"Main", "AllSpreadJobs", "RaceStatus", "select", "other"} |-> {}]
  /\ browse = [opened |-> FALSE, split |-> FALSE]
  /\ sections = "EDIT"
  /\ connid = 0
  /\ watched = {}
  /\ did = None

\* Ui::FDData: the top window gets the key, then the windows' common keys,
\* then the global ones.
FDData ==
  \/ ConfirmationScreen \/ MainScreen \/ AllSpreadJobsScreen
  \/ AllTransferJobsScreen \/ RaceStatusScreen \/ TransferJobStatusScreen
  \/ SiteStatusScreen \/ InfoScreen \/ TransfersScreen
  \/ TransfersFilterScreen \/ SpreadJobsFilterScreen
  \/ TransferJobsFilterScreen \/ SelectSitesScreen \/ SelectJobsScreen
  \/ EditSiteScreen \/ GlobalOptionsScreen \/ NewKeyScreen
  \/ DisableEncryptionScreen \/ SectionsScreen \/ EditSectionScreen
  \/ SiteSectionsScreen \/ EditSiteSectionScreen \/ ProxyOptionsScreen
  \/ SkipListScreen \/ EventLogScreen \/ RawCommandScreen \/ RawDataScreen
  \/ BrowseScreen \/ NewRaceScreen \/ InputScreens \/ ViewFileScreen
  \/ KeyBindsScreen \/ EditProxyScreen \/ SiteSlotsScreen
  \/ FileViewerSettingsScreen \/ ExternalScriptsScreen \/ ChangeKeyScreen
  \/ ScoreBoardScreen \/ MetricsScreen \/ SnakeScreen \/ FileInfoScreen
  \/ TransferStatusScreen \/ LoginScreen \/ keyPressedBase \/ globalKeyBinds

UiNext == FDData \/ terminalSizeChanged

UiSpec == UiInit /\ [][UiNext]_uivars

-----------------------------------------------------------------------------
(* Properties. *)

Stack == Append(ui.history, ui.top)

\* A key that returns always finds a window to return to: only the login and
\* the main screen have nothing below, and the main screen is never above
\* anything but the login (Ui::switchToLast pops without looking).
ReturnPossible ==
  /\ ui.top # None
  /\ ui.history = <<>> => ui.top \in {"Login", "Main"}
  /\ \A i \in DOMAIN Stack :
       Stack[i] = "Main" => i = 1 \/ (i = 2 /\ Stack[1] = "Login")

\* A screen with unsaved input, a running request or a place of its own is in
\* the stack at most once, so that opening it again cannot overwrite what is
\* waiting below; the screens that may be there twice only show things, but
\* for the key binds.
FormsOnce ==
  \A i, j \in DOMAIN Stack :
    Stack[i] = Stack[j] /\ i # j =>
      Stack[i] \in {"RaceStatus", "SiteStatus", "AllSpreadJobs", "KeyBinds"}

\* What a screen does after "yes" (or after a selection of sites) is what the
\* user was asked, on every screen but the two whose abort key remembers a
\* job without asking.
ConfirmedIsAsked ==
  [][\/ ui.history # <<>> /\ ui.history[Len(ui.history)] \in {"Main", "AllSpreadJobs"}
     \/ did' # None => dialog.mode \notin {None, "INFO"} /\ did' = dialog.about]_uivars

\* The window area is the terminal less the bars that are shown, and the top
\* window draws with that height; the two filters that redrawAll does not
\* know may be wrong when a selection on top of them saw the terminal change.
Layout ==
  /\ frame.main = frame.rows - (IF frame.info THEN 2 ELSE 0)
                              - (IF frame.legend THEN 2 ELSE 0)
  /\ ui.top \in mainwindows => ui.height["listed"] = frame.main

\* Outside full screen both bars are shown once the user is in, the legend
\* unless it was turned off.
BarsShown ==
  ui.top # "Login" /\ ~frame.full =>
    frame.info /\ (frame.legend <=> frame.mode # "DISABLED")

\* The bars are drawn for two sides exactly while a split browser is on top.
SplitShown == ui.split <=> (ui.top = "Browse" /\ browse.split)

\* A buffer is watched only while its window is open, and the event log and
\* the raw data screen watch theirs all that time.
WatchedOpen ==
  LET open == {Stack[i] : i \in DOMAIN Stack} IN
  /\ watched \subseteq {Buffer(w, connid) : w \in open}
  /\ {Buffer(w, connid) : w \in open \cap {"EventLog", "RawData"}} \subseteq watched

\* The screens about encryption are open only in the state they are for, so
\* that the assertion in Ui::newKey holds.
EncryptionScreens ==
  \A i \in DOMAIN Stack :
    /\ Stack[i] = "NewKey" => data = "EXISTS_PLAIN"
    /\ Stack[i] \in {"ChangeKey", "DisableEncryption"} => data = "EXISTS_DECRYPTED"
    /\ Stack[i] # "Login" => data # "EXISTS_ENCRYPTED"

\* The stack of windows, the frame and what is watched fit together after
\* every sequence of keys.
UiInv ==
  /\ UiTypeOK /\ ReturnPossible /\ FormsOnce /\ Layout /\ BarsShown
  /\ SplitShown /\ WatchedOpen /\ EncryptionScreens
=============================================================================
