----------------------------- MODULE FileLists -----------------------------
(***************************************************************************)
(* One FileList (src/src/filelist.cpp): the files cbftp believes to be in  *)
(* a directory of a site, the counters kept beside them, the change marks  *)
(* the engine's scoreboard works from, the case-insensitive index and the  *)
(* file that "similar" skiplist rules compare with.                        *)
(*                                                                         *)
(* A listing is parsed line by line (FTPConn::parseFileList) and then      *)
(* swept (cleanSweep): the phases "lines" and "sweep", during which        *)
(* nothing else touches the list, for everything runs in one thread.  A    *)
(* touch stamp is modelled by whether it is the one of the listing being   *)
(* parsed, a time stamp not at all.                                        *)
(***************************************************************************)
EXTENDS Integers, FiniteSets, Sequences

CONSTANTS Name,      \* file names
          LowerOf,   \* util::toLower on names
          Similar,   \* the names a skiplist rule "similar" matches
          Size,      \* file sizes; 0 is a size
          MAX_LIST_FAILURES_BEFORE_STATE_FAILED

ASSUME NameAssumption == IsFiniteSet(Name) /\ Similar \subseteq Name
ASSUME LowerAssumption == LowerOf \in [Name -> Name]
ASSUME FailuresAssumption == MAX_LIST_FAILURES_BEFORE_STATE_FAILED \in Nat \ {0}
ASSUME SizeAssumption == Size \subseteq Nat /\ 0 \in Size

VARIABLES
  files,     \* the files, in the order filesfirstseen holds them
  book,      \* the counters and marks of the FileList
  index,     \* lowercasefilemap
  simil,     \* similarchecked and firstsimilar
  scan       \* the listing being parsed

flvars == <<files, book, index, simil, scan>>

NoSimilar == "none"

Entry == [size : Size, mine : BOOLEAN, dir : BOOLEAN]
FileRec == [size : Size, mine : BOOLEAN, dir : BOOLEAN, uploading : BOOLEAN,
            touched : BOOLEAN]
\* UpdateState, in the order of its enumerators.
UpdateStates == 0..3
NONE == 0
REFRESHED == 1
META_CHANGED == 2
CHANGED == 3
FileListStates == {"UNKNOWN", "NONEXISTENT", "EXISTS", "LISTED", "PRE_FAIL",
                   "FAILED"}

Known == DOMAIN files
Uploaded == {n \in Known : files[n].size > 0 /\ ~files[n].dir}
Owned == {n \in Known : files[n].mine}
Uploading == {n \in Known : files[n].uploading}

\* Types; firstsimilar is a name here, and a name outside the directory is a
\* pointer to a file that was deleted.
ListTypeOK ==
  /\ Known \subseteq Name
  /\ files \in [Known -> FileRec]
  /\ book \in [owned : Nat, uploaded : Nat, uploading : Nat,
               update : UpdateStates, board : UpdateStates,
               changed : SUBSET Name,
               failures : 0..(MAX_LIST_FAILURES_BEFORE_STATE_FAILED - 1),
               state : FileListStates]
  /\ index \in [DOMAIN index -> Name] /\ DOMAIN index \subseteq Name
  /\ simil \in [checked : BOOLEAN, first : Name \cup {NoSimilar}]
  /\ scan \in [phase : {"idle", "lines", "sweep"}, count : Nat,
               seen : SUBSET Name, erase : SUBSET Name]

FileListInit ==
  /\ files = [n \in {} |-> 0]
  /\ book = [owned |-> 0, uploaded |-> 0, uploading |-> 0, update |-> NONE,
             board |-> NONE, changed |-> {}, failures |-> 0,
             state |-> "UNKNOWN"]
  /\ index = [n \in {} |-> 0]
  /\ simil = [checked |-> FALSE, first |-> NoSimilar]
  /\ scan = [phase |-> "idle", count |-> 0, seen |-> {}, erase |-> {}]

Idle == scan.phase = "idle"
IntMax(a, b) == IF a > b THEN a ELSE b
One(P) == IF P THEN 1 ELSE 0

(***************************************************************************)
(* bumpUpdateState, setChanged and setMetaChanged.                         *)
(***************************************************************************)
bumpUpdateState(b, s) ==
  [b EXCEPT !.update = IntMax(@, s), !.board = IntMax(@, s)]
setChanged(b) == [bumpUpdateState(b, CHANGED) EXCEPT !.failures = 0]

Counts(f) == f.size > 0 /\ ~f.dir
WithFile(n, f) == [m \in Known \cup {n} |-> IF m = n THEN f ELSE files[m]]
Drop(n) == [m \in Known \ {n} |-> files[m]]
PutIndex(n) ==
  [k \in DOMAIN index \cup {LowerOf[n]} |->
     IF k = LowerOf[n] THEN n ELSE index[k]]
DropIndex(n) == [k \in DOMAIN index \ {LowerOf[n]} |-> index[k]]

\* checkSimilarFile on a new file, while no similar file is known.
SimilarAfterAdd(n) ==
  IF simil.checked /\ simil.first = NoSimilar /\ n \in Similar
  THEN [simil EXCEPT !.first = n] ELSE simil

\* Variant: an upload that ends does not mark a changed size.
setFileUpdateFlagSilent(n, size) ==
  /\ Idle /\ n \in Known /\ ~files[n].dir
  /\ size >= files[n].size
  /\ files' = WithFile(n, [files[n] EXCEPT !.size = size])
  /\ book' = IF size # files[n].size
             THEN setChanged([book EXCEPT !.uploaded =
                                @ + One(files[n].size = 0)])
             ELSE book
  /\ UNCHANGED <<index, simil, scan>>

(***************************************************************************)
(* updateFile: a known file takes the size and the owner of the line, a    *)
(* new one is added.  A changed size, a changed owner and a new file mark  *)
(* the name for the scoreboard.                                            *)
(***************************************************************************)
UpdateKnown(n, e) ==
  LET old == files[n]
      new == [old EXCEPT !.size = e.size, !.mine = e.mine, !.touched = TRUE]
      resized == e.size # old.size
      reowned == e.mine # old.mine
      b == [book EXCEPT
              !.uploaded = @ + One(Counts(new)) - One(Counts(old)),
              !.owned = @ + One(new.mine) - One(old.mine),
              !.changed = IF resized \/ reowned THEN @ \cup {n} ELSE @]
  IN /\ files' = WithFile(n, new)
     /\ book' = IF resized THEN setChanged(b)
                ELSE IF reowned THEN bumpUpdateState(b, META_CHANGED) ELSE b
     /\ UNCHANGED <<index, simil>>

AddFile(n, f) ==
  /\ files' = WithFile(n, f)
  /\ book' = setChanged([book EXCEPT
               !.uploaded = @ + One(Counts(f)), !.owned = @ + One(f.mine),
               !.uploading = @ + One(f.uploading),
               !.changed = @ \cup {n}])
  /\ index' = PutIndex(n)
  /\ simil' = SimilarAfterAdd(n)

updateFileInternal(n, e) ==
  IF n \in Known
  THEN UpdateKnown(n, e)
  ELSE AddFile(n, [size |-> e.size, mine |-> e.mine, dir |-> e.dir,
                   uploading |-> FALSE, touched |-> TRUE])

(***************************************************************************)
(* removeFile.  When the file is the one similar rules compare with,       *)
(* checkSimilar looks for another; firstsimilar keeps its old value when   *)
(* there is none.                                                          *)
(***************************************************************************)
SimilarAfterRemove(n) ==
  IF ~simil.checked \/ simil.first # n THEN {simil}
  ELSE LET rest == (Known \ {n}) \cap Similar
       IN IF rest = {} THEN {simil}
          ELSE {[checked |-> TRUE, first |-> m] : m \in rest}

RemoveEntry(n) ==
  LET f == files[n]
  IN /\ files' = Drop(n)
     /\ book' = setChanged([book EXCEPT
                  !.owned = @ - One(f.mine), !.uploaded = @ - One(Counts(f)),
                  !.uploading = @ - One(f.uploading),
                  !.changed = @ \cup {n}])
     /\ index' = DropIndex(n)
     /\ simil' \in SimilarAfterRemove(n)

\* targetError of a transfer to this directory.
removeFile(n) ==
  /\ Idle /\ n \in Known
  /\ RemoveEntry(n)
  /\ UNCHANGED scan

(***************************************************************************)
(* touchFile: a transfer to the site begins (upload), or XDUPE data names  *)
(* a file the site has.                                                    *)
(***************************************************************************)
touchFile(n, mine, upload) ==
  /\ Idle
  /\ UNCHANGED scan
  /\ IF n \in Known
     THEN LET fresh == upload /\ ~files[n].uploading
          IN /\ files' = WithFile(n, [files[n] EXCEPT !.uploading = @ \/ upload])
             /\ book' = [book EXCEPT !.uploading = @ + One(fresh)]
             /\ UNCHANGED <<index, simil>>
     ELSE AddFile(n, [size |-> 0, mine |-> mine, dir |-> FALSE,
                      uploading |-> upload, touched |-> FALSE])

\* The other side of a transfer reports success; the size is at least the
\* one known before (TransferMonitor::finish takes the maximum).
setFileUpdateFlag(n, size) ==
  /\ Idle /\ n \in Known /\ ~files[n].dir
  /\ size >= files[n].size
  /\ LET old == files[n].size
         b == [book EXCEPT !.uploaded = @ + One(old = 0),
                           !.changed = @ \cup {n}]
     IN /\ files' = WithFile(n, [files[n] EXCEPT !.size = size])
        /\ book' = IF size # old THEN setChanged(b) ELSE book
  /\ UNCHANGED <<index, simil, scan>>

finishUpload(n) ==
  /\ Idle /\ n \in Uploading
  /\ files' = WithFile(n, [files[n] EXCEPT !.uploading = FALSE])
  /\ book' = setChanged([book EXCEPT !.uploading = @ - 1])
  /\ UNCHANGED <<index, simil, scan>>

(***************************************************************************)
(* FTPConn::parseFileList: the lines, then the sweep of the files the      *)
(* listing did not touch when it had fewer lines than there are files.     *)
(***************************************************************************)
BeginListing ==
  /\ Idle
  /\ scan' = [scan EXCEPT !.phase = "lines"]
  /\ UNCHANGED <<files, book, index, simil>>

ListingLine(n, e) ==
  /\ scan.phase = "lines" /\ n \notin scan.seen
  /\ updateFileInternal(n, e)
  /\ scan' = [scan EXCEPT !.count = @ + 1, !.seen = @ \cup {n}]

Sweepable == {n \in Known : ~files[n].touched /\ ~files[n].uploading}

\* Variant: the sweep is left out when only one file is gone.
EndLinesOffByOne ==
  /\ scan.phase = "lines"
  /\ scan' = [scan EXCEPT
                !.phase = "sweep",
                !.erase = IF Cardinality(Known) > scan.count + 1
                          THEN Sweepable ELSE {}]
  /\ UNCHANGED <<files, book, index, simil>>

EndLines ==
  /\ scan.phase = "lines"
  /\ scan' = [scan EXCEPT
                !.phase = "sweep",
                !.erase = IF Cardinality(Known) > scan.count
                          THEN Sweepable ELSE {}]
  /\ UNCHANGED <<files, book, index, simil>>

cleanSweep(n) ==
  /\ scan.phase = "sweep" /\ n \in scan.erase
  /\ RemoveEntry(n)
  /\ scan' = [scan EXCEPT !.erase = @ \ {n}]

EndListing ==
  /\ scan.phase = "sweep" /\ scan.erase = {}
  /\ scan' = [scan EXCEPT !.phase = "idle", !.count = 0, !.seen = {}]
  /\ book' = [bumpUpdateState(book, REFRESHED) EXCEPT !.state = "LISTED"]
  /\ files' = [n \in Known |-> [files[n] EXCEPT !.touched = FALSE]]
  /\ UNCHANGED <<index, simil>>

(***************************************************************************)
(* SiteLogic::setPathExists: the answer to a CWD (yes, no) or to the MKD   *)
(* that was to make the directory (fail).                                  *)
(***************************************************************************)
addListFailure(b) ==
  IF b.failures + 1 >= MAX_LIST_FAILURES_BEFORE_STATE_FAILED
  THEN [setChanged(b) EXCEPT !.state = "FAILED"]
  ELSE [b EXCEPT !.failures = @ + 1]

PathState(b, exists) ==
  CASE b.state = "UNKNOWN" ->
         [b EXCEPT !.state = CASE exists = "yes" -> "EXISTS"
                               [] exists = "fail" -> "PRE_FAIL"
                               [] OTHER -> "NONEXISTENT"]
    [] b.state \in {"NONEXISTENT", "PRE_FAIL", "FAILED"}
         /\ exists = "yes" -> [b EXCEPT !.state = "EXISTS"]
    [] b.state = "NONEXISTENT" /\ exists = "fail" ->
         [b EXCEPT !.state = "PRE_FAIL"]
    [] b.state = "PRE_FAIL" /\ exists = "no" ->
         [setChanged(b) EXCEPT !.state = "FAILED"]
    [] b.state \in {"LISTED", "EXISTS"} /\ exists = "no" -> addListFailure(b)
    [] OTHER -> b

setPathExists(exists) ==
  /\ Idle
  /\ book' = bumpUpdateState(PathState(book, exists),
                             IF exists = "yes" THEN NONE ELSE REFRESHED)
  /\ UNCHANGED <<files, index, simil, scan>>

\* Engine::updateScoreBoard has worked the changes off.
resetScoreBoardUpdates ==
  /\ Idle
  /\ book' = [book EXCEPT !.board = NONE, !.changed = {}]
  /\ UNCHANGED <<files, index, simil, scan>>

\* Race::timeoutCheck looks at the list (listsChangedSinceLastCheck,
\* resetListsRefreshed).
resetUpdateState ==
  /\ Idle
  /\ book' = [book EXCEPT !.update = NONE]
  /\ UNCHANGED <<files, index, simil, scan>>

\* A similar rule is met for the first time.
checkSimilar ==
  /\ Idle /\ ~simil.checked
  /\ \/ /\ Known \cap Similar = {}
        /\ simil' = [simil EXCEPT !.checked = TRUE]
     \/ \E n \in Known \cap Similar :
          simil' = [checked |-> TRUE, first |-> n]
  /\ UNCHANGED <<files, book, index, scan>>

FileListNext ==
  \/ \E n \in Name : removeFile(n)
  \/ \E n \in Name : touchFile(n, TRUE, TRUE)
  \/ \E n \in Name : touchFile(n, FALSE, FALSE)
  \/ \E n \in Name, s \in Size : setFileUpdateFlag(n, s)
  \/ \E n \in Name : finishUpload(n)
  \/ BeginListing
  \/ \E n \in Name, e \in Entry : ListingLine(n, e)
  \/ EndLines
  \/ \E n \in Name : cleanSweep(n)
  \/ EndListing
  \/ \E x \in {"yes", "no", "fail"} : setPathExists(x)
  \/ resetScoreBoardUpdates
  \/ resetUpdateState
  \/ checkSimilar

FileListSpec == FileListInit /\ [][FileListNext]_flvars

(***************************************************************************)
(* Properties.                                                             *)
(***************************************************************************)
\* The counters the engine schedules by (getNumUploadedFiles,
\* getOwnedPercentage, hasFilesUploading) agree with the files, however
\* listings, transfers and removals interleave.
CountersExact ==
  /\ book.uploaded = Cardinality(Uploaded)
  /\ book.owned = Cardinality(Owned)
  /\ book.uploading = Cardinality(Uploading)

\* The index for case-insensitive lookups leads to a file of the list whose
\* name has that lower case form: getFile never follows it to nothing.
IndexSound ==
  \A k \in DOMAIN index :
    index[k] \in Known /\ LowerOf[index[k]] = k

\* When a listing has been worked in, the list holds nothing but the lines
\* of the listing and the files being uploaded.
SweptClean ==
  scan.phase = "sweep" /\ scan.erase = {} => Known \subseteq scan.seen \cup Uploading

\* The counters, the index and the marks of a list are those of its files, in
\* the middle of a listing too, and a listing leaves nothing that has gone.
FileListInv == ListTypeOK /\ CountersExact /\ IndexSound /\ SweptClean

\* What the scoreboard needs to know of a file.
Visible(n) == IF n \in Known THEN files[n].size ELSE -1

\* A file that appears, vanishes or changes its size is marked for the
\* scoreboard, with the list marked as changed; only resetScoreBoardUpdates
\* takes a mark back.
ChangeMarked ==
  [][\A n \in Name :
       /\ Visible(n)' # Visible(n) =>
            n \in book'.changed /\ book'.board = CHANGED
       /\ n \in book.changed /\ n \notin book'.changed =>
            UNCHANGED files]_flvars

\* The file that similar rules compare with is a file of the directory.
\* removeFile breaks this: its check for another similar file leaves
\* firstsimilar as it was when there is none.
SimilarInDirectory == simil.first = NoSimilar \/ simil.first \in Known
=============================================================================
