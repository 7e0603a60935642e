------------------------------ MODULE Settings ------------------------------
(***************************************************************************)
(* The settings of the program and the data file that keeps them.          *)
(* SettingsLoaderSaver writes every setting as a line "owner.key=value" (or *)
(* "owner.name$key=value" for the settings of a named site, proxy, section  *)
(* or script set) and reads the lines back at the next start;               *)
(* DataFileHandler keeps the file, plain or encrypted under a passphrase,   *)
(* and skips a write whose hash equals the one of the file it last wrote.   *)
(*                                                                         *)
(* The settings are independent of each other, so one of them, "focus", is *)
(* followed and the others stay what they are.  A text is a sequence of    *)
(* symbols of which "$", "=" and "#end#" mean something to the format; "x" *)
(* stands for all others.  The names of sites, proxies, sections and       *)
(* scripts hold no "$" (with one the lines cannot be told apart).  The     *)
(* process may be killed at any time, and a write may fail.                *)
(***************************************************************************)
EXTENDS Naturals, Sequences, FiniteSets, SequencesExt

CONSTANTS
  Passphrase     \* the passphrases of the user

VARIABLES
  focus,      \* the setting that is followed: [form, owner, key]
  config,     \* its value in the running program
  up,         \* the process runs
  dstate,     \* DataFileHandler::state
  dkey,       \* DataFileHandler::key
  filehash,   \* DataFileHandler::filehash; SHA-256 is taken to be injective
  outputlines,\* DataFileHandler::outputlines
  disk,       \* the data file: its key and its lines
  autosaver,  \* SettingsLoaderSaver is poked every AUTO_SAVE_INTERVAL
  loaded,     \* history: the settings of this session come from the file, or there was none
  edited,     \* history: the setting was changed in this session
  made,       \* history: the value outputlines were made of
  truth,      \* history: the value the lines on the disk were made of
  failed,     \* history: the last write of this session failed
  told        \* history: the passphrase the user was last told is in use

settingsVars == <<focus, config, up, dstate, dkey, filehash, outputlines, disk,
                  autosaver, loaded, edited, made, truth, failed, told>>

Plain == "plain"      \* the key of a file that is not encrypted
NoFile == [key |-> "none", lines |-> <<>>]
States == {"NOT_EXISTING", "EXISTS_ENCRYPTED", "EXISTS_DECRYPTED", "EXISTS_PLAIN"}

-----------------------------------------------------------------------------
(* The keys that saveSettings writes, by owner and form of the value.      *)

SavedText ==
  [IOManager |-> {"bindinterface"}, ProxyManager |-> {"addr", "port", "user"},
   ProxyManagerDefaults |-> {"useproxy", "dataproxy"},
   LocalStorage |-> {"temppath", "downloadpath", "activemodeaddr4", "activemodeaddr6"},
   SiteManager |-> {"addr", "user", "basepath", "proxyname", "dataproxyname", "affil",
                    "exceptsourcesite", "excepttargetsite"},
   SiteManagerDefaults |-> {"username"},
   ExternalFileViewing |-> {"video", "audio", "image", "pdf"}]

SavedByUi ==
  {"legendmode", "maxmainscreenspreadjobs", "maxmainscreentransferjobs",
   "maxmainscreenspreadjobage", "maxmainscreentransferjobage"}

SavedNumber ==
  [RemoteCommandHandler |-> {"port", "notify"}, HTTPServer |-> {"port"},
   ProxyManager |-> {"authmethod", "activeaddresssource", "activeportsmethod", "activeportfirst",
                     "activeportlast"},
   LocalStorage |-> {"maxdownloadslots", "maxuploadslots", "transferprotocol", "activeportfirst",
                     "activeportlast"},
   SiteManager |-> {"logins2", "maxup2", "maxdn2", "maxdnpre2", "maxdncomplete2",
                    "maxdntransferjob2", "idletime", "tlsmode", "ssltransfer", "transferprotocol",
                    "listcommand", "allowupload", "allowdownload", "priority", "refreshrate",
                    "proxytype", "dataproxytype", "transfersourcepolicy", "transfertargetpolicy",
                    "maxtransfertimeseconds", "maxspreadjobtimeseconds", "sizeup", "filesup",
                    "sizedown", "filesdown"},
   SiteManagerDefaults |-> {"maxlogins2", "maxup2", "maxdown2", "maxidletime", "ssltransfer",
                            "tlsmode"},
   SectionManager |-> {"jobs", "hotkey"},
   Engine |-> {"preparedraceexpirytime", "racestarterexpiry", "maxspreadjobshistory",
               "maxtransferjobshistory", "maxspreadjobtimeseconds"},
   TransferManager |-> {"maxtransferhistory", "maxtransfertimeseconds"},
   LogManager |-> {"maxrawbuflines"},
   Statistics |-> {"sizeup", "filesup", "sizedown", "filesdown", "sizefxp", "filesfxp",
                   "spreadjobs", "transferjobs"},
   UI |-> SavedByUi]

SavedBase64 == [RemoteCommandHandler |-> {"passwordb64"}, ProxyManager |-> {"passwordb64"},
                SiteManager |-> {"passwordb64", "freetextb64"},
                SiteManagerDefaults |-> {"passwordb64"}]

\* "true" or "false"
SavedBool == [RemoteCommandHandler |-> {"encrypted"}, UI |-> {"highlightentireline"}]

\* a line only when the flag is set, respectively cleared
SavedIfSet ==
  [RemoteCommandHandler |-> {"udpenable", "listenall"}, HTTPServer |-> {"enabled"},
   LocalStorage |-> {"useactivemodeaddr"},
   SiteManager |-> {"pret", "binary", "stayloggedin", "disabled", "brokenpasv", "freeslot"},
   TimeReference |-> {"logtimestampms"}]
SavedIfClear == [ProxyManager |-> {"resolvehosts"}, SiteManager |-> {"sscn", "cpsv", "cepr", "xdupe"}]

\* two parts with a "$" between them; a count of hours, only when it is not 0
SavedPair == [SSLManager |-> {"certkeypair"},
              SiteManager |-> {"section", "avgspeed", "sitessizeup", "sitesfilesup",
                               "sitessizedown", "sitesfilesdown"}]
SavedHours == [SiteManager |-> {"sizeup24", "filesup24", "sizedown24", "filesdown24"},
               Statistics |-> {"sizeup24", "filesup24", "sizedown24", "filesdown24", "sizefxp24",
                               "filesfxp24"}]
\* a site and its count of hours, only when that is not 0
SavedSiteHours == [SiteManager |-> {"sitessizeup24", "sitesfilesup24", "sitessizedown24",
                                    "sitesfilesdown24"}]
SavedRule == [SkipList |-> {"entry"}, SiteManager |-> {"skiplistentry"},
              SectionManager |-> {"skiplistentry"}]
SavedScript == [ExternalScriptsManager |-> {"entry"}]
SavedKeys == [UI |-> {"keybind"}]

Saved == [text |-> SavedText, number |-> SavedNumber, base64 |-> SavedBase64, bool |-> SavedBool,
          ifset |-> SavedIfSet, ifclear |-> SavedIfClear, pair |-> SavedPair, hours |-> SavedHours,
          sitehours |-> SavedSiteHours,
          rule |-> SavedRule, script |-> SavedScript, keys |-> SavedKeys]

Setting == UNION {UNION {{[form |-> f, owner |-> o, key |-> k] : k \in Saved[f][o]}
                            : o \in DOMAIN Saved[f]} : f \in DOMAIN Saved}

(* The keys that loadSettings understands, read from its own branches.     *)
LoadedText ==
  [IOManager |-> {"bindinterface"}, ProxyManager |-> {"addr", "port", "user"},
   ProxyManagerDefaults |-> {"useproxy", "dataproxy"},
   LocalStorage |-> {"temppath", "downloadpath", "activemodeaddr4", "activemodeaddr6"},
   SiteManager |-> {"addr", "user", "basepath", "affil", "proxyname", "dataproxyname",
                    "exceptsourcesite", "excepttargetsite"},
   SiteManagerDefaults |-> {"username"},
   ExternalFileViewing |-> {"video", "audio", "image", "pdf"}]

LoadedByUi ==
  {"legendmode", "maxmainscreenspreadjobs", "maxmainscreentransferjobs",
   "maxmainscreenspreadjobage", "maxmainscreentransferjobage"}

LoadedNumber ==
  [RemoteCommandHandler |-> {"port", "notify"}, HTTPServer |-> {"port"},
   ProxyManager |-> {"authmethod", "activeaddresssource", "activeportsmethod", "activeportfirst",
                     "activeportlast"},
   LocalStorage |-> {"maxdownloadslots", "maxuploadslots", "transferprotocol", "activeportfirst",
                     "activeportlast"},
   SiteManager |-> {"idletime", "tlsmode", "ssltransfer", "transferprotocol", "listcommand",
                    "allowupload", "allowdownload", "priority", "refreshrate", "logins2", "maxdn2",
                    "maxdnpre2", "maxdncomplete2", "maxdntransferjob2", "maxup2", "proxytype",
                    "dataproxytype", "transfersourcepolicy", "transfertargetpolicy", "sizeup",
                    "filesup", "sizedown", "filesdown", "maxtransfertimeseconds",
                    "maxspreadjobtimeseconds"},
   SiteManagerDefaults |-> {"maxlogins2", "maxup2", "maxdown2", "tlsmode", "ssltransfer",
                            "maxidletime"},
   SectionManager |-> {"jobs", "hotkey"},
   Engine |-> {"preparedraceexpirytime", "racestarterexpiry", "maxspreadjobshistory",
               "maxtransferjobshistory", "maxspreadjobtimeseconds"},
   TransferManager |-> {"maxtransferhistory", "maxtransfertimeseconds"},
   LogManager |-> {"maxrawbuflines"},
   Statistics |-> {"sizeup", "filesup", "sizedown", "filesdown", "sizefxp", "filesfxp",
                   "spreadjobs", "transferjobs"},
   UI |-> LoadedByUi]

LoadedFlags ==
  [RemoteCommandHandler |-> [udpenable |-> "true", encrypted |-> "any", listenall |-> "any"],
   HTTPServer |-> [enabled |-> "true"], ProxyManager |-> [resolvehosts |-> "false"],
   LocalStorage |-> [useactivemodeaddr |-> "true"],
   SiteManager |-> [pret |-> "true", binary |-> "true", xdupe |-> "false", stayloggedin |-> "true",
                    sscn |-> "false", cpsv |-> "false", cepr |-> "false", disabled |-> "true",
                    brokenpasv |-> "true", freeslot |-> "true"],
   TimeReference |-> [logtimestampms |-> "any"], UI |-> [highlightentireline |-> "any"]]

\* the keys of files written before r1133, and the key each of them is now
LegacyOf == [logins2 |-> "logins", maxdn2 |-> "maxdn", maxdnpre2 |-> "maxdnpre",
             maxdncomplete2 |-> "maxdncomplete", maxdntransferjob2 |-> "maxdntransferjob",
             maxup2 |-> "maxup"]
LegacyNumber(k, v) == IF v # <<"0">> THEN v
                      ELSE IF k \in {"maxdnpre", "maxdncomplete", "maxdntransferjob"} THEN <<"-2">>
                      ELSE <<"-1">>

-----------------------------------------------------------------------------
(* Values and their encodings.                                             *)

Text == {<<>>, <<"x">>, <<"x", "$", "x", "=">>}
Number == {<<"0">>, <<"1">>}
Bool == {<<"true">>, <<"false">>}
Absent == <<>>        \* no section, speed, rule, script... of this kind

Value(s) ==
  CASE s.form \in {"text", "base64"}               -> Text
    [] s.form = "number"                           -> Number
    [] s.form \in {"bool", "ifset", "ifclear"}     -> Bool
    [] s.form = "pair"                             ->
         {Absent} \cup ({<<"x">>} \X (IF s.key \in {"section", "certkeypair"} THEN Text ELSE Number))
    [] s.form = "hours"                            -> {<<"0">>, <<"1">>}
    [] s.form = "sitehours"                        -> {Absent, <<<<"x">>, <<"1">>>>}
    [] s.form = "rule"                             -> {Absent, <<<<"true">>, <<"x", "$">>, <<"true">>, <<"false">>>>,
                                                       <<<<"false">>, <<"x">>, <<"false">>, <<"true">>>>}
    [] s.form = "script"                           -> {Absent} \cup ({<<"x">>} \X {<<"x", "=">>})
    [] s.form = "keys"                             -> {<<"1">>, <<>>, <<"1", ",", "2">>}

\* what the constructors leave in the setting
Default(s) ==
  CASE s.form \in {"text", "base64", "pair", "sitehours", "rule", "script"} -> <<>>
    [] s.form \in {"number", "hours"}              -> <<"0">>
    [] s.form \in {"bool", "ifclear"}              -> <<"true">>
    [] s.form = "ifset"                            -> <<"false">>
    [] s.form = "keys"                             -> <<"1">>

Joined(parts) == FoldLeft(LAMBDA t, p : IF t = <<>> THEN p ELSE t \o <<"$">> \o p, <<>>, parts)
\* the text before the first c, and what follows it
Cut(t, c) == LET i == SelectInSeq(t, LAMBDA e : e = c)
             IN IF i = 0 THEN <<t, t>> ELSE <<SubSeq(t, 1, i - 1), SubSeq(t, i + 1, Len(t))>>
Swap(t, a, b) == [i \in DOMAIN t |-> IF t[i] = a THEN b ELSE t[i]]

replaceRegexEnd(t) == Swap(t, "$", "#end#")
restoreRegexEnd(t) == Swap(t, "#end#", "$")

\* the alphabet of base64 has no "$"; the padding is a "="
Base64Encode(t) == Swap(Swap(t, "$", "B"), "=", "C") \o <<"=">>
Base64Decode(t) == Swap(Swap(Cut(t, "=")[1], "B", "$"), "C", "=")

trackerHoursToString(n) == <<"t", ";">> \o n
stringToTrackerHours(t) == Cut(t, ";")[2]

addSkipList(r) == Joined(<<r[1], replaceRegexEnd(r[2]), r[3], r[4], <<"0">>, <<"1">>>>)
loadSkipListEntry(t) ==
  LET a == Cut(t, "$")
      b == Cut(a[2], "$")
      c == Cut(b[2], "$")
  IN <<a[1], restoreRegexEnd(b[1]), c[1], Cut(c[2], "$")[1]>>

\* no line is written for it
Unwritten(s, v) ==
  \/ s.form = "ifset" /\ v = <<"false">>
  \/ s.form = "ifclear" /\ v = <<"true">>
  \/ s.form = "hours" /\ v = <<"0">>
  \/ s.form = "keys" /\ v = Default(s)
  \/ s.form \in {"pair", "sitehours", "rule", "script"} /\ v = Absent
  \/ /\ s.key \in {"bindinterface", "useproxy", "dataproxy", "proxyname", "dataproxyname", "affil",
                   "exceptsourcesite", "excepttargetsite"}
     /\ v = <<>>

Encode(s, v) ==
  CASE s.form \in {"text", "number", "bool", "ifset", "ifclear"} -> v
    [] s.form = "base64" -> Base64Encode(v)
    [] s.form = "pair"   -> IF s.key = "certkeypair"
                            THEN Joined(<<Base64Encode(v[1]), Base64Encode(v[2])>>)
                            ELSE Joined(<<v[1], v[2]>>)
    [] s.form = "hours"  -> trackerHoursToString(v)
    [] s.form = "sitehours" -> Joined(<<v[1], trackerHoursToString(v[2])>>)
    [] s.form = "rule"   -> addSkipList(v)
    [] s.form = "script" -> Joined(<<v[1], v[2], <<"7">>>>)
    [] s.form = "keys"   -> <<"n", "$", "a", "$", "s", "$">> \o v

NamedOwners == {"ProxyManager", "SiteManager", "SectionManager", "ExternalScriptsManager"}
Prefix(o, k) == (IF o \in NamedOwners THEN <<"x", "$">> ELSE <<>>) \o <<k, "=">>

\* saveSettings: the lines of all other settings, and the line of this one
Lines(s, v) == <<[owner |-> "*", text |-> <<>>]>> \o
               (IF Unwritten(s, v) THEN <<>> ELSE <<[owner |-> s.owner, text |-> Prefix(s.owner, s.key) \o Encode(s, v)]>>)

FlagRead(want, v, d) == IF want = "any" \/ v = <<want>> THEN v ELSE d

Decode(s, key, v) ==
  CASE s.form \in {"bool", "ifset", "ifclear"} -> FlagRead(LoadedFlags[s.owner][key], v, Default(s))
    [] s.form \in {"text", "number"} -> v
    [] s.form = "base64" -> Base64Decode(v)
    [] s.form = "pair"   -> LET c == Cut(v, "$")
                            IN IF key = "certkeypair" THEN <<Base64Decode(c[1]), Base64Decode(c[2])>> ELSE c
    [] s.form = "hours"  -> stringToTrackerHours(v)
    [] s.form = "sitehours" -> <<Cut(v, "$")[1], stringToTrackerHours(Cut(v, "$")[2])>>
    [] s.form = "rule"   -> loadSkipListEntry(v)
    [] s.form = "script" -> <<Cut(v, "$")[1], Cut(Cut(v, "$")[2], "$")[1]>>
    [] s.form = "keys"   -> Cut(Cut(Cut(v, "$")[2], "$")[2], "$")[2]

\* the keys of owner o read into a setting of the given form
Understood(s) ==
  LET K(table) == IF s.owner \in DOMAIN table THEN table[s.owner] ELSE {}
  IN CASE s.form = "text"   -> K(LoadedText)
       [] s.form = "number" -> K(LoadedNumber)
       [] s.form \in {"bool", "ifset", "ifclear"} -> DOMAIN LoadedFlags[s.owner]
       [] OTHER -> {s.key}

\* one line of the file: the name up to the first "$", the key up to the next "="
LoadLine(s, v, line) ==
  LET rest == IF line.owner \in NamedOwners THEN Cut(line.text, "$")[2] ELSE line.text
      key == Cut(rest, "=")[1][1]
      val == Cut(rest, "=")[2]
  IN IF line.owner # s.owner THEN v
     ELSE IF key = s.key /\ key \in Understood(s) THEN Decode(s, key, val)
     ELSE IF s.owner = "SiteManager" /\ s.key \in DOMAIN LegacyOf /\ key = LegacyOf[s.key]
     THEN LegacyNumber(key, val)
     ELSE v

loadSettings(lines) == FoldLeft(LAMBDA v, l : LoadLine(focus, v, l), Default(focus), lines)

-----------------------------------------------------------------------------
(* The data file.  A write goes to a temporary file that is then moved over *)
(* the data file; either may fail.  A process killed inside a write leaves  *)
(* the data file as it was, which is the action Killed.                     *)

Outcome == {"ok", "fails"}

\* DataFileHandler::writeFile in state st under key k, with the hash h of the last write
\* and the lines out made of v
writeFile(st, k, h, out, v, outcome) ==
  LET skip == st = "EXISTS_ENCRYPTED" \/ out = h
      done == ~skip /\ outcome = "ok"
  IN /\ dkey' = k /\ outputlines' = out /\ made' = v
     /\ filehash' = IF skip THEN h ELSE out
     /\ dstate' = IF ~skip /\ st = "NOT_EXISTING" THEN "EXISTS_PLAIN" ELSE st
     /\ failed' = IF skip THEN failed ELSE outcome = "fails"
     /\ disk' = IF done THEN [key |-> IF st = "EXISTS_DECRYPTED" THEN k ELSE Plain, lines |-> out]
                ELSE disk
     /\ truth' = IF done THEN v ELSE truth

Kept == UNCHANGED <<focus, config, up, autosaver, loaded, edited>>

\* DataFileHandler::DataFileHandler and SettingsLoaderSaver::init
StartUp ==
  /\ ~up
  /\ up' = TRUE /\ dkey' = Plain /\ outputlines' = <<>> /\ edited' = FALSE /\ failed' = FALSE
  /\ dstate' = IF disk = NoFile THEN "NOT_EXISTING"
               ELSE IF disk.key = Plain THEN "EXISTS_PLAIN" ELSE "EXISTS_ENCRYPTED"
  /\ filehash' = IF disk.key = Plain THEN disk.lines ELSE <<>>
  /\ config' = IF disk.key = Plain THEN loadSettings(disk.lines) ELSE Default(focus)
  /\ loaded' = (disk = NoFile \/ disk.key = Plain)
  /\ autosaver' = (disk = NoFile \/ disk.key = Plain)
  /\ told' = IF disk = NoFile THEN Plain ELSE disk.key
  /\ UNCHANGED <<focus, disk, made, truth>>

\* SettingsLoaderSaver::tryDecrypt, from the login screen
tryDecrypt(k) ==
  /\ up /\ dstate = "EXISTS_ENCRYPTED"
  /\ dkey' = k
  /\ IF k = disk.key
     THEN /\ dstate' = "EXISTS_DECRYPTED" /\ filehash' = disk.lines
          /\ config' = loadSettings(disk.lines) /\ loaded' = TRUE /\ autosaver' = TRUE
          /\ told' = k
     ELSE UNCHANGED <<dstate, filehash, config, loaded, autosaver, told>>
  /\ UNCHANGED <<focus, up, outputlines, disk, edited, made, truth, failed>>

\* the user, a remote command or the program itself changes the setting
Edit(v) ==
  /\ up /\ dstate # "EXISTS_ENCRYPTED" /\ v # config
  /\ config' = v /\ edited' = TRUE
  /\ UNCHANGED <<focus, up, dstate, dkey, filehash, outputlines, disk, autosaver, loaded, made,
                 truth, failed, told>>

\* SettingsLoaderSaver::saveSettings, on request
saveSettings(outcome) ==
  /\ up /\ dstate # "EXISTS_ENCRYPTED"
  /\ writeFile(dstate, dkey, filehash, Lines(focus, config), config, outcome)
  /\ Kept /\ UNCHANGED told

\* ... and on the poke
AutoSave(outcome) == autosaver /\ saveSettings(outcome)

setEncrypted(k, outcome) ==
  /\ up /\ dstate \notin {"EXISTS_ENCRYPTED", "EXISTS_DECRYPTED"}
  /\ writeFile("EXISTS_DECRYPTED", k, <<>>, outputlines, made, outcome)
  /\ told' = k
  /\ Kept

\* mutant: the hash of the encrypted file is kept
setPlainKeepsHash(outcome) ==
  /\ up /\ dstate = "EXISTS_DECRYPTED"
  /\ writeFile("EXISTS_PLAIN", dkey, filehash, outputlines, made, outcome)
  /\ told' = Plain
  /\ Kept

setPlain(outcome) ==
  /\ up /\ dstate = "EXISTS_DECRYPTED"
  /\ writeFile("EXISTS_PLAIN", dkey, <<>>, outputlines, made, outcome)
  /\ told' = Plain
  /\ Kept

changeKey(k, outcome) ==
  /\ up /\ dstate = "EXISTS_DECRYPTED"
  /\ writeFile("EXISTS_DECRYPTED", k, <<>>, outputlines, made, outcome)
  /\ told' = k
  /\ Kept

\* killed, inside a write or not
Killed ==
  /\ up
  /\ up' = FALSE /\ autosaver' = FALSE /\ loaded' = FALSE /\ edited' = FALSE /\ failed' = FALSE
  /\ config' = Default(focus) /\ made' = Default(focus)
  /\ dstate' = "NOT_EXISTING" /\ dkey' = Plain /\ filehash' = <<>> /\ outputlines' = <<>>
  /\ UNCHANGED <<focus, disk, truth, told>>

\* a first start, a file of this version, or one of the time before r1133
SettingsInit ==
  /\ focus \in Setting
  /\ \/ disk = NoFile /\ truth = Default(focus)
     \/ \E v \in Value(focus) : disk = [key |-> Plain, lines |-> Lines(focus, v)] /\ truth = v
     \/ /\ focus.owner = "SiteManager" /\ focus.key \in DOMAIN LegacyOf
        /\ LET old == LegacyOf[focus.key]
               line == [owner |-> focus.owner, text |-> Prefix(focus.owner, old) \o <<"0">>]
           IN disk = [key |-> Plain, lines |-> <<line>>] /\ truth = LegacyNumber(old, <<"0">>)
  /\ config = Default(focus) /\ made = Default(focus)
  /\ up = FALSE /\ dstate = "NOT_EXISTING" /\ dkey = Plain /\ filehash = <<>> /\ outputlines = <<>>
  /\ autosaver = FALSE /\ loaded = FALSE /\ edited = FALSE /\ failed = FALSE /\ told = Plain

\* a clean end of the program is saveSettings followed by Killed
SettingsNext ==
  \/ StartUp
  \/ \E k \in Passphrase : tryDecrypt(k)
  \/ \E v \in Value(focus) : Edit(v)
  \/ \E o \in Outcome : saveSettings(o)
  \/ \E o \in Outcome : AutoSave(o)
  \/ \E k \in Passphrase, o \in Outcome : setEncrypted(k, o)
  \/ \E o \in Outcome : setPlain(o)
  \/ \E k \in Passphrase, o \in Outcome : changeKey(k, o)
  \/ Killed

SettingsSpec == SettingsInit /\ [][SettingsNext]_settingsVars

-----------------------------------------------------------------------------
(* Properties                                                              *)

DiskKey == IF dstate = "EXISTS_DECRYPTED" THEN dkey ELSE Plain

\* Every variable has its type.
SettingsTypeOK ==
  /\ focus \in Setting /\ config \in Value(focus) \cup {<<"-1">>, <<"-2">>} /\ dstate \in States
  /\ dkey \in Passphrase \cup {Plain} /\ told \in Passphrase \cup {Plain}
  /\ disk.key \in Passphrase \cup {Plain, "none"}
  /\ {up, autosaver, loaded, edited, failed} \subseteq BOOLEAN

\* What a session reads from the data file is what the session that wrote it had: for every
\* key, form and separator of the format, through encryption, changed passphrases, failed
\* writes and kills, and from a file of the old format.
RoundTrip == loaded /\ ~edited => config = truth

\* The hash by which writeFile decides that there is nothing to write speaks of the file that
\* is on the disk, under the key in use, unless the last write failed.
HashTellsDisk == up /\ filehash # <<>> /\ ~failed => disk = [key |-> DiskKey, lines |-> filehash]

\* Once a session has saved and the write succeeded, the file is encrypted, or not, as the user
\* was last told: an earlier save, a skipped write and a changed passphrase do not undo it.
SavedAsTold == up /\ outputlines # <<>> /\ ~failed => disk.key = told

\* A session with settings of its own saves them by itself.
AutoSaverRuns == up /\ dstate # "EXISTS_ENCRYPTED" => autosaver

\* What is on disk is what the session was told to keep, under the key it was
\* told, and is what the next session reads.
SettingsInv ==
  SettingsTypeOK /\ RoundTrip /\ HashTellsDisk /\ SavedAsTold /\ AutoSaverRuns
=============================================================================
