----------------------------- MODULE MCServices -----------------------------
(***************************************************************************)
(* Instances of RestApi, TransferJobs and RemoteCommands for TLC.  They    *)
(* share no state: a behaviour is one of them, the others keep an initial  *)
(* state.                                                                  *)
(***************************************************************************)
EXTENDS RestApi, TransferJobs, RemoteCommands

VARIABLE part   \* which of the components the behaviour is about

\* A directory with two files in it, one of them denied, and one in its
\* subdirectory, or one file.
MCWhere == [f \in File |-> CASE f = "h" -> "root" [] f \in {"n", "i"} -> "d" [] OTHER -> "e"]

\* Paths that are absolute, start with a section or name nothing.
GivenPaths == {<<"/", "x">>, <<"S", "d">>, <<"T">>, <<"nowhere">>}

AnyJob == [type |-> "DOWNLOAD", item |-> "file", link |-> FALSE, xdupe |-> FALSE, history |-> TRUE]

\* Two small instances: a job the user acts on, which has at most one file to
\* transfer, and a download or upload of two files that the user leaves alone.
\* A job of one file is aborted and reset as often as MaxUser says and may be
\* more than the history has room for; a directory's, once.
TwoFiles == part = "twofiles"
JobParts == {"transferjob", "twofiles"}
JobInstance ==
  /\ kind.item = "dir" => kind.history
  /\ IF TwoFiles THEN kind.item = "dir" /\ kind.type # "FXP" /\ "n" \in disk
     ELSE kind.item = "dir" => "i" \in disk
UserBound == CASE TwoFiles -> 0 [] ~TwoFiles /\ kind.item = "dir" -> 1 [] OTHER -> MaxUser

ServicesInit ==
  /\ part \in {"rest", "remote"} \cup JobParts
  /\ RestInit
  /\ IF part \in JobParts THEN TRUE ELSE kind = AnyJob /\ disk = {}
  /\ JobInit
  /\ IF part \in JobParts THEN JobInstance ELSE lists["src"].state["root"] = "UNKNOWN"
  /\ IF part = "remote" THEN TRUE
     ELSE /\ topic = "end" /\ config = [s \in SiteNames |-> [disabled |-> FALSE, sections |-> SectionNames]]
          /\ job = [status |-> "RUNNING", sites |-> SiteNames, done |-> {},
                    have |-> [s \in SiteNames |-> 0], total |-> 0, deleted |-> {}]
  /\ RemoteInit

RestStep == part = "rest" /\ RestNext /\ UNCHANGED <<part, tjvars, remoteVars>>
TransferJobStep ==
  /\ part \in JobParts /\ JobNext
  /\ engine'.user <= UserBound
  /\ UNCHANGED <<part, restVars, remoteVars>>
RemoteStep == part = "remote" /\ RemoteNext /\ UNCHANGED <<part, restVars, tjvars>>
ServicesSpec ==
  /\ ServicesInit
  /\ [][RestStep \/ TransferJobStep \/ RemoteStep]_<<part, restVars, tjvars, remoteVars>>
=============================================================================
