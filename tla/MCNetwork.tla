----------------------------- MODULE MCNetwork -----------------------------
(***************************************************************************)
(* Instances of Connect, SocketIO, SignalEvents and FileLists for TLC.     *)
(* They share no state: a behaviour is one of them, the others keep an     *)
(* initial state.                                                          *)
(***************************************************************************)
EXTENDS Connect, SocketIO, SignalEvents, FileLists, TLC

VARIABLE part   \* which of the components the behaviour is about

DirectSite == [addresses |-> 2, tls |-> "AUTH_TLS", proxy |-> "none", binary |-> TRUE, xdupe |-> FALSE]
ProxiedSite == [addresses |-> 1, tls |-> "IMPLICIT", proxy |-> "userpass", binary |-> FALSE, xdupe |-> TRUE]
MCSites == {DirectSite, ProxiedSite}

\* Two names that differ only in case.
MCNames == {"a", "A"}
MCLower == "a" :> "a" @@ "A" :> "a"

\* A bound: a directory with two files is not known to be missing, no listing
\* of it has failed, and Race::timeoutCheck has not looked at it since (it
\* resets a mark of its own, on which nothing here depends).
SmallLists ==
  Known = Name =>
    book.failures = 0 /\ book.update = CHANGED /\ book.state \in {"UNKNOWN", "EXISTS", "LISTED"}

NetworkInit ==
  /\ part \in {"connect", "socket", "signals", "lists"}
  /\ ConnectInit /\ (part # "connect" => site = DirectSite)
  /\ SockInit /\ Init /\ FileListInit

ConnectStep == part = "connect" /\ ConnectNext /\ UNCHANGED <<part, sockVars, vars, flvars>>
SocketStep == part = "socket" /\ SockNext /\ UNCHANGED <<part, cvars, vars, flvars>>
SignalStep == part = "signals" /\ Next /\ UNCHANGED <<part, cvars, sockVars, flvars>>
ListStep == part = "lists" /\ FileListNext /\ SmallLists' /\ UNCHANGED <<part, cvars, sockVars, vars>>
NetworkSpec ==
  NetworkInit /\ [][ConnectStep \/ SocketStep \/ SignalStep \/ ListStep]_<<part, cvars, sockVars, vars, flvars>>
=============================================================================
