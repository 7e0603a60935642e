------------------------------ MODULE MCSpread ------------------------------
(***************************************************************************)
(* Instances of SpreadJobs and ElementBoard for TLC.  They share no state: *)
(* a behaviour is one of either, the other keeps its initial state.        *)
(*                                                                         *)
(* Spread jobs are checked in two scenarios: one job on three sites, of    *)
(* which c is affiliated (download-only), with restarts and appended       *)
(* sites; and two jobs on two sites, without listings and removals, that   *)
(* meet in the engine's lists and its history of one job.                  *)
(***************************************************************************)
EXTENDS SpreadJobs, ElementBoard

VARIABLE part   \* which of the components, and which scenario

A(r, s, reset, prof) ==
  [race |-> r, sites |-> s, dl |-> {}, reset |-> reset, prof |-> prof]
MCAsk == {A("r1", {"a", "b", "c"}, FALSE, "race"),
          A("r1", {"a", "b"}, TRUE, "race"),
          A("r1", {"a", "b"}, FALSE, "distribute"),
          A("r2", {"a", "c"}, FALSE, "prepare")}

MCKey == {<<"f", 1, 2>>, <<"g", 1, 2>>, <<"f", 2, 3>>}

Profile(r, p) == job[r].st # "none" => job[r].prof = p
InScenario ==
  CASE part = "one job" -> /\ Profile("r1", "race") /\ job["r2"].st = "none"
                           /\ eng.prepared = <<>> /\ ~eng.startnext
    [] part = "two jobs" -> /\ Profile("r1", "distribute")
                            /\ \A r \in Race : Cardinality(Sites(job[r])) \in {0, 2}
                            /\ \A r \in Race, s \in Site : flight[r][s] = "no"

MCInit == part \in {"one job", "two jobs", "container"} /\ SpreadInit /\ ContainerInit

Spreads == part # "container" /\ UNCHANGED <<part, ebvars>>
SpreadStep == Spreads /\ SpreadNext /\ InScenario'
MCTick == Spreads /\ SpreadTick /\ InScenario'
ContainerStep == part = "container" /\ ContainerNext /\ UNCHANGED <<part, spvars>>
mcvars == <<part, spvars, ebvars>>
MCSpec == MCInit /\ [][SpreadStep \/ ContainerStep]_mcvars /\ WF_mcvars(MCTick)
=============================================================================
