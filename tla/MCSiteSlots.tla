----------------------------- MODULE MCSiteSlots -----------------------------
(***************************************************************************)
(* Instances of SiteSlots for TLC.                                         *)
(***************************************************************************)
EXTENDS SiteSlots, TLC

\* Different limits for the different origins of a download.
Limits == [t \in OriginTypes |-> CASE t = "REGULAR" -> 1
                                   [] t = "PRE" -> 2
                                   [] OTHER -> 1]
Symmetry == Permutations(Conns)
=============================================================================
