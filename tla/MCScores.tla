------------------------------ MODULE MCScores ------------------------------
(***************************************************************************)
(* An instance of ScoreBoard for TLC: a job on two sites with one file.    *)
(***************************************************************************)
EXTENDS ScoreBoard

MCSettings == {<<"A", "B">>}

\* A site alone has nobody to send to, and a job that is over is started again
\* or nothing happens to its board.
Alive == IF done = Site THEN \E hard \in BOOLEAN : resetRace(hard) ELSE sites = Site /\ ScoreNext
\* Bounds: the updates of both lists are deferred only before a site is done, and
\* the list of a site that is done has not failed.
SmallEnd == done # {} => /\ pend # Site
                         /\ \A l \in done : lists[l].st \notin {"PRE_FAIL", "FAILED"}

MCSpec == ScoreInit /\ [][Alive /\ SmallEnd']_bvars
=============================================================================
