------------------------------- MODULE MCSweep -------------------------------
(***************************************************************************)
(* Two rounds, so that a gateway has a predecessor, on two nodes, so that  *)
(* it may be the predecessor's or not.                                     *)
(***************************************************************************)
EXTENDS Sweep

CONSTANTS n1, n2

MCNodes == {n1, n2}

\* A gateway of an earlier experiment: still running (run-experiment.sh leaves
\* its own), or ended.
StillRunning == {"serving"}

AllGone == {"ended"}
=============================================================================
