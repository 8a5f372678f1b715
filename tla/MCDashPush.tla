----------------------------- MODULE MCDashPush -----------------------------
(***************************************************************************)
(* Two contents of the views, interchangeable; the intervals are in the    *)
(* configurations, in the proportions of the defaults.                     *)
(***************************************************************************)
EXTENDS DashPush, TLC

Symmetry == Permutations(Content)
=============================================================================
