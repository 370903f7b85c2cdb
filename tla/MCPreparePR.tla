----------------------------- MODULE MCPreparePR ----------------------------
(***************************************************************************)
(* Instances of PreparePR for TLC: the runs are numbers, and their order   *)
(* matters, so there is no symmetry.                                       *)
(***************************************************************************)
EXTENDS PreparePR

=============================================================================
