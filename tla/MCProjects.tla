----------------------------- MODULE MCProjects -----------------------------
(* Instances of Projects for TLC.  Requests and keys are interchangeable. *)
EXTENDS Projects, TLC

CONSTANTS q1, q2, p1, p2, k1, none
RequestsMC == {q1, q2}
OneProject == {p1}
Projects2 == {p1, p2}
KeysMC == {k1}
Symmetry == Permutations({q1, q2})

=============================================================================
