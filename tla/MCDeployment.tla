---------------------------- MODULE MCDeployment ----------------------------
(* Instances of Deployment for TLC. *)
EXTENDS Deployment

CONSTANTS q1, q2
One == {q1}
Two == {q1, q2}

=============================================================================
