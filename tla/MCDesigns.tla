----------------------------- MODULE MCDesigns ------------------------------
(* Instances of Designs for TLC: one request at a time next to the run. *)
EXTENDS Designs

CONSTANT q1
Q == {q1}

=============================================================================
