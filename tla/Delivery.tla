------------------------------ MODULE Delivery ------------------------------
(***************************************************************************)
(* What PreparePR promises, without its requests: the code of a run goes   *)
(* into the repository once, and the run moves on only if it did.  The     *)
(* whole repository may be lost.                                           *)
(***************************************************************************)
CONSTANT Run

VARIABLES
  delivered,   \* deliveries the repository has: of a run, under a number
  landed,      \* runs whose code a repository took in at some time
  reported     \* runs that moved on

Init ==
  /\ delivered = {}
  /\ landed = {}
  /\ reported = {}

(* The number is any that is given. *)
Deliver(r) ==
  /\ \A d \in delivered : d[1] # r
  /\ \E d \in delivered' : d[1] = r /\ delivered' = delivered \cup {d}
  /\ landed' = landed \cup {r}
  /\ UNCHANGED reported

Report(r) ==
  /\ r \in landed \ reported
  /\ reported' = reported \cup {r}
  /\ UNCHANGED <<delivered, landed>>

Lose ==
  /\ delivered' = {}
  /\ UNCHANGED <<landed, reported>>

Next == Lose \/ \E r \in Run : Deliver(r) \/ Report(r)

Spec == Init /\ [][Next]_<<delivered, landed, reported>>

=============================================================================
