--------------------------- MODULE MCOrchestrator ---------------------------
(***************************************************************************)
(* Instances of Properties for TLC.                                        *)
(***************************************************************************)
EXTENDS Properties, TLC

CONSTANTS w, t1, t2, q1, q2

(* Request slots are interchangeable. *)
RequestSlots == Permutations({q1, q2})

(***************************************************************************)
(* A later start: run 1 went through the pipeline once, approved at every  *)
(* gate, and the project is deployed.                                      *)
(***************************************************************************)
Approval(s, k) == [run |-> 1, stage |-> s, decision |-> "approved", at |-> k]

DeployedInit ==
  /\ latest = 1
  /\ rows = [r \in RunIds |-> IF r = 1 THEN RowAt("EndSuccess") ELSE NoRow]
  /\ project = "deployed"
  /\ approvals = {Approval("prd", 1), Approval("design", 2), Approval("deploy", 3)}
  /\ reached = [r \in RunIds |-> IF r = 1 THEN NodeName \ {"EndFailed"} ELSE {}]
  /\ timeline = [r \in RunIds |->
       IF r = 1 THEN [moved |-> "none", last |-> "DeployProduction"] ELSE NoAttempt]
  /\ artifacts = [r \in RunIds |->
       IF r = 1 THEN ArtifactType \ {"deploy_failure"} ELSE {}]
  /\ scanned = [r \in RunIds |-> r = 1]
  /\ jobs = [r \in RunIds |-> 0]
  /\ tasks = [r \in RunIds |-> 0]
  /\ proc = [p \in Procs |-> IdleProc]
  /\ todo = IdleTodo
  /\ reqs = [q \in Requests |-> IdleRequest]
  /\ faults = 0

DeployedSpec == DeployedInit /\ [][Next]_allVars

(* The security gate (SecurityGateHolds) where every invocation executes a *)
(* current copy of its run: what two overlapping retries still break.      *)
SecurityGateFresh == FreshCopies => SecurityGateHolds

=============================================================================
