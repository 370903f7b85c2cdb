----------------------------- MODULE Properties -----------------------------
(***************************************************************************)
(* What is claimed of ID8: the properties the runs check.                  *)
(***************************************************************************)
EXTENDS Orchestrator

(***************************************************************************)
(* The human gates.  A run made by replay_from_node starts in the middle   *)
(* of the pipeline on the strength of what an earlier run reached, so the  *)
(* approval a run relies on may be one of an earlier run's.                *)
(***************************************************************************)
ClearedBy(r, s) == \E q \in 1..r : Approved(q, s)

BeyondDesign == {"WriteCode", "SecurityGate", "PreparePR", "WaitDeployApproval",
                 "DeployProduction", "EndSuccess"}
BeyondDeploy == {"DeployProduction", "EndSuccess"}

(* No code is written, scanned, proposed or deployed for a run before a    *)
(* human approved a design, of this run or of an earlier one: neither the  *)
(* table nor a stale copy of the row that an invocation executes says so.  *)
DesignGate ==
  /\ \A r \in RunIds : rows[r].node \in BeyondDesign => ClearedBy(r, "design")
  /\ \A p \in Procs : /\ proc[p].pc = "execute"
                      /\ proc[p].cache.node \in BeyondDesign
                      => ClearedBy(proc[p].run, "design")

(* Nothing is deployed for a run before a human approved a deployment, of  *)
(* this run or of an earlier one.                                          *)
DeployGate ==
  /\ \A r \in RunIds : rows[r].node \in BeyondDeploy => ClearedBy(r, "deploy")
  /\ \A p \in Procs : /\ proc[p].pc = "execute"
                      /\ proc[p].cache.node \in BeyondDeploy
                      => ClearedBy(proc[p].run, "deploy")

(***************************************************************************)
(* The security gate.                                                      *)
(***************************************************************************)

Proposed == {"PreparePR", "WaitDeployApproval", "DeployProduction", "EndSuccess"}

(* Nothing is proposed or deployed for a run before the security gate has  *)
(* reported on code of this run or of an earlier one.                      *)
ScanGate ==
  \A r \in RunIds : rows[r].node \in Proposed =>
    \E x \in 1..r : "security_report" \in artifacts[x]

(* "Mandatory security gate ... No bypasses" (README.md:221): PreparePR and *)
(* DeployProduction send code out only when the newest code of the run is  *)
(* code the security gate has let pass.                                    *)
SecurityGateHolds ==
  \A p \in Procs :
     /\ proc[p].pc = "execute"
     /\ proc[p].cache.node \in {"PreparePR", "DeployProduction"}
     /\ "code_snapshot" \in artifacts[proc[p].run]
     => scanned[proc[p].run]

(***************************************************************************)
(* Stale copies.  An invocation that goes back for the lock after a commit *)
(* and the worker that took a run from its list may find that another      *)
(* invocation moved the run meanwhile, and execute the copy they have.     *)
(***************************************************************************)
FreshCopies == \A p \in Procs :
  proc[p].pc = "execute" => proc[p].cache = rows[proc[p].run]

(***************************************************************************)
(* The status the project shows.                                           *)
(***************************************************************************)

(* Nothing is under way and nothing is going to happen by itself. *)
Settled ==
  /\ \A p \in Procs : proc[p].pc = "idle"
  /\ \A q \in Requests : reqs[q].kind = "idle"
  /\ \A r \in RunIds : tasks[r] = 0 /\ jobs[r] = 0 /\ todo.runs[r].node = "none"
  /\ rows[latest].node \notin ActionableNodes

(* When everything has come to rest, the project shows the status of the   *)
(* node its newest run rests at, however the requests and invocations that *)
(* wrote it overlapped, as long as no invocation executed a stale copy     *)
(* (the run that checks it is cut at FreshCopies).                         *)
SettledStatus ==
  latest # 0 /\ Settled => project = NODE_TO_PROJECT_STATUS[rows[latest].node]

(***************************************************************************)
(* Progress, under FairSpec.                                               *)
(***************************************************************************)

(* A run does not stay at a node that needs no human: the background task  *)
(* or, when that is lost, the worker moves it on.                          *)
ActionableProgress ==
  \A r \in RunIds : \A n \in ActionableNodes :
     rows[r].node = n ~> rows[r].node # n

(* A run at a gate whose latest decision is an approval leaves the gate.   *)
AtApprovedGate(r) == \E s \in Stages :
   rows[r].node = STAGE_TO_WAIT_NODE[s] /\ LatestDecision(r, s, "approved")

ApprovalHonoured == \A r \in RunIds : AtApprovedGate(r) ~> ~AtApprovedGate(r)

(***************************************************************************)
(* What the documentation says and the code does not do.                   *)
(***************************************************************************)

(* "Protect against stale/background runs overwriting project status that  *)
(* already belongs to a newer run": no invocation of an older run writes   *)
(* the status of the project.                                              *)
OlderRunsLeaveProject ==
  [][\A p \in Procs : proc[p].run # latest /\ proc'[p] # proc[p]
                       => project' = project]_allVars

=============================================================================
