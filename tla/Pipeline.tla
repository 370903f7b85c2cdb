------------------------------ MODULE Pipeline ------------------------------
(***************************************************************************)
(* The static part of the ID8 pipeline: its nodes, the transition table,   *)
(* the status a project shows at each node, the artifact each node leaves  *)
(* behind, and the three human approval gates.  It has no state; every     *)
(* module of the project that moves a run extends it.                      *)
(***************************************************************************)
EXTENDS Naturals

(* orchestrator/nodes.py: NodeName, in the order of the pipeline. *)
NodeName ==
  {"IngestPrompt", "GeneratePRD", "WaitPRDApproval", "GenerateDesign",
   "WaitDesignApproval", "WriteCode", "SecurityGate", "PreparePR",
   "WaitDeployApproval", "DeployProduction", "EndSuccess", "EndFailed"}

WaitNodes       == {"WaitPRDApproval", "WaitDesignApproval", "WaitDeployApproval"}
TerminalNodes   == {"EndSuccess", "EndFailed"}
ActionableNodes == NodeName \ (WaitNodes \cup TerminalNodes)

(* Nodes the engine may skip when an artifact of the node exists.  Of the  *)
(* three, only DeployProduction has an artifact type (see ArtifactOf).     *)
IdempotentNodes == {"IngestPrompt", "PreparePR", "DeployProduction"}

ProjectStatus ==
  {"ideation", "prd_draft", "prd_approved", "design_draft", "design_approved",
   "codegen", "security_gate", "deploy_ready", "deploying", "deployed", "failed"}

NODE_TO_PROJECT_STATUS ==
  [ IngestPrompt       |-> "ideation",
    GeneratePRD        |-> "prd_draft",
    WaitPRDApproval    |-> "prd_draft",
    GenerateDesign     |-> "design_draft",
    WaitDesignApproval |-> "design_draft",
    WriteCode          |-> "codegen",
    SecurityGate       |-> "security_gate",
    PreparePR          |-> "deploy_ready",
    WaitDeployApproval |-> "deploy_ready",
    DeployProduction   |-> "deploying",
    EndSuccess         |-> "deployed",
    EndFailed          |-> "failed" ]

(***************************************************************************)
(* orchestrator/transitions.py.  TRANSITIONS is the table as triples       *)
(* <<node, outcome, next node>>; Resolves(n, o, m) says that               *)
(* resolve_next_node(n, o) returns m.  An outcome the table does not have  *)
(* for the node is looked up again under its alias.                        *)
(***************************************************************************)
TRANSITIONS ==
  { <<"IngestPrompt",       "success",  "GeneratePRD">>,
    <<"IngestPrompt",       "failure",  "EndFailed">>,
    <<"GeneratePRD",        "success",  "WaitPRDApproval">>,
    <<"GeneratePRD",        "failure",  "EndFailed">>,
    <<"WaitPRDApproval",    "approved", "GenerateDesign">>,
    <<"WaitPRDApproval",    "rejected", "GeneratePRD">>,
    <<"GenerateDesign",     "success",  "WaitDesignApproval">>,
    <<"GenerateDesign",     "failure",  "EndFailed">>,
    <<"WaitDesignApproval", "approved", "WriteCode">>,
    <<"WaitDesignApproval", "rejected", "GenerateDesign">>,
    <<"WriteCode",          "success",  "SecurityGate">>,
    <<"WriteCode",          "failure",  "EndFailed">>,
    <<"WriteCode",          "failed",   "WriteCode">>,
    <<"SecurityGate",       "passed",   "PreparePR">>,
    <<"SecurityGate",       "failed",   "WriteCode">>,
    <<"SecurityGate",       "failure",  "EndFailed">>,
    <<"PreparePR",          "success",  "WaitDeployApproval">>,
    <<"PreparePR",          "failure",  "EndFailed">>,
    <<"WaitDeployApproval", "approved", "DeployProduction">>,
    <<"WaitDeployApproval", "rejected", "EndFailed">>,
    <<"DeployProduction",   "passed",   "EndSuccess">>,
    <<"DeployProduction",   "failed",   "EndFailed">>,
    <<"DeployProduction",   "failure",  "EndFailed">> }

OutcomeAlias == {<<"failed", "failure">>, <<"failure", "failed">>}

Resolves(n, o, m) ==
  \/ <<n, o, m>> \in TRANSITIONS
  \/ /\ \A k \in NodeName : <<n, o, k>> \notin TRANSITIONS
     /\ \E alias \in OutcomeAlias :
          alias[1] = o /\ <<n, alias[2], m>> \in TRANSITIONS

(***************************************************************************)
(* Artifacts (handlers/stubs.py) and what a handler needs to succeed.      *)
(* "deploy_failure" is the deploy_report of a deployment that failed: it   *)
(* has the same type as "deploy_report" and is told apart by its content.  *)
(***************************************************************************)
ArtifactType ==
  {"prd", "design_spec", "code_snapshot", "security_report",
   "deploy_report", "deploy_failure"}

(* The artifacts _NODE_TO_ARTIFACT_TYPE attributes to a node. *)
ArtifactsOf(n) ==
  CASE n = "GeneratePRD"      -> {"prd"}
    [] n = "GenerateDesign"   -> {"design_spec"}
    [] n = "WriteCode"        -> {"code_snapshot"}
    [] n = "SecurityGate"     -> {"security_report"}
    [] n = "DeployProduction" -> {"deploy_report", "deploy_failure"}
    [] OTHER                  -> {}

(* routes/runs.py: _NODE_PROGRESS_INDEX. *)
NODE_PROGRESS_INDEX ==
  [ IngestPrompt       |-> 0,  GeneratePRD      |-> 1,  WaitPRDApproval |-> 2,
    GenerateDesign     |-> 3,  WaitDesignApproval |-> 4, WriteCode      |-> 5,
    SecurityGate       |-> 6,  PreparePR        |-> 7,
    WaitDeployApproval |-> 8,  DeployProduction |-> 9,
    EndSuccess         |-> 10, EndFailed        |-> 11 ]

(* The artifacts of the nodes that come before n. *)
ArtifactsBefore(n) ==
  UNION {ArtifactsOf(k) : k \in {j \in NodeName :
                            NODE_PROGRESS_INDEX[j] < NODE_PROGRESS_INDEX[n]}}

(***************************************************************************)
(* The approval gates (routes/approvals.py).                               *)
(***************************************************************************)
Stages    == {"prd", "design", "deploy"}
Decisions == {"approved", "rejected"}

STAGE_TO_WAIT_NODE ==
  [prd |-> "WaitPRDApproval", design |-> "WaitDesignApproval",
   deploy |-> "WaitDeployApproval"]

STAGE_TO_VALID_STATUS ==
  [prd |-> "prd_draft", design |-> "design_draft", deploy |-> "deploy_ready"]

STAGE_TO_APPROVED_STATUS ==
  [prd |-> "prd_approved", design |-> "design_approved", deploy |-> "deploying"]

=============================================================================
