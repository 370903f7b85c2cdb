----------------------------- MODULE Deployment -----------------------------
(***************************************************************************)
(* From the deploy gate to the live URL: DeployProduction, the client of   *)
(* Vercel below it, the deployment_records, and POST /deploy beside it.    *)
(* It opens up the node that Engine takes as one step.  Decisions are one  *)
(* step here, and a deploy request is two: Orchestrator has the races of   *)
(* the others.  An invocation holds its run's row from its start to its    *)
(* commit.                                                                 *)
(***************************************************************************)
EXTENDS Integers, Sequences, FiniteSets, SequencesExt

CONSTANTS
  Requests,        \* slots for deploy requests in flight
  Operations,      \* what people do: "deploy", "retry", "replay"
  MaxPolls,        \* _DEPLOY_TIMEOUT / _DEPLOY_POLL_INTERVAL
  MaxRun, MaxDeployments, MaxRecords, MaxFaults   \* bounds

ASSUME OperationsAssumption == Operations \subseteq {"deploy", "retry", "replay"}
ASSUME BoundsAssumption ==
  /\ MaxRun \in Nat \ {0}
  /\ {MaxPolls, MaxDeployments, MaxRecords, MaxFaults} \subseteq Nat

VARIABLES
  node,         \* node[r]: current_node of run r; "none" while there is no run r
  status,       \* projects.status
  approvals,    \* the runs with an approval of the deploy stage
  records,      \* deployment_records, in the order of created_at
  reports,      \* reports[r]: what the deploy_report artifacts of run r say
  live,         \* projects.live_deployment_url: a deployment, 0 for none
  vproject,     \* Vercel: there is a project of this name
  deployments,  \* Vercel: the deployments, with who made them and their state
  task,         \* task[r]: the invocation that executes DeployProduction for r
  req,          \* req[q]: a deploy request between its checks and its commit
  faults

database == <<node, status, approvals, records, reports, live>>
vercel == <<vproject, deployments>>
vars == <<database, vercel, task, req, faults>>

Run == 1..MaxRun
Node == {"PreparePR", "WaitDeployApproval", "DeployProduction", "EndSuccess", "EndFailed"}
Url == 0..MaxDeployments

Calls == {"lookup", "create", "deploy", "poll"}
NoTask == [pc |-> "idle", deployment |-> 0, left |-> 0]
NoRequest == [run |-> 0, row |-> 0, node |-> "none"]

NODE_TO_PROJECT_STATUS ==
  [PreparePR |-> "deploy_ready", WaitDeployApproval |-> "deploy_ready",
   DeployProduction |-> "deploying", EndSuccess |-> "deployed",
   EndFailed |-> "failed"]

TypeOK ==
  /\ node \in [Run -> Node \cup {"none"}]
  /\ status \in {"deploy_ready", "deploying", "deployed", "failed"}
  /\ approvals \subseteq Run
  /\ records \in Seq([run : Run, status : {"queued", "success", "failed"}, url : Url])
  /\ reports \in [Run -> SUBSET {"passed", "failure"}]
  /\ live \in Url
  /\ vproject \in BOOLEAN
  /\ deployments \in Seq([by : Run, healthy : BOOLEAN,
                          state : {"BUILDING", "READY", "ERROR", "CANCELED"}])
  /\ task \in [Run -> [pc : Calls \cup {"idle", "ended", "healthy", "failing"},
                       deployment : Url, left : 0..MaxPolls]]
  /\ req \in [Requests -> [run : 0..MaxRun, row : 0..MaxRecords, node : Node \cup {"none"}]]
  /\ faults \in 0..MaxFaults

Init ==
  /\ node = [r \in Run |-> IF r = 1 THEN "WaitDeployApproval" ELSE "none"]
  /\ status = "deploy_ready"
  /\ approvals = {} /\ records = <<>> /\ live = 0
  /\ reports = [r \in Run |-> {}]
  /\ vproject = FALSE /\ deployments = <<>>
  /\ task = [r \in Run |-> NoTask]
  /\ req = [q \in Requests |-> NoRequest]
  /\ faults = 0

Latest == CHOOSE r \in Run : node[r] # "none" /\ \A q \in Run : q > r => node[q] = "none"

(* The engine's commit; only the newest run moves the project. *)
MoveTo(r, n) ==
  /\ node' = [node EXCEPT ![r] = n]
  /\ status' = IF r = Latest THEN NODE_TO_PROJECT_STATUS[n] ELSE status

-----------------------------------------------------------------------------
(* The gate. *)

(* submitApproval at the deploy stage, approved. *)
Approve ==
  /\ status = "deploy_ready" /\ node[Latest] = "WaitDeployApproval"
  /\ approvals' = approvals \cup {Latest}
  /\ status' = "deploying"
  /\ UNCHANGED <<node, records, reports, live, vercel, task, req, faults>>

(* A run that was replayed from before the gate comes to it; what can go    *)
(* wrong on the way is in PreparePR.                                        *)
Arrive(r) ==
  /\ node[r] = "PreparePR"
  /\ MoveTo(r, "WaitDeployApproval")
  /\ UNCHANGED <<approvals, records, reports, live, vercel, task, req, faults>>

(* An invocation passes the gate, or parks at it. *)
Pass(r) ==
  /\ node[r] = "WaitDeployApproval" /\ r \in approvals
  /\ MoveTo(r, "DeployProduction")
  /\ UNCHANGED <<approvals, records, reports, live, vercel, task, req, faults>>

Park(r) ==
  /\ node[r] = "WaitDeployApproval" /\ r \notin approvals
  /\ MoveTo(r, "WaitDeployApproval")
  /\ UNCHANGED <<approvals, records, reports, live, vercel, task, req, faults>>

-----------------------------------------------------------------------------
(* DeployProduction: before Vercel is called. *)

AtNode(r) == node[r] = "DeployProduction" /\ task[r].pc = "idle"

(* A mutant of MaySkip: any report of the node is a checkpoint. *)
MaySkipOnAny(r) == reports[r] # {}

(* The query for a checkpoint returns some report: a passed one is reused, *)
(* a failed one is not.                                                    *)
MaySkip(r) == "passed" \in reports[r]

(* A mutant of MayExecute: the query for a checkpoint finds nothing. *)
MayAlwaysExecute(r) == TRUE

MayExecute(r) == reports[r] # {"passed"}

Skip(r) ==
  /\ AtNode(r) /\ MaySkip(r)
  /\ MoveTo(r, "EndSuccess")
  /\ UNCHANGED <<approvals, records, reports, live, vercel, task, req, faults>>

(* _load_deploy_approval *)
DeployApproved(r) == r \in approvals

(* The pre-check fails the run, and leaves no report and no record. *)
Unapproved(r) ==
  /\ AtNode(r) /\ MayExecute(r) /\ ~DeployApproved(r)
  /\ MoveTo(r, "EndFailed")
  /\ UNCHANGED <<approvals, records, reports, live, vercel, task, req, faults>>

(* Bounds: every invocation may add one record and one deployment. *)
Room ==
  LET active == Cardinality({r \in Run : task[r].pc # "idle"}) IN
  Len(records) + active < MaxRecords /\ Len(deployments) + active < MaxDeployments

Start(r) ==
  /\ AtNode(r) /\ MayExecute(r) /\ DeployApproved(r)
  /\ Room
  /\ task' = [task EXCEPT ![r].pc = "lookup"]
  /\ UNCHANGED <<database, vercel, req, faults>>

-----------------------------------------------------------------------------
(* The calls of Vercel. *)

(* get_project by name; 404 leads to create_project. *)
Lookup(r) ==
  /\ task[r].pc = "lookup"
  /\ task' = [task EXCEPT ![r].pc = IF vproject THEN "deploy" ELSE "create"]
  /\ UNCHANGED <<database, vercel, req, faults>>

CreateProject(r) ==
  /\ task[r].pc = "create" /\ ~vproject
  /\ vproject' = TRUE
  /\ task' = [task EXCEPT ![r].pc = "deploy"]
  /\ UNCHANGED <<database, deployments, req, faults>>

(* Another run made the project since: a conflict is a VercelError. *)
Conflict(r) ==
  /\ task[r].pc = "create" /\ vproject
  /\ task' = [task EXCEPT ![r].pc = "failing"]
  /\ UNCHANGED <<database, vercel, req, faults>>

NewDeployment(r) ==
  deployments' = Append(deployments, [by |-> r, state |-> "BUILDING", healthy |-> FALSE])

CreateDeployment(r) ==
  /\ task[r].pc = "deploy"
  /\ NewDeployment(r)
  /\ task' = [task EXCEPT ![r] = [pc |-> "poll", deployment |-> Len(deployments) + 1,
                                  left |-> MaxPolls]]
  /\ UNCHANGED <<database, vproject, req, faults>>

Building(r) == deployments[task[r].deployment].state = "BUILDING"

(* Mutants of KeepPolling: the deadline is not looked at, looked at late, or  *)
(* set anew once it has passed.                                               *)
PollForever(r) == task[r].pc = "poll" /\ Building(r) /\ UNCHANGED vars

PollOnceMore(r) ==
  /\ task[r].pc = "poll" /\ Building(r) /\ task[r].left >= 0
  /\ task' = [task EXCEPT ![r].left = @ - 1]
  /\ UNCHANGED <<database, vercel, req, faults>>

PollAfresh(r) ==
  /\ task[r].pc = "poll" /\ Building(r)
  /\ task' = [task EXCEPT ![r].left = IF @ > 0 THEN @ - 1 ELSE MaxPolls]
  /\ UNCHANGED <<database, vercel, req, faults>>

KeepPolling(r) ==
  /\ task[r].pc = "poll" /\ Building(r) /\ task[r].left > 0
  /\ task' = [task EXCEPT ![r].left = @ - 1]
  /\ UNCHANGED <<database, vercel, req, faults>>

PollTimeout(r) ==
  /\ task[r].pc = "poll" /\ Building(r) /\ task[r].left = 0
  /\ task' = [task EXCEPT ![r].pc = "failing"]
  /\ UNCHANGED <<database, vercel, req, faults>>

PollEnded(r) ==
  /\ task[r].pc = "poll" /\ ~Building(r)
  /\ task' = [task EXCEPT ![r].pc = "ended"]
  /\ UNCHANGED <<database, vercel, req, faults>>

(* An error status, or a rate limit that outlasts _MAX_RETRIES: VercelError. *)
Refused(r) ==
  /\ task[r].pc \in Calls
  /\ task' = [task EXCEPT ![r].pc = "failing"]
  /\ UNCHANGED <<database, vercel, req, faults>>

(* No answer: the exception of httpx passes every handler, and the engine  *)
(* fails the run; Vercel may have done what it was asked.                  *)
Broken(r) ==
  /\ task[r].pc \in Calls
  /\ \/ UNCHANGED vercel
     \/ task[r].pc = "create" /\ vproject' = TRUE /\ UNCHANGED deployments
     \/ task[r].pc = "deploy" /\ NewDeployment(r) /\ UNCHANGED vproject
  /\ MoveTo(r, "EndFailed")
  /\ task' = [task EXCEPT ![r] = NoTask]
  /\ UNCHANGED <<approvals, records, reports, live, req, faults>>

-----------------------------------------------------------------------------
(* What becomes of it. *)

(* A mutant of IsReady: every ended deployment is looked at. *)
EndedAny(d) == deployments[d].state # "BUILDING"

IsReady(d) == deployments[d].state = "READY"

NotReady(r) ==
  /\ task[r].pc = "ended" /\ ~IsReady(task[r].deployment)
  /\ task' = [task EXCEPT ![r].pc = "failing"]
  /\ UNCHANGED <<database, vercel, req, faults>>

(* The URL answers, or it does not; an answer below 400, or one that asks  *)
(* for credentials, is good.                                               *)
HealthCheck(r) ==
  /\ task[r].pc = "ended" /\ IsReady(task[r].deployment)
  /\ \/ /\ task' = [task EXCEPT ![r].pc = "healthy"]
        /\ deployments' = [deployments EXCEPT ![task[r].deployment].healthy = TRUE]
     \/ /\ task' = [task EXCEPT ![r].pc = "failing"] /\ UNCHANGED deployments
  /\ UNCHANGED <<database, vproject, req, faults>>

(* A mutant of QueuedRecords: every record of the run will do. *)
RecordsOf(r) == {i \in DOMAIN records : records[i].run = r}

QueuedRecords(r) == {i \in DOMAIN records : records[i].run = r /\ records[i].status = "queued"}

(* _create_or_update_deployment_record: the newest queued one, or a new one. *)
Settle(r, outcome, url) ==
  LET Q == QueuedRecords(r)
      record == [run |-> r, status |-> outcome, url |-> url]
  IN  records' = IF Q = {} THEN Append(records, record)
                 ELSE [records EXCEPT ![Max(Q)] = record]

Succeed(r) ==
  /\ task[r].pc = "healthy"
  /\ Settle(r, "success", task[r].deployment)
  /\ live' = task[r].deployment
  /\ reports' = [reports EXCEPT ![r] = @ \cup {"passed"}]
  /\ MoveTo(r, "EndSuccess")
  /\ task' = [task EXCEPT ![r] = NoTask]
  /\ UNCHANGED <<approvals, vercel, req, faults>>

(* _fail_deployment *)
Fail(r) ==
  /\ task[r].pc = "failing"
  /\ Settle(r, "failed", 0)
  /\ reports' = [reports EXCEPT ![r] = @ \cup {"failure"}]
  /\ MoveTo(r, "EndFailed")
  /\ task' = [task EXCEPT ![r] = NoTask]
  /\ UNCHANGED <<approvals, live, vercel, req, faults>>

-----------------------------------------------------------------------------
(* Requests and people. *)

(***************************************************************************)
(* POST /deploy: the approval is looked for in the project, and more than  *)
(* one of them is an error (scalar_one_or_none).  A request whose          *)
(* Idempotency-Key a record carries is answered with that record before    *)
(* any of this, and changes nothing: it is no action.                      *)
(***************************************************************************)
BeginDeploy(q) ==
  /\ "deploy" \in Operations
  /\ req[q] = NoRequest
  /\ status = "deploy_ready"
  /\ Cardinality(approvals) = 1
  /\ node[Latest] # "EndSuccess"
  /\ req' = [req EXCEPT ![q] = [run |-> Latest, node |-> node[Latest],
       row |-> IF QueuedRecords(Latest) = {} THEN 0 ELSE Max(QueuedRecords(Latest))]]
  /\ UNCHANGED <<database, vercel, task, faults>>

(***************************************************************************)
(* The run goes to the gate, wherever it is by now, unless it was read     *)
(* there: then the flush leaves its node alone.  A write to the run's row, *)
(* or of a record that refers to it, waits for the invocation that has it. *)
(***************************************************************************)
CommitDeploy(q) ==
  LET h == req[q] IN
  /\ h.run # 0
  /\ h.row = 0 \/ h.node # "WaitDeployApproval" => task[h.run].pc = "idle"
  /\ \/ /\ h.row = 0 /\ Room
        /\ records' = Append(records, [run |-> h.run, status |-> "queued", url |-> 0])
     \/ h.row # 0 /\ UNCHANGED records
  /\ node' = IF h.node = "WaitDeployApproval" THEN node
             ELSE [node EXCEPT ![h.run] = "WaitDeployApproval"]
  /\ status' = "deploying"
  /\ req' = [req EXCEPT ![q] = NoRequest]
  /\ UNCHANGED <<approvals, reports, live, vercel, task, faults>>

(* retry_failed; a run whose deployment failed is sent back to it. *)
Retry ==
  /\ "retry" \in Operations
  /\ node[Latest] = "EndFailed"
  /\ MoveTo(Latest, "DeployProduction")
  /\ UNCHANGED <<approvals, records, reports, live, vercel, task, req, faults>>

(* replay_from_node: a new run at a node the one before it reached. *)
Replay ==
  /\ "replay" \in Operations
  /\ Latest < MaxRun /\ node[Latest] \in {"EndSuccess", "EndFailed"}
  /\ \E n \in {"PreparePR", "WaitDeployApproval", "DeployProduction"} :
       /\ node' = [node EXCEPT ![Latest + 1] = n]
       /\ status' = NODE_TO_PROJECT_STATUS[n]
  /\ UNCHANGED <<approvals, records, reports, live, vercel, task, req, faults>>

(* A crash before the commit: what was flushed is gone, Vercel keeps its part. *)
Crash ==
  /\ faults < MaxFaults /\ faults' = faults + 1
  /\ \/ \E r \in Run : /\ task[r].pc # "idle"
                       /\ task' = [task EXCEPT ![r] = NoTask] /\ UNCHANGED req
     \/ \E q \in Requests : /\ req[q] # NoRequest
                            /\ req' = [req EXCEPT ![q] = NoRequest] /\ UNCHANGED task
  /\ UNCHANGED <<database, vercel>>

(* Vercel ends a build, also one nobody waits for any more. *)
BuildEnds ==
  \E d \in DOMAIN deployments :
    /\ deployments[d].state = "BUILDING"
    /\ \E s \in {"READY", "ERROR", "CANCELED"} :
         deployments' = [deployments EXCEPT ![d].state = s]
    /\ UNCHANGED <<database, vproject, task, req, faults>>

-----------------------------------------------------------------------------
Execute(r) ==
  \/ Lookup(r) \/ CreateProject(r) \/ Conflict(r) \/ CreateDeployment(r)
  \/ KeepPolling(r) \/ PollTimeout(r) \/ PollEnded(r)
  \/ NotReady(r) \/ HealthCheck(r) \/ Succeed(r) \/ Fail(r)

Enter(r) == Arrive(r) \/ Pass(r) \/ Park(r) \/ Skip(r) \/ Unapproved(r) \/ Start(r)

Next ==
  \/ \E r \in Run : Enter(r) \/ Execute(r) \/ Refused(r) \/ Broken(r)
  \/ Approve \/ Retry \/ Replay
  \/ \E q \in Requests : BeginDeploy(q) \/ CommitDeploy(q)
  \/ Crash \/ BuildEnds

(* A started invocation goes on: every call of httpx has a timeout.  People, *)
(* builds and failures owe nothing.                                          *)
Spec == Init /\ [][Next]_vars /\ \A r \in Run : WF_vars(Execute(r))

-----------------------------------------------------------------------------
(* The URL the project shows is that of a deployment that was READY and     *)
(* answered, made by a run whose own deploy gate was approved, and a        *)
(* deployment record says so (deploy_production.py:62, 161, 171).           *)
LiveTrue ==
  live # 0 =>
    /\ deployments[live].state = "READY" /\ deployments[live].healthy
    /\ deployments[live].by \in approvals
    /\ \E i \in DOMAIN records :
         records[i] = [run |-> deployments[live].by, status |-> "success", url |-> live]

(* A project that is shown as deployed has a live URL, also after crashes,  *)
(* retries and skipped executions (engine.py:571).                          *)
DeployedShown == status = "deployed" => live # 0

(* What a deployment record says was the outcome is never rewritten, whatever *)
(* is requested, retried or deployed later (deploy_production.py:356).        *)
RecordsFinal ==
  [][\A i \in DOMAIN records : records[i].status # "queued" => records'[i] = records[i]]_vars

(* An invocation that calls Vercel ends, though a build may never end: the   *)
(* row of the run is not held for good (vercel.py:270).                      *)
InvocationsEnd == \A r \in Run : task[r].pc # "idle" ~> task[r].pc = "idle"

(* The steps an invocation has left, at most. *)
StepsLeft(r) ==
  CASE task[r].pc = "idle"                 -> 0
    [] task[r].pc \in {"healthy", "failing"} -> 1
    [] task[r].pc = "ended"                -> 2
    [] task[r].pc = "poll"                 -> 3 + task[r].left
    [] task[r].pc = "deploy"               -> 4 + MaxPolls
    [] task[r].pc = "create"               -> 5 + MaxPolls
    [] task[r].pc = "lookup"               -> 6 + MaxPolls

(* Whatever Vercel answers and whoever else acts, an invocation never goes    *)
(* back: each of its steps leaves fewer to do, so it makes at most            *)
(* MaxPolls + 6 of them (deploy_production.py:109, vercel.py:270).            *)
InvocationsAdvance ==
  [][\A r \in Run : task[r].pc # "idle" /\ task'[r] # task[r]
                      => StepsLeft(r)' < StepsLeft(r)]_vars

(* A run whose deployments all passed was deployed once: sent through the   *)
(* gate again, it is found done (_check_existing_artifact, engine.py:567).  *)
DeployedOnce ==
  \A r \in Run : "failure" \notin reports[r] =>
    Cardinality({i \in DOMAIN records :
                    records[i].run = r /\ records[i].status = "success"}) <= 1

(***************************************************************************)
(* What the repository says and TLC refutes.                               *)
(***************************************************************************)

(* "Return an existing *successful* checkpoint artifact" (engine.py:568): a  *)
(* run that has the report of a deployment that passed does not deploy again. *)
DeployedOnceEver ==
  \A r \in Run : Cardinality({i \in DOMAIN records :
                    records[i].run = r /\ records[i].status = "success"}) <= 1

(* "Create a queued DeploymentRecord (idempotent - skip if already queued)"  *)
(* (routes/deploy.py:132): requests leave one queued record of a run at most. *)
QueuedOnce ==
  \A r \in Run : Cardinality(QueuedRecords(r)) <= 1

=============================================================================
