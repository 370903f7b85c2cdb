------------------------------- MODULE Routes -------------------------------
(***************************************************************************)
(* The operations of the API that move a project: routes/runs.py,          *)
(* routes/approvals.py, routes/deploy.py and routes/design.py.  An         *)
(* operation reads the project and its newest run, checks them, and later  *)
(* commits what follows from what it read; nothing holds the rows in       *)
(* between.  Begin... is the reading and the checks (a request they refuse *)
(* changes nothing), Commit... the commit and the queued background task.  *)
(***************************************************************************)
EXTENDS Database

CONSTANT Operations     \* the operations clients use, here

ASSUME OperationsAssumption ==
  Operations \subseteq {"approval", "retry", "replay", "deploy", "design"}

-----------------------------------------------------------------------------
(* The order of created_at, which is the order transactions start in. *)

(* k is the next place after those of S. *)
Follows(k, S) == (\A j \in S : j < k) /\ (k = 1 \/ k - 1 \in S)

Pending(kind) == {q \in Requests : reqs[q].kind = kind}

NextEvent(k) ==
  Follows(k, {e.at : e \in approvals} \cup {reqs[q].at : q \in Pending("approval")})

NextRunId(k) == Follows(k, {latest} \cup {reqs[q].at : q \in Pending("replay")})

Begin(q, request) == reqs' = [reqs EXCEPT ![q] = request]

(* What a request knows of the newest run and of the project. *)
ReadLatest(kind) ==
  [IdleRequest EXCEPT !.kind = kind, !.run = latest, !.seen = rows[latest],
                      !.project = project]

Done(q) == reqs' = [reqs EXCEPT ![q] = IdleRequest]

Enqueue(r) == tasks' = [tasks EXCEPT ![r] = @ + 1]

IsRunTerminal(row) == row.status \in {"deployed", "failed"} \/ row.node \in TerminalNodes

-----------------------------------------------------------------------------
(* createRun without resume_from_node: a fresh run. *)
CreateRun ==
  \E r \in RunIds :
  /\ NextRunId(r)
  /\ latest' = r
  /\ rows' = [rows EXCEPT ![r] = RowAt("IngestPrompt")]
  /\ reached' = [reached EXCEPT ![r] = {"IngestPrompt"}]
  /\ timeline' = [timeline EXCEPT ![r] = [moved |-> "none", last |-> "IngestPrompt"]]
  /\ Enqueue(r)
  /\ UNCHANGED <<project, approvals, evidence, jobs, sessions>>

-----------------------------------------------------------------------------
(* submitApproval. *)
BeginApproval(q, s, d) ==
  /\ "approval" \in Operations
  /\ reqs[q].kind = "idle" /\ latest # 0
  /\ project = STAGE_TO_VALID_STATUS[s]
  /\ rows[latest].node = STAGE_TO_WAIT_NODE[s]
  /\ \E k \in 1..MaxEvents :
       /\ NextEvent(k)
       /\ Begin(q, [ReadLatest("approval") EXCEPT !.stage = s, !.decision = d,
                                                  !.at = k])
  /\ UNCHANGED <<tables, tasks, proc, todo>>

CommitApproval(q) ==
  LET a == reqs[q] IN
  /\ a.kind = "approval" /\ ~Locked(a.run)
  /\ tasks[a.run] < MaxQueued
  /\ approvals' = approvals \cup
       {[run |-> a.run, stage |-> a.stage, decision |-> a.decision, at |-> a.at]}
  /\ project' = IF a.decision = "approved"
                THEN FlushProject(a.project, STAGE_TO_APPROVED_STATUS[a.stage])
                ELSE project
  /\ reached' = [reached EXCEPT ![a.run] = @ \cup {a.seen.node}]
  /\ Enqueue(a.run)
  /\ Done(q)
  /\ UNCHANGED <<latest, rows, timeline, evidence, jobs, proc, todo>>

-----------------------------------------------------------------------------
(* createRun with replay_mode = retry_failed. *)

(* _infer_failed_node_for_run *)
FailedNode(r) ==
  CASE rows[r].node \notin TerminalNodes -> rows[r].node
    [] rows[r].node \in TerminalNodes /\ timeline[r].moved # "none" -> timeline[r].moved
    [] OTHER -> timeline[r].last

(* A mutant of WasReached: EndFailed, the last node, is behind every other. *)
WasReachedByIndex(r, n) ==
  \/ NODE_PROGRESS_INDEX[rows[r].node] >= NODE_PROGRESS_INDEX[n]
  \/ n \in reached[r]
  \/ ArtifactsOf(n) \cap artifacts[r] # {}
  \/ \E s \in Stages : n = STAGE_TO_WAIT_NODE[s] /\ EventsOf(r, s) # {}

(* _was_node_previously_reached *)
WasReached(r, n) ==
  LET here == rows[r].node IN
  \/ n = "IngestPrompt"
  \/ n = here
  \/ here = "EndSuccess"
  \/ here # "EndFailed" /\ NODE_PROGRESS_INDEX[here] >= NODE_PROGRESS_INDEX[n]
  \/ n \in reached[r]
  \/ ArtifactsOf(n) \cap artifacts[r] # {}
  \/ \E s \in Stages : n = STAGE_TO_WAIT_NODE[s] /\ EventsOf(r, s) # {}

BeginRetry(q) ==
  /\ "retry" \in Operations
  /\ reqs[q].kind = "idle" /\ latest # 0
  /\ rows[latest].status = "failed" \/ rows[latest].node = "EndFailed"
  /\ FailedNode(latest) # "none" /\ WasReached(latest, FailedNode(latest))
  /\ Begin(q, [ReadLatest("retry") EXCEPT !.node = FailedNode(latest)])
  /\ UNCHANGED <<tables, tasks, proc, todo>>

CommitRetry(q) ==
  LET a == reqs[q] IN
  /\ a.kind = "retry" /\ ~Locked(a.run)
  /\ tasks[a.run] < MaxQueued
  /\ rows' = [rows EXCEPT ![a.run] = Flush(a.run, a.seen, RowAt(a.node))]
  /\ project' = FlushProject(a.project, NODE_TO_PROJECT_STATUS[a.node])
  /\ reached' = [reached EXCEPT ![a.run] = @ \cup {a.seen.node, a.node}]
  /\ timeline' = [timeline EXCEPT ![a.run] =
       [moved |-> "none",
        last  |-> IF a.seen.node \in TerminalNodes THEN "none" ELSE a.seen.node]]
  /\ Enqueue(a.run)
  /\ Done(q)
  /\ UNCHANGED <<latest, approvals, evidence, jobs, proc, todo>>

-----------------------------------------------------------------------------
(* createRun with replay_mode = replay_from_node: a new run at node n. *)
BeginReplayUnchecked(q, n) ==      \* a mutant: any node will do
  /\ "replay" \in Operations
  /\ reqs[q].kind = "idle" /\ latest # 0
  /\ IsRunTerminal(rows[latest])
  /\ \E k \in RunIds :
       /\ NextRunId(k)
       /\ Begin(q, [ReadLatest("replay") EXCEPT !.node = n, !.at = k])
  /\ UNCHANGED <<tables, tasks, proc, todo>>

BeginReplay(q, n) ==
  /\ "replay" \in Operations
  /\ reqs[q].kind = "idle" /\ latest # 0
  /\ IsRunTerminal(rows[latest])
  /\ WasReached(latest, n)
  /\ \E k \in RunIds :
       /\ NextRunId(k)
       /\ Begin(q, [ReadLatest("replay") EXCEPT !.node = n, !.at = k])
  /\ UNCHANGED <<tables, tasks, proc, todo>>

CommitReplay(q) ==
  LET a == reqs[q] IN
  /\ a.kind = "replay"
  /\ latest' = IF a.at > latest THEN a.at ELSE latest
  /\ rows' = [rows EXCEPT ![a.at] = RowAt(a.node)]
  /\ artifacts' = [artifacts EXCEPT ![a.at] = artifacts[a.run] \cap ArtifactsBefore(a.node)]
  /\ scanned' = [scanned EXCEPT ![a.at] =
                   scanned[a.run] /\ "security_report" \in ArtifactsBefore(a.node)]
  /\ project' = FlushProject(a.project, NODE_TO_PROJECT_STATUS[a.node])
  /\ reached' = [reached EXCEPT ![a.at] = {a.seen.node, a.node}]
  /\ timeline' = [timeline EXCEPT ![a.at] =
       [moved |-> "none",
        last  |-> IF a.seen.node \in TerminalNodes THEN "none" ELSE a.seen.node]]
  /\ Enqueue(a.at)
  /\ Done(q)
  /\ UNCHANGED <<approvals, jobs, proc, todo>>

-----------------------------------------------------------------------------
(* deployProject: more than one approval makes the query raise. *)
BeginDeploy(q) ==
  /\ "deploy" \in Operations
  /\ reqs[q].kind = "idle" /\ latest # 0
  /\ project = "deploy_ready"
  /\ \E e \in DeployApprovals : DeployApprovals = {e}
  /\ rows[latest].node # "EndSuccess"
  /\ Begin(q, ReadLatest("deploy"))
  /\ UNCHANGED <<tables, tasks, proc, todo>>

CommitDeploy(q) ==
  LET a == reqs[q]
      forced == [a.seen EXCEPT !.node = "WaitDeployApproval", !.status = "deploy_ready"]
  IN
  /\ a.kind = "deploy" /\ ~Locked(a.run)
  /\ tasks[a.run] < MaxQueued
  /\ rows' = [rows EXCEPT ![a.run] = Flush(a.run, a.seen, forced)]
  /\ project' = FlushProject(a.project, "deploying")
  /\ reached' = [reached EXCEPT ![a.run] = @ \cup {a.seen.node, "WaitDeployApproval"}]
  /\ timeline' = [timeline EXCEPT ![a.run] =
       [moved |-> "none",
        last  |-> IF a.seen.node \in TerminalNodes THEN "none" ELSE a.seen.node]]
  /\ Enqueue(a.run)
  /\ Done(q)
  /\ UNCHANGED <<latest, approvals, evidence, jobs, proc, todo>>

-----------------------------------------------------------------------------
(* generateDesign leaves a pending design_spec; nothing is queued. *)
BeginDesign(q) ==
  /\ "design" \in Operations
  /\ reqs[q].kind = "idle" /\ latest # 0
  /\ project \in {"prd_approved", "design_draft", "failed"}
  /\ Begin(q, ReadLatest("design"))
  /\ UNCHANGED <<tables, tasks, proc, todo>>

CommitDesign(q) ==
  LET a == reqs[q] IN
  /\ a.kind = "design" /\ ~Locked(a.run)
  /\ artifacts' = [artifacts EXCEPT ![a.run] = @ \cup {"design_spec"}]
  /\ project' = FlushProject(a.project, "design_draft")
  /\ Done(q)
  /\ UNCHANGED <<latest, rows, approvals, reached, timeline, scanned,
                 jobs, tasks, proc, todo>>

RequestStep ==
  \/ CreateRun
  \/ \E q \in Requests :
       \/ \E s \in Stages, d \in Decisions : BeginApproval(q, s, d)
       \/ CommitApproval(q)
       \/ BeginRetry(q)
       \/ CommitRetry(q)
       \/ \E n \in NodeName : BeginReplay(q, n)
       \/ CommitReplay(q)
       \/ BeginDeploy(q)
       \/ CommitDeploy(q)
       \/ BeginDesign(q)
       \/ CommitDesign(q)

=============================================================================
