------------------------------- MODULE Engine -------------------------------
(***************************************************************************)
(* orchestrator/engine.py: run_orchestrator, one node at a time.  An       *)
(* invocation p takes the lock of its run (Lock), executes the node its    *)
(* copy of the row names, writes what follows and commits, and goes back   *)
(* for the lock until the run parks, ends, fails or must wait for a retry. *)
(* The caller's commit is part of the last step where run_orchestrator     *)
(* itself has not committed, and a step of its own (Close) where it has.   *)
(***************************************************************************)
EXTENDS Database

CONSTANTS
  MaxRetries,     \* MAX_RETRIES of orchestrator/retry.py
  Unreliable      \* nodes whose handlers may raise, here

ASSUME MaxRetriesAssumption == MaxRetries \in Nat
ASSUME UnreliableAssumption == Unreliable \subseteq NodeName

(* Nodes whose handlers call a model provider or GitHub under a rate limit *)
(* and so may raise RetryableError.                                        *)
RetryableNodes == {"GeneratePRD", "GenerateDesign", "WriteCode", "PreparePR"}

WAIT_NODE_TO_STAGE == [n \in WaitNodes |-> CHOOSE s \in Stages : STAGE_TO_WAIT_NODE[s] = n]

(* Bound: stale copies let retry_count grow past MaxRetries + 1. *)
MaxAttempt == MaxRetries + 2

-----------------------------------------------------------------------------
(* Taking the run. *)

(* A background task starts run_orchestrator for a queued run. *)
StartTask(t, r) ==
  /\ proc[t].pc = "idle"
  /\ tasks[r] > 0
  /\ tasks' = [tasks EXCEPT ![r] = @ - 1]
  /\ proc' = [proc EXCEPT ![t] = [IdleProc EXCEPT !.pc = "lock", !.run = r]]
  /\ UNCHANGED <<tables, todo, reqs>>

(* _lock_run_for_processing returns the row; a row the session already has *)
(* keeps the values it was loaded with.                                    *)
Lock(p) ==
  LET r == proc[p].run IN
  /\ proc[p].pc = "lock"
  /\ ~Locked(r)
  /\ proc' = [proc EXCEPT ![p].pc = "execute",
                          ![p].cache = IF @.node = "none" THEN rows[r] ELSE @]
  /\ UNCHANGED <<tables, tasks, todo, reqs>>

(* SKIP LOCKED returns nothing: run_orchestrator returns False. *)
LockMiss(p) ==
  LET r == proc[p].run IN
  /\ proc[p].pc = "lock"
  /\ Locked(r) \/ InFlight(r)
  /\ proc' = [proc EXCEPT ![p].pc = "missed"]
  /\ UNCHANGED <<tables, tasks, todo, reqs>>

-----------------------------------------------------------------------------
(* What a step writes. *)

(* _update_project_status: only the newest run moves the project. *)
ProjectFor(r, n) == IF r = latest THEN NODE_TO_PROJECT_STATUS[n] ELSE project

(* The columns of the run, as the session that has the row flushes them. *)
Write(p, new) ==
  rows' = [rows EXCEPT ![proc[p].run] = Flush(proc[p].run, proc[p].cache, new)]

Audit(r, nodes) == reached' = [reached EXCEPT ![r] = @ \cup nodes]

(* The invocation ends and its caller commits; a retry job is consumed by  *)
(* the commit of an invocation started for it.                             *)
Return(p) == proc' = [proc EXCEPT ![p] = IdleProc]

JobsAfterAny(p, new) ==    \* a mutant: every invocation consumes a job
  [jobs EXCEPT ![proc[p].run] = @ + new - 1]

JobsAfter(p, new) ==
  [jobs EXCEPT ![proc[p].run] = @ + new - (IF proc[p].job THEN 1 ELSE 0)]

-----------------------------------------------------------------------------
(* Handlers.  XHandler(r, o, made) says that the handler may return the    *)
(* outcome o with the artifacts made for run r.                            *)

(* _load_previous_artifacts: the run's own artifacts, and the artifact of  *)
(* any run of the project that an approval of this run selected.           *)
Loaded(r) ==
  artifacts[r] \cup
  UNION { artifacts[q] \cap
            (  (IF Approved(r, "prd")    THEN {"prd"}         ELSE {})
          \cup (IF Approved(r, "design") THEN {"design_spec"} ELSE {}) )
          : q \in RunIds }

IngestPromptHandler(r, o, made) == o \in {"success", "failure"} /\ made = {}

GeneratePRDHandler(r, o, made) ==
  \/ o = "success" /\ made = {"prd"}
  \/ o = "failure" /\ made = {}

(* A failed node may leave an artifact too: GenerateDesign the request to  *)
(* sign in again, WriteCode the output that did not validate.              *)
GenerateDesignHandler(r, o, made) ==
  \/ o = "failure" /\ made = {}
  \/ "prd" \in Loaded(r) /\ o \in {"success", "failure"} /\ made = {"design_spec"}

WriteCodeHandler(r, o, made) ==
  \/ o = "failure" /\ made = {}
  \/ "design_spec" \in Loaded(r) /\ o \in {"success", "failure"}
                                 /\ made = {"code_snapshot"}

SecurityGateHandler(r, o, made) ==
  \/ o = "failure" /\ made = {}
  \/ "code_snapshot" \in artifacts[r] /\ o \in {"passed", "failed"}
                                      /\ made = {"security_report"}

PreparePRHandler(r, o, made) ==
  /\ made = {}
  /\ o = "failure" \/ (o = "success" /\ "code_snapshot" \in artifacts[r])

(* A deployment needs an approval of this run; one that fails leaves a     *)
(* report of the failure.                                                  *)
DeployProductionHandler(r, o, made) ==
  \/ o = "failure" /\ made = {}
  \/ /\ Approved(r, "deploy") /\ "code_snapshot" \in artifacts[r]
     /\ \/ o = "passed"  /\ made = {"deploy_report"}
        \/ o = "failure" /\ made = {"deploy_failure"}

WaitApprovalHandler(r, n, o, made) ==
  o \in Decisions /\ LatestDecision(r, WAIT_NODE_TO_STAGE[n], o) /\ made = {}

Outcome == {"success", "failure", "passed", "failed"} \cup Decisions

Products(n) == {{}} \cup {{a} : a \in ArtifactsOf(n)}

HandlerResult(r, n, o, made) ==
  \/ n = "IngestPrompt"     /\ IngestPromptHandler(r, o, made)
  \/ n = "GeneratePRD"      /\ GeneratePRDHandler(r, o, made)
  \/ n = "GenerateDesign"   /\ GenerateDesignHandler(r, o, made)
  \/ n = "WriteCode"        /\ WriteCodeHandler(r, o, made)
  \/ n = "SecurityGate"     /\ SecurityGateHandler(r, o, made)
  \/ n = "PreparePR"        /\ PreparePRHandler(r, o, made)
  \/ n = "DeployProduction" /\ DeployProductionHandler(r, o, made)
  \/ n \in WaitNodes        /\ WaitApprovalHandler(r, n, o, made)

(* _persist_artifact: new code has not been scanned; a report is of the    *)
(* newest code.                                                            *)
Persist(r, o, made) ==
  /\ artifacts' = [artifacts EXCEPT ![r] = @ \cup made]
  /\ scanned' = [scanned EXCEPT ![r] =
                   IF "security_report" \in made THEN o = "passed"
                   ELSE @ /\ "code_snapshot" \notin made]

(* DeployProduction is skipped when the artifact the query happens to      *)
(* return is the report of a deployment that succeeded.                    *)
MaySkip(r, n) ==
  n \in IdempotentNodes /\ "deploy_report" \in artifacts[r] \cap ArtifactsOf(n)

MustSkip(r, n) == MaySkip(r, n) /\ "deploy_failure" \notin artifacts[r]

-----------------------------------------------------------------------------
(* The outcomes of an iteration. *)

(* _advance: the run moves to m, the project follows, the checkpoint is    *)
(* committed; the invocation goes on unless m is a wait node.              *)
Advance(p, o, m, retry) ==
  LET r == proc[p].run
      n == proc[p].cache.node
      new == [RowAt(m) EXCEPT !.retry = retry]
      failed == m = "EndFailed" /\ o \in {"failure", "failed"}
  IN
  /\ Write(p, new)
  /\ Audit(r, {n, m})
  /\ timeline' = [timeline EXCEPT ![r].last = n,
                                  ![r].moved = IF failed THEN n ELSE @]
  /\ proc' = [proc EXCEPT ![p].pc = IF m \in WaitNodes THEN "parked" ELSE "lock",
                          ![p].cache = new]

(* The handler returns and its outcome has a transition. *)
Execute(p) ==
  LET r == proc[p].run
      n == proc[p].cache.node
  IN
  /\ proc[p].pc = "execute" /\ n \notin TerminalNodes
  /\ ~MustSkip(r, n)
  /\ \E o \in Outcome, m \in NodeName, made \in Products(n) :
       /\ Resolves(n, o, m)
       /\ HandlerResult(r, n, o, made)
       /\ Advance(p, o, m, 0)
       /\ Persist(r, o, made)
       /\ project' = IF r # latest /\ n = "IngestPrompt" /\ o = "success"
                     THEN "prd_draft"   \* written by IngestPromptHandler itself
                     ELSE ProjectFor(r, m)
  /\ UNCHANGED <<latest, approvals, jobs, tasks, todo, reqs>>

(* The checkpoint of the node exists: it counts as passed. *)
Skip(p) ==
  LET r == proc[p].run
      n == proc[p].cache.node
  IN
  /\ proc[p].pc = "execute"
  /\ MaySkip(r, n)
  /\ \E m \in NodeName :
       /\ Resolves(n, "passed", m)
       /\ Advance(p, "passed", m, proc[p].cache.retry)
       /\ project' = ProjectFor(r, m)
  /\ UNCHANGED <<latest, approvals, evidence, jobs, tasks, todo, reqs>>

(* A wait node without a decision: the run stays parked. *)
ParkWaiting(p) ==
  LET r == proc[p].run
      n == proc[p].cache.node
  IN
  /\ proc[p].pc = "execute" /\ n \in WaitNodes
  /\ EventsOf(r, WAIT_NODE_TO_STAGE[n]) = {}
  /\ project' = ProjectFor(r, n)
  /\ Audit(r, {n})
  /\ jobs' = JobsAfter(p, 0)
  /\ Return(p)
  /\ UNCHANGED <<latest, rows, approvals, timeline, evidence, tasks, todo, reqs>>

(* _handle_terminal. *)
Terminal(p) ==
  LET r == proc[p].run
      n == proc[p].cache.node
  IN
  /\ proc[p].pc = "execute" /\ n \in TerminalNodes
  /\ Write(p, [proc[p].cache EXCEPT !.status = NODE_TO_PROJECT_STATUS[n]])
  /\ project' = ProjectFor(r, n)
  /\ Audit(r, {n})
  /\ jobs' = JobsAfter(p, 0)
  /\ Return(p)
  /\ UNCHANGED <<latest, approvals, timeline, evidence, tasks, todo, reqs>>

(* A mutant of ToFailed: the project keeps its status. *)
ToFailedRunOnly(p, retry) ==
  LET r == proc[p].run
      n == proc[p].cache.node
  IN
  /\ Write(p, [RowAt("EndFailed") EXCEPT !.retry = retry])
  /\ UNCHANGED project
  /\ Audit(r, {n, "EndFailed"})
  /\ timeline' = [timeline EXCEPT ![r].last = n]

(* _transition_to_failed. *)
ToFailed(p, retry) ==
  LET r == proc[p].run
      n == proc[p].cache.node
  IN
  /\ Write(p, [RowAt("EndFailed") EXCEPT !.retry = retry])
  /\ project' = ProjectFor(r, "EndFailed")
  /\ Audit(r, {n, "EndFailed"})
  /\ timeline' = [timeline EXCEPT ![r].last = n]

(* The handler raises an exception of another kind. *)
Fail(p) ==
  /\ proc[p].pc = "execute"
  /\ proc[p].cache.node \in Unreliable \ TerminalNodes
  /\ ~MustSkip(proc[p].run, proc[p].cache.node)
  /\ ToFailed(p, proc[p].cache.retry)
  /\ jobs' = JobsAfter(p, 0)
  /\ Return(p)
  /\ UNCHANGED <<latest, approvals, evidence, tasks, todo, reqs>>

(* _handle_retryable_error and schedule_retry. *)
RetryLater(p) ==
  LET r == proc[p].run
      n == proc[p].cache.node
      attempt == proc[p].cache.retry + 1
  IN
  /\ proc[p].pc = "execute"
  /\ n \in RetryableNodes \cap Unreliable
  /\ attempt <= MaxAttempt
  /\ IF attempt > MaxRetries
       THEN /\ ToFailed(p, attempt)
            /\ jobs' = JobsAfter(p, 0)
       ELSE /\ jobs[r] < MaxJobs
            /\ Write(p, [proc[p].cache EXCEPT !.retry = attempt])
            /\ Audit(r, {n})
            /\ jobs' = JobsAfter(p, 1)
            /\ UNCHANGED <<project, timeline>>
  /\ Return(p)
  /\ UNCHANGED <<latest, approvals, evidence, tasks, todo, reqs>>

(* The caller's commit after run_orchestrator parked the run it advanced. *)
Close(p) ==
  /\ proc[p].pc = "parked"
  /\ jobs' = JobsAfter(p, 0)
  /\ Return(p)
  /\ UNCHANGED <<latest, rows, project, approvals, reached, timeline,
                 evidence, tasks, todo, reqs>>

Iterate(p) ==
  \/ Execute(p)
  \/ Skip(p)
  \/ ParkWaiting(p)
  \/ Terminal(p)
  \/ Fail(p)
  \/ RetryLater(p)

=============================================================================
