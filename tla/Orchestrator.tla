---------------------------- MODULE Orchestrator ----------------------------
(***************************************************************************)
(* ID8 as a whole, for one project: the API with its requests and its      *)
(* background tasks, the worker, and the database between them.  A crash   *)
(* of the API process loses the queue of background tasks, the tasks that  *)
(* run and the requests in flight; a crash of the worker loses its cycle.  *)
(* The database survives both.                                             *)
(***************************************************************************)
EXTENDS Worker, Routes

CONSTANT MaxFaults      \* bound: crashes and connection errors

ASSUME MaxFaultsAssumption == MaxFaults \in Nat

VARIABLE faults         \* crashes and connection errors so far

allVars == <<vars, faults>>

SystemInit == Init /\ faults = 0

ApiCrash ==
  /\ tasks' = [r \in RunIds |-> 0]
  /\ proc' = [p \in Procs |-> IF p \in Tasks THEN IdleProc ELSE proc[p]]
  /\ reqs' = [q \in Requests |-> IdleRequest]
  /\ UNCHANGED <<tables, todo>>

Fault ==
  /\ faults < MaxFaults
  /\ faults' = faults + 1
  /\ \/ ApiCrash
     \/ WorkerCrash
     \/ \E p \in Procs : Abort(p)

Invocation(p) == Lock(p) \/ LockMiss(p) \/ Iterate(p) \/ Close(p) \/ Miss(p)

TaskStep(t) == (\E r \in RunIds : StartTask(t, r)) \/ Invocation(t)

WorkerStep ==
  \/ \E due \in [RunIds -> 0..MaxJobs] : PollJobs(due)
  \/ \E r \in RunIds : NextJob(r) \/ NextRun(r)
  \/ LoadPending
  \/ EndCycle
  \/ Invocation(Worker)

Next ==
  \/ (RequestStep \/ WorkerStep \/ \E t \in Tasks : TaskStep(t)) /\ UNCHANGED faults
  \/ Fault

Spec == SystemInit /\ [][Next]_allVars

(***************************************************************************)
(* Fairness.  The event loop of the API runs every queued background task, *)
(* the worker never stops polling, and every handler returns or raises     *)
(* (its calls have timeouts), so a process that can step does.  A retry    *)
(* job that stays pending falls due, so a poll that would select it is not *)
(* put off for ever.  Nothing obliges a client to send a request, but one  *)
(* in flight commits.                                                      *)
(***************************************************************************)
CommitStep(q) ==
  \/ CommitApproval(q) \/ CommitRetry(q) \/ CommitReplay(q)
  \/ CommitDeploy(q) \/ CommitDesign(q)

Fairness ==
  /\ WF_allVars(WorkerStep /\ UNCHANGED faults)
  /\ \A t \in Tasks : WF_allVars(TaskStep(t) /\ UNCHANGED faults)
  /\ \A q \in Requests : SF_allVars(CommitStep(q) /\ UNCHANGED faults)
  /\ \A r \in RunIds :
       SF_allVars(/\ \E due \in [RunIds -> 0..MaxJobs] :
                       due[r] = jobs[r] /\ jobs[r] > 0 /\ PollJobs(due)
                  /\ UNCHANGED faults)

FairSpec == Spec /\ Fairness

=============================================================================
