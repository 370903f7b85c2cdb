------------------------------- MODULE Worker -------------------------------
(***************************************************************************)
(* worker.py: the process that polls for work.  One cycle uses one         *)
(* session: it selects the retry jobs that are due and drives their runs   *)
(* one after another, then selects the runs that stand at an actionable    *)
(* node without a retry job and drives those.  Both lists are read once,   *)
(* and the second one holds ProjectRun objects, so an invocation started   *)
(* from it works on the row as it was when the list was read.              *)
(*                                                                         *)
(* A rollback expires every object of the session; the next use of one     *)
(* raises, and so does the loop's except clause, which names the object:   *)
(* the whole cycle ends.                                                   *)
(***************************************************************************)
EXTENDS Engine

CONSTANT WorkerUp       \* whether the worker service is started, here

ASSUME WorkerUpAssumption == WorkerUp \in BOOLEAN

Free == proc[Worker].pc = "idle"

JobsLeft == \E r \in RunIds : todo.jobs[r] > 0
RunsLeft == \E r \in RunIds : todo.runs[r].node # "none"

(* _process_retry_jobs selects the unprocessed jobs that are due. *)
PollJobs(due) ==
  /\ WorkerUp
  /\ Free /\ todo.phase = "idle"
  /\ \A r \in RunIds : due[r] <= jobs[r]
  /\ todo' = [IdleTodo EXCEPT !.phase = "jobs", !.jobs = due]
  /\ UNCHANGED <<tables, tasks, proc, reqs>>

(* It re-enters the orchestrator for the next of them. *)
NextJob(r) ==
  /\ Free /\ todo.phase = "jobs" /\ todo.jobs[r] > 0
  /\ todo' = [todo EXCEPT !.jobs[r] = @ - 1]
  /\ proc' = [proc EXCEPT ![Worker] =
                [pc |-> "lock", run |-> r, cache |-> NoRow, job |-> TRUE]]
  /\ UNCHANGED <<tables, tasks, reqs>>

(* A mutant of PendingRun: the test for a waiting job is inverted. *)
PendingRetry(r) == rows[r].node \in ActionableNodes /\ jobs[r] > 0

(* _process_pending_runs selects the runs no retry job is waiting for. *)
PendingRun(r) == rows[r].node \in ActionableNodes /\ jobs[r] = 0

LoadPending ==
  /\ Free /\ todo.phase = "jobs" /\ ~JobsLeft
  /\ todo' = [IdleTodo EXCEPT !.phase = "runs",
                !.runs = [r \in RunIds |-> IF PendingRun(r) THEN rows[r] ELSE NoRow]]
  /\ UNCHANGED <<tables, tasks, proc, reqs>>

NextRun(r) ==
  /\ Free /\ todo.phase = "runs" /\ todo.runs[r].node # "none"
  /\ todo' = [todo EXCEPT !.runs[r] = NoRow]
  /\ proc' = [proc EXCEPT ![Worker] =
                [pc |-> "lock", run |-> r, cache |-> todo.runs[r], job |-> FALSE]]
  /\ UNCHANGED <<tables, tasks, reqs>>

EndCycle ==
  /\ Free /\ todo.phase = "runs" /\ ~RunsLeft
  /\ todo' = IdleTodo
  /\ UNCHANGED <<tables, tasks, proc, reqs>>

(* The lists after a rollback: the cycle survives it only at their end. *)
AfterRollback ==
  IF JobsLeft \/ RunsLeft THEN IdleTodo ELSE todo

(* run_orchestrator returned False: the retry loop rolls back and keeps    *)
(* the job, the loop over pending runs and a background task just commit.  *)
Miss(p) ==
  /\ proc[p].pc = "missed"
  /\ Return(p)
  /\ todo' = IF proc[p].job THEN AfterRollback ELSE todo
  /\ UNCHANGED <<tables, tasks, reqs>>

(* An error of the database connection ends the invocation. *)
Abort(p) ==
  /\ proc[p].pc \in {"lock", "execute", "parked"}
  /\ Return(p)
  /\ todo' = IF p = Worker THEN AfterRollback ELSE todo
  /\ UNCHANGED <<tables, tasks, reqs>>

WorkerCrash ==
  /\ ~Free \/ todo.phase # "idle"
  /\ Return(Worker)
  /\ todo' = IdleTodo
  /\ UNCHANGED <<tables, tasks, reqs>>

=============================================================================
