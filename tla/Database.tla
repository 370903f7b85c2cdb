------------------------------ MODULE Database ------------------------------
(***************************************************************************)
(* What the processes of ID8 share: the tables of one project, the queue   *)
(* of background tasks, and the SQLAlchemy sessions that work on them.     *)
(*                                                                         *)
(* A session keeps every row it has loaded (expire_on_commit=False, and no *)
(* query asks for populate_existing), so the ProjectRun object an          *)
(* invocation works on is a cached copy: locking the row again does not    *)
(* refresh it, and a flush writes only the columns that differ from the    *)
(* copy.  Flush is that rule.                                              *)
(***************************************************************************)
EXTENDS Pipeline, FiniteSets

CONSTANTS
  MaxRun,      \* bound: runs of the project
  MaxEvents,   \* bound: rows of approval_events
  MaxQueued,   \* bound: background tasks queued for one run
  MaxJobs,     \* bound: unprocessed retry jobs of one run
  Tasks,       \* slots for background tasks of the API process
  Worker,      \* the worker process
  Requests     \* slots for API requests between their reads and their commit

ASSUME MaxRunAssumption    == MaxRun \in Nat \ {0}
ASSUME MaxEventsAssumption == MaxEvents \in Nat
ASSUME MaxQueuedAssumption == MaxQueued \in Nat
ASSUME MaxJobsAssumption   == MaxJobs \in Nat
ASSUME WorkerAssumption    == Worker \notin Tasks

RunIds  == 1..MaxRun
Procs   == Tasks \cup {Worker}

VARIABLES
  latest,     \* id of the newest project_runs row, 0 before the first; run
              \* ids are their places in the order of created_at
  rows,       \* project_runs
  project,    \* projects.status
  approvals,  \* approval_events
  reached,    \* nodes the committed audit_events name, for each run
  timeline,   \* what the timeline events of a run's latest attempt tell of
              \* the node it failed at
  artifacts,  \* types of the project_artifacts rows of each run
  scanned,    \* whether the newest code_snapshot of the run is older than
              \* its newest security_report and that report let it pass
  jobs,       \* number of unprocessed retry_jobs rows of each run
  tasks,      \* background tasks queued and not started, for each run
  proc,       \* invocations of run_orchestrator: one per background task
              \* slot and one for the worker
  todo,       \* the rows the worker's session selected in this poll cycle
  reqs        \* API requests that have read and not yet committed

evidence == <<artifacts, scanned>>
tables   == <<latest, rows, project, approvals, reached, timeline, evidence, jobs>>
sessions == <<proc, todo, reqs>>
vars     == <<tables, tasks, sessions>>

-----------------------------------------------------------------------------
(* Rows, as the table holds them and as a session caches them. *)

Row == [node : NodeName \cup {"none"}, status : ProjectStatus, retry : Nat]

NoRow == [node |-> "none", status |-> "ideation", retry |-> 0]

RowAt(n) == [node |-> n, status |-> NODE_TO_PROJECT_STATUS[n], retry |-> 0]

(* "moved" is the node of the latest transition into EndFailed with the    *)
(* outcome failure or failed, "last" the latest non-terminal node named.   *)
Attempt == [moved : NodeName \cup {"none"}, last : NodeName \cup {"none"}]

NoAttempt == [moved |-> "none", last |-> "none"]

(* approval_events; "at" is its place in the order of created_at, that is, *)
(* of the start of the transaction that inserted it.                       *)
Event == [run : RunIds, stage : Stages, decision : Decisions, at : Nat]

(* What run r's row holds after a session that had it as seen writes new. *)
Flush(r, seen, new) ==
  [ node   |-> IF new.node   # seen.node   THEN new.node   ELSE rows[r].node,
    status |-> IF new.status # seen.status THEN new.status ELSE rows[r].status,
    retry  |-> IF new.retry  # seen.retry  THEN new.retry  ELSE rows[r].retry ]

(* The same for projects.status. *)
FlushProject(seen, new) == IF new # seen THEN new ELSE project

(***************************************************************************)
(* SELECT ... FOR UPDATE SKIP LOCKED takes the lock of the run's row, and  *)
(* the commit at the end of the node gives it back: the row is locked      *)
(* exactly while some invocation executes a node of the run.  A request    *)
(* that inserts a row referring to the run, or updates it, waits for the   *)
(* lock, and while it is in flight may itself make the lock unavailable.   *)
(***************************************************************************)
Executing(p, r) == proc[p].pc = "execute" /\ proc[p].run = r

Locked(r) == \E p \in Procs : Executing(p, r)

InFlight(r) == \E q \in Requests :
                 reqs[q].kind \notin {"idle", "replay"} /\ reqs[q].run = r

-----------------------------------------------------------------------------
(* Invocations and requests. *)

ProcState ==
  [ pc    : {"idle", "lock", "execute", "parked", "missed"},
    run   : 0..MaxRun,
    cache : Row,        \* the session's copy of the run
    job   : BOOLEAN ]   \* started for a retry job

IdleProc == [pc |-> "idle", run |-> 0, cache |-> NoRow, job |-> FALSE]

TodoState ==
  [ phase : {"idle", "jobs", "runs"},
    jobs  : [RunIds -> Nat],      \* retry jobs left in the list, by run
    runs  : [RunIds -> Row] ]     \* pending runs left in the list, NoRow if none

IdleTodo ==
  [ phase |-> "idle",
    jobs  |-> [r \in RunIds |-> 0],
    runs  |-> [r \in RunIds |-> NoRow] ]

RequestState ==
  [ kind     : {"idle", "approval", "retry", "replay", "deploy", "design"},
    run      : 0..MaxRun,
    seen     : Row,             \* the run as the request read it
    project  : ProjectStatus,   \* projects.status as the request read it
    node     : NodeName \cup {"none"},
    at       : Nat,             \* created_at of the row it will insert
    stage    : Stages \cup {"none"},
    decision : Decisions \cup {"none"} ]

IdleRequest ==
  [ kind |-> "idle", run |-> 0, seen |-> NoRow, project |-> "ideation",
    node |-> "none", at |-> 0, stage |-> "none", decision |-> "none" ]

-----------------------------------------------------------------------------
(* Approval events. *)

EventsOfRun(r, s) == {e \in approvals : e.run = r}   \* a mutant: any stage

EventsOf(r, s) == {e \in approvals : e.run = r /\ e.stage = s}

LatestEvent(r, s, d) == EventsOf(r, s) # {}   \* a mutant: any decision

(* The decision WaitApprovalHandler reads is that of the latest event.     *)
LatestDecision(r, s, d) ==
  \E e \in EventsOf(r, s) :
     e.decision = d /\ \A f \in EventsOf(r, s) : f.at <= e.at

Approved(r, s) == \E e \in approvals :
                    e.run = r /\ e.stage = s /\ e.decision = "approved"

DeployApprovals == {e \in approvals : e.stage = "deploy" /\ e.decision = "approved"}

Init ==
  /\ latest = 0
  /\ rows = [r \in RunIds |-> NoRow]
  /\ project = "ideation"
  /\ approvals = {}
  /\ reached = [r \in RunIds |-> {}]
  /\ timeline = [r \in RunIds |-> NoAttempt]
  /\ artifacts = [r \in RunIds |-> {}]
  /\ scanned = [r \in RunIds |-> FALSE]
  /\ jobs = [r \in RunIds |-> 0]
  /\ tasks = [r \in RunIds |-> 0]
  /\ proc = [p \in Procs |-> IdleProc]
  /\ todo = IdleTodo
  /\ reqs = [q \in Requests |-> IdleRequest]

(* Every variable holds a value of its type. *)
TypeOK ==
  /\ latest \in 0..MaxRun
  /\ rows \in [RunIds -> Row]
  /\ project \in ProjectStatus
  /\ approvals \subseteq Event
  /\ reached \in [RunIds -> SUBSET NodeName]
  /\ timeline \in [RunIds -> Attempt]
  /\ artifacts \in [RunIds -> SUBSET ArtifactType]
  /\ scanned \in [RunIds -> BOOLEAN]
  /\ jobs \in [RunIds -> Nat]
  /\ tasks \in [RunIds -> Nat]
  /\ proc \in [Procs -> ProcState]
  /\ todo \in TodoState
  /\ reqs \in [Requests -> RequestState]

=============================================================================
