------------------------------ MODULE Projects ------------------------------
(***************************************************************************)
(* Which runs a project gets: routes/projects.py, and createRun of         *)
(* routes/runs.py with its Idempotency-Key.  Every request reads, checks,  *)
(* and later commits what follows from what it read; only the two unique   *)
(* indexes (users.id, project_runs.idempotency_key) stand between them.    *)
(* What a run does while it is active is the subject of Orchestrator, and  *)
(* so are the tasks that approvals, retries and deployments queue for it.  *)
(***************************************************************************)
EXTENDS Integers, Sequences, FiniteSets

CONSTANTS
  Requests,     \* requests in flight
  Project, Key, \* projects, and the Idempotency-Keys clients use
  NoKey,        \* the header is absent
  Operations,   \* which requests clients send
  MaxRuns, MaxFaults   \* bounds

ASSUME OperationsAssumption ==
  Operations \subseteq {"project", "run", "replay", "retry", "restart", "update", "delete"}
ASSUME KeyAssumption == NoKey \notin Key
ASSUME ProjectAssumption == Project # {}
ASSUME BoundsAssumption == {MaxRuns, MaxFaults} \subseteq Nat

VARIABLES
  owner,     \* the scaffold owner's row exists
  project,   \* project[p]: "absent", "open", or "deleted" (deleted_at is set)
  runs,      \* project_runs in the order of commit
  queued,    \* queued[r]: background tasks queued by requests that made run r
  answers,   \* history: the runs requests were answered with
  req,       \* req[q]: a request in flight
  faults

vars == <<owner, project, runs, queued, answers, req, faults>>

Keys == Key \cup {NoKey}

Request == [op : Operations \cup {"none"}, project : Project, key : Keys, owned : BOOLEAN,
            pc : {"idle", "key", "other", "commit", "again", "queue"}, run : 0..MaxRuns]

RunStatus == {"active", "deployed", "failed"}

Idle(p) == [op |-> "none", project |-> p, key |-> NoKey, owned |-> FALSE,
            pc |-> "idle", run |-> 0]

TypeOK ==
  /\ owner \in BOOLEAN
  /\ project \in [Project -> {"absent", "open", "deleted"}]
  /\ runs \in Seq([project : Project, key : Keys, status : RunStatus])
  /\ queued \in [1..MaxRuns -> Nat]
  /\ answers \subseteq [project : Project, key : Keys, run : 1..MaxRuns]
  /\ req \in [Requests -> Request]
  /\ faults \in 0..MaxFaults

Init ==
  /\ owner = FALSE
  /\ project = [p \in Project |-> "absent"]
  /\ runs = <<>>
  /\ queued = [r \in 1..MaxRuns |-> 0]
  /\ answers = {}
  /\ req = [q \in Requests |-> Idle(CHOOSE p \in Project : TRUE)]
  /\ faults = 0

-----------------------------------------------------------------------------
(* Queries. *)

RunsOf(p) == {r \in DOMAIN runs : runs[r].project = p}
ActiveRuns(p) == {r \in RunsOf(p) : runs[r].status = "active"}
Holders(k) == {r \in DOMAIN runs : runs[r].key = k}

(* _latest_run_for_project *)
Latest(p) == {r \in RunsOf(p) : \A s \in RunsOf(p) : s <= r}

(* A mutant of KeyFree: idempotency_key without its unique index. *)
KeyUnchecked(k) == TRUE

KeyFree(k) == k = NoKey \/ Holders(k) = {}

-----------------------------------------------------------------------------
(* The steps requests share. *)

Begin(q, op, p, k, pc, run) ==
  /\ op \in Operations
  /\ req[q].pc = "idle"
  /\ req' = [req EXCEPT ![q] = [op |-> op, project |-> p, key |-> k, owned |-> owner,
                                pc |-> pc, run |-> run]]
  /\ UNCHANGED <<owner, project, runs, queued, answers, faults>>

Done(q) == req' = [req EXCEPT ![q] = Idle(req[q].project)]

(* An error status; nothing was written. *)
Refuse(q) == Done(q) /\ UNCHANGED <<owner, project, runs, queued, answers, faults>>

Answer(q, r) ==
  answers' = answers \cup {[project |-> req[q].project, key |-> req[q].key, run |-> r]}

(* A mutant of AnswerExisting: the run found is queued again. *)
QueueExisting(q, r) ==
  /\ Answer(q, r)
  /\ Done(q)
  /\ queued' = [queued EXCEPT ![r] = @ + 1]
  /\ UNCHANGED <<owner, project, runs, faults>>

AnswerExisting(q, r) ==
  /\ Answer(q, r)
  /\ Done(q)
  /\ UNCHANGED <<owner, project, runs, queued, faults>>

(* A mutant of Touch: the project is written back as it was read. *)
TouchStale(q) == project' = [project EXCEPT ![req[q].project] = "open"]

(* An UPDATE of a project names the columns that changed, deleted_at not *)
(* among them.                                                           *)
Touch(q) == project' = project

-----------------------------------------------------------------------------
(* createProject: _ensure_scaffold_owner, then the project. *)

BeginProject(q, p) ==
  /\ project[p] = "absent"
  /\ \A o \in Requests : req[o].op = "project" => req[o].project # p
  /\ Begin(q, "project", p, NoKey, "commit", 0)

CommitProject(q) ==
  LET h == req[q] IN
  /\ h.op = "project" /\ h.pc = "commit"
  /\ h.owned \/ ~owner
  /\ owner' = TRUE
  /\ project' = [project EXCEPT ![h.project] = "open"]
  /\ Done(q)
  /\ UNCHANGED <<runs, queued, answers, faults>>

(* Another request made the owner since: the primary key refuses a second. *)
OwnerExists(q) ==
  /\ req[q].op = "project" /\ req[q].pc = "commit" /\ ~req[q].owned /\ owner
  /\ Refuse(q)

-----------------------------------------------------------------------------
(* createRun, restartProject: a new run. *)

(* A mutant of BeginRun: deleted_at is not looked at. *)
BeginRunAnywhere(q, p, k) == project[p] # "absent" /\ Begin(q, "run", p, k, "key", 0)

BeginRun(q, p, k) == project[p] = "open" /\ Begin(q, "run", p, k, "key", 0)

(* A replay stores the key, and does not look for it. *)
BeginReplay(q, p, k) ==
  /\ project[p] = "open"
  /\ \E r \in Latest(p) : runs[r].status # "active"
  /\ Begin(q, "replay", p, k, "commit", 0)

(* retry_failed looks at no key: the newest run, which failed, goes on.    *)
(* The task it queues continues a run and is not counted in queued.        *)
(* The deploy endpoint puts a failed run back in the same way              *)
(* (routes/deploy.py:164).                                                 *)
BeginRetry(q, p) ==
  /\ project[p] = "open"
  /\ \E r \in Latest(p) :
       runs[r].status = "failed" /\ Begin(q, "retry", p, NoKey, "commit", r)

CommitRetry(q) ==
  /\ req[q].op = "retry" /\ req[q].pc = "commit"
  /\ runs' = [runs EXCEPT ![req[q].run].status = "active"]
  /\ Touch(q)
  /\ Done(q)
  /\ UNCHANGED <<owner, queued, answers, faults>>

BeginRestart(q, p) ==
  project[p] = "open" /\ ActiveRuns(p) = {} /\ Begin(q, "restart", p, NoKey, "commit", 0)

(* A run of the project with the key is the answer. *)
LookForKey(q) ==
  LET h == req[q]
      mine == {r \in Holders(h.key) : h.key # NoKey /\ runs[r].project = h.project}
  IN
  /\ h.pc = "key"
  /\ \/ \E r \in mine : AnswerExisting(q, r)
     \/ /\ mine = {}
        /\ req' = [req EXCEPT ![q].pc = IF h.key = NoKey THEN "commit" ELSE "other"]
        /\ UNCHANGED <<owner, project, runs, queued, answers, faults>>

(* A second query looks for the key in any project: what it finds is taken *)
(* for another project's, also a run of this one made since the first.     *)
LookElsewhere(q) ==
  /\ req[q].pc = "other"
  /\ \/ Holders(req[q].key) # {} /\ Refuse(q)
     \/ /\ Holders(req[q].key) = {}
        /\ req' = [req EXCEPT ![q].pc = "commit"]
        /\ UNCHANGED <<owner, project, runs, queued, answers, faults>>

(* A mutant of NewRun: the row before it. *)
RunBefore == Len(runs)

NewRun == Len(runs) + 1

(* The run, and for a restart the project's status, in one transaction. *)
CommitRun(q) ==
  LET h == req[q] IN
  /\ h.op \in {"run", "replay", "restart"} /\ h.pc = "commit"
  /\ KeyFree(h.key)
  /\ Len(runs) < MaxRuns
  /\ runs' = Append(runs, [project |-> h.project, key |-> h.key, status |-> "active"])
  /\ Touch(q)
  /\ Answer(q, NewRun)
  /\ req' = [req EXCEPT ![q].pc = "queue", ![q].run = NewRun]
  /\ UNCHANGED <<owner, queued, faults>>

(* The task is queued after the answer is sent. *)
QueueRun(q) ==
  /\ req[q].pc = "queue"
  /\ queued' = [queued EXCEPT ![req[q].run] = @ + 1]
  /\ Done(q)
  /\ UNCHANGED <<owner, project, runs, answers, faults>>

(* The unique index refuses the key.  A fresh run rolls back and looks for *)
(* the run that has it; for a replay it is an error.                       *)
KeyTaken(q) ==
  LET h == req[q] IN
  /\ h.op \in {"run", "replay"} /\ h.pc = "commit" /\ ~KeyFree(h.key)
  /\ IF h.op = "replay" THEN Refuse(q)
     ELSE /\ req' = [req EXCEPT ![q].pc = "again"]
          /\ UNCHANGED <<owner, project, runs, queued, answers, faults>>

Found(q) == Holders(req[q].key)

LookAgain(q) ==
  /\ req[q].pc = "again"
  /\ \E r \in Found(q) :
       IF runs[r].project = req[q].project THEN AnswerExisting(q, r) ELSE Refuse(q)

-----------------------------------------------------------------------------
(* updateProject, deleteProject. *)

BeginUpdate(q, p) == project[p] = "open" /\ Begin(q, "update", p, NoKey, "commit", 0)

CommitUpdate(q) ==
  /\ req[q].op = "update" /\ req[q].pc = "commit"
  /\ Touch(q)
  /\ Done(q)
  /\ UNCHANGED <<owner, runs, queued, answers, faults>>

BeginDelete(q, p) ==
  project[p] = "open" /\ ActiveRuns(p) = {} /\ Begin(q, "delete", p, NoKey, "commit", 0)

CommitDelete(q) ==
  /\ req[q].op = "delete" /\ req[q].pc = "commit"
  /\ project' = [project EXCEPT ![req[q].project] = "deleted"]
  /\ Done(q)
  /\ UNCHANGED <<owner, runs, queued, answers, faults>>

-----------------------------------------------------------------------------
(* A run reaches a terminal node. *)
EndRun(r) ==
  /\ runs[r].status = "active"
  /\ \E end \in RunStatus \ {"active"} : runs' = [runs EXCEPT ![r].status = end]
  /\ UNCHANGED <<owner, project, queued, answers, req, faults>>

(* A crash: what is not committed, or not queued yet, is lost. *)
Crash ==
  /\ faults < MaxFaults /\ faults' = faults + 1
  /\ \E q \in Requests : req[q].pc # "idle" /\ Done(q)
  /\ UNCHANGED <<owner, project, runs, queued, answers>>

Send(q, p) ==
  \/ BeginProject(q, p) \/ BeginRestart(q, p) \/ BeginUpdate(q, p) \/ BeginDelete(q, p)
  \/ BeginRetry(q, p)
  \/ \E k \in Keys : BeginRun(q, p, k) \/ BeginReplay(q, p, k)

Serve(q) ==
  \/ CommitProject(q) \/ OwnerExists(q) \/ LookForKey(q) \/ LookElsewhere(q)
  \/ CommitRun(q) \/ CommitRetry(q) \/ QueueRun(q) \/ KeyTaken(q) \/ LookAgain(q) \/ CommitUpdate(q) \/ CommitDelete(q)

Next ==
  \/ \E q \in Requests : Serve(q) \/ \E p \in Project : Send(q, p)
  \/ \E r \in DOMAIN runs : EndRun(r)
  \/ Crash

Spec == Init /\ [][Next]_vars

-----------------------------------------------------------------------------
(* A key stands for one run: every request to create a run that carries it  *)
(* and is answered with a run is answered with that run, which belongs to   *)
(* the project it asked for, however the requests interleave                *)
(* (routes/runs.py:560, 605).  A retry_failed carries a key for nothing.    *)
SameAnswer ==
  /\ \A a \in answers : a.run \in DOMAIN runs /\ runs[a.run].project = a.project
  /\ \A a, b \in answers : a.key = b.key /\ a.key # NoKey => a.run = b.run

(* A creation queues its run once: a request sent again, or one that lost   *)
(* the race for its key, does not start the run a second time.  What        *)
(* retries and approvals queue later is not counted.                        *)
StartedOnce == \A r \in 1..MaxRuns : queued[r] <= 1

(* A deleted project stays deleted, whatever was read before the deletion   *)
(* and is committed after it (routes/projects.py:190, 235, 296).            *)
DeletionFinal ==
  [][\A p \in Project : project[p] = "deleted" => project'[p] = "deleted"]_vars

Over(p) ==
  project[p] = "deleted" /\ \A q \in Requests : req[q].project = p => req[q].pc = "idle"

(* Once the requests that overlapped a deletion are through, the project    *)
(* gets no more runs: those a deletion overlooks are of requests that had   *)
(* been accepted before it (routes/projects.py:176, routes/runs.py:377).    *)
DeletionSettles ==
  [][\A p \in Project : Over(p) => Over(p)' /\ RunsOf(p)' = RunsOf(p)]_vars

(***************************************************************************)
(* What the repository says and TLC refutes.                               *)
(***************************************************************************)

(* "Cannot delete project while a run is in progress" (routes/projects.py:187). *)
DeletedIdle == \A p \in Project : project[p] = "deleted" => ActiveRuns(p) = {}

(* "Block if active run exists" (routes/projects.py:259): where runs come    *)
(* from restarts alone, a project has one active run at most.               *)
RestartAlone == \A p \in Project : Cardinality(ActiveRuns(p)) <= 1

=============================================================================
