# ID8 in TLA+

ID8 turns an idea into a deployed application. A project goes through a pipeline
of twelve nodes (`backend/app/orchestrator/nodes.py`): the prompt is ingested, a
PRD and a design are generated, code is written and scanned, a pull request is
prepared and the result is deployed. Three of the nodes are gates where a run
waits for a human decision. This directory holds TLA+ models of the backend, TLC
instances of them, and proofs about them that TLAPS checks.

## The system

| Component | State it keeps | Operations | Hard behaviour |
|---|---|---|---|
| Orchestrator engine (`orchestrator/engine.py`) | none of its own; the `project_runs` row, `projects.status`, `audit_events`, `project_artifacts` | `run_orchestrator`: lock the row, run the handler of `current_node`, persist, advance, commit, repeat | one invocation commits between nodes and takes the lock again; its copy of the row may be stale |
| Nodes and transitions (`nodes.py`, `transitions.py`, `handlers/stubs.py`) | none | tables | outcomes with aliases, dead ends |
| Retry scheduling (`retry.py`, `_handle_retryable_error`) | `retry_jobs`, `retry_count` | schedule, exhaust | jobs that outlive what they were for |
| Worker (`worker.py`) | two lists per poll cycle | drive due retry jobs, drive pending runs | lists read once; a rollback expires them |
| Approval gates (`routes/approvals.py`, `handlers/approvals.py`) | `approval_events` | submit a decision, read the latest decision | check then act; order of `created_at` against order of commit; task lost after commit |
| Runs routes (`routes/runs.py`) | inserts and resets `project_runs`; copies artifacts | create (with an `Idempotency-Key`), retry a failed run, replay from a node | history inferred from audit events; two requests with one key |
| Projects routes (`routes/projects.py`) | `projects`, `users` | create, rename, delete, restart | check then act on active runs; stale writes |
| Design routes (`routes/design.py`) and `GenerateDesign` | `design_spec` artifacts | request a design, give feedback, generate one | version numbers without a lock; rows completed in place |
| LLM nodes (`GeneratePRD`, `WriteCode`, `llm/`) | a tree in memory, `code_snapshot` artifacts | generate in phases, merge, validate, build, repair | four nested retries; a repair that changes a tree that was checked |
| Validation of code (`write_code.py:1408`) | flags and a stack | scan a file | lookahead, escapes, comment marks in strings |
| PreparePR and the GitHub client (`handlers/prepare_pr.py`, `github/`) | a repository, branches, commits and pull requests at GitHub; `projects.github_repo_url` | ten requests or so in a fixed order, then one commit | a crash or a lost answer after any request; people and CI act at GitHub meanwhile |
| Deployment (`handlers/deploy_production.py`, `deploy/vercel.py`, `routes/deploy.py`) | a project and deployments at Vercel; `deployment_records`, `projects.live_deployment_url` | force the newest run to the deploy gate; create, poll, check, record | approval of the project against approval of the run; minutes of polling between reads and the commit |
| Design providers (`design/`) | a cache of credentials | a call of Stitch | refused credentials count as a result |
| Scanners (`security/`), prompts, observability, schemas | none | pure | - |
| Frontend (`frontend/`) | a cache of answers | polls, sends requests | acts on what it polled |

The components meet in the database. The API process answers requests, each in a
session of its own, and after the answer runs `run_orchestrator` as a background
task. The worker process polls every two seconds and runs the same function. Nothing
but the lock of the run's row keeps these apart, and that lock is released at every
commit. The queue of background tasks is in the memory of the API process.

What makes the system correct: no run passes a gate that no human opened; code that
goes out is code that was validated as a whole and that the scan let pass; code is written from the
design that was approved; the status the project shows is the status of
its newest run; a run that needs no human moves on although a process crashes; an
approval, once given, is acted on; the code of a run is taken into the repository once, and
the run moves on only after that; what is shown as live answered and was approved; an
`Idempotency-Key` stands for one run; a deleted project stays deleted. `Refuted`, below, says
which of these the code does not keep, and when.

## Modules

| Module | Models |
|---|---|
| `Pipeline` | The static tables: nodes, statuses, transitions with their aliases, artifact types, gates. |
| `Database` | The tables of one project as variables, the session's cache and flush, the row lock, what an invocation, the worker's lists and a request in flight hold. `Init` and `TypeOK`. |
| `Engine` | `run_orchestrator`, one action per way an iteration can go: `Lock`, `LockMiss`, `Execute`, `Skip`, `ParkWaiting`, `Terminal`, `Fail`, `RetryLater`, and `Close` for the caller's commit. The handlers are predicates `XHandler(r, outcome, made)`. |
| `Worker` | A poll cycle: `PollJobs`, `NextJob`, `LoadPending`, `NextRun`, `EndCycle`, `Miss`, and what ends a cycle. |
| `Routes` | The requests, each split into `Begin...` (its reads and checks) and `Commit...`. |
| `Orchestrator` | Composes worker, routes and background tasks; crashes and connection errors; `Spec`, fairness, `FairSpec`. |
| `Properties` | What is claimed of that composition. |
| `MCOrchestrator` | Its TLC instances, and a later start: a project whose first run is deployed (`DeployedInit`). |
| `GitHub` | GitHub as the client uses it: the repository of a project, branches, pull requests, checks; what a request changes, and what people and CI do meanwhile. External, but for the requests. |
| `PreparePR` | `_run_github_flow`, one action per step between two requests; the commit by the engine; crashes, lost answers, rate limits, retries. |
| `Delivery` | What PreparePR promises: the code of a run is delivered once, and reported only after that. |
| `Designs` | Every writer of `design_spec` artifacts, and which one `WriteCode` reads. |
| `CodeGeneration` | `GeneratePRD`, `WriteCode` and `SecurityGate` call by call, with the retries of all four levels. |
| `JstsSyntax` | `_check_jsts_syntax`, character by character, and a declarative reference for it. |
| `Deployment` | The deploy gate, `DeployProduction` with the Vercel client, `POST /deploy`. |
| `Projects` | `routes/projects.py` and `createRun` with its `Idempotency-Key`. |
| `MCPreparePR`, `MCDesigns`, `MCDeployment`, `MCProjects` | TLC instances. |
| `OrchestratorTypes`, `OrchestratorGates`, `PreparePRProofs`, `DesignsProofs`, `CodeGenerationProofs`, `JstsSyntaxProofs`, `DeploymentProofs`, `ProjectsProofs` | Proofs. |

`Orchestrator` is the composition. Every other module opens up one of its steps and is explored on its
own, because a product with the orchestrator would be out of reach:

- `PreparePR`, `Deployment`, `Designs` and `CodeGeneration` open up handlers that `Engine` takes as one
  step with several outcomes. Their commits are the engine's `Execute`, `Fail` or `RetryLater` at that
  node. They rely on a run having one invocation at a time, which is what the lock of its row gives
  (`SELECT ... FOR UPDATE SKIP LOCKED`, `engine.py:557`; `Lock` in `Engine`), and they take an invocation's copy of the row to be current.
- `Designs` and `Deployment` take a human decision and the move it causes as one step: how the two
  come apart is what `Routes` and `Orchestrator` are about.
- `Projects` takes a run as active, deployed or failed.
- The outcomes of `Check` in `CodeGeneration` include the verdict of `JstsSyntax`.

### How the state corresponds to the code

For the orchestrator:

- `rows`, `project`, `approvals`, `jobs` are the columns the course of a run depends on.
  `latest` is the newest run; run ids stand for the order of `created_at`.
- `artifacts[r]` is the set of artifact types run r has; a `deploy_report` that records a
  failure is told apart from one of success, because the engine does so. `scanned[r]` says
  whether the newest code of the run has been let pass by a report on that code.
- `reached` and `timeline` are what `_was_node_previously_reached` and
  `_infer_failed_node_for_run` can find in `audit_events`. Events of one run are taken to be
  ordered by their commit.
- `proc[p].cache` is the `ProjectRun` object of a session. `expire_on_commit=False`, no query
  uses `populate_existing`, and locking the row again returns the same object, so the cache
  is loaded once and then only changed by its own session. `Flush` writes the columns that
  differ from the cached ones. The `Project` object is not held between nodes (the identity map
  is weak), so its status is read again for each node and needs no cache in an invocation; a request
  holds it from its first read to its commit.
- `todo.runs` holds rows, because the worker's list holds `ProjectRun` objects; `todo.jobs` counts jobs.
- A handler, the persisting of its artifact, the transition and the commit are one action:
  the run's row is locked from `Lock` on and nobody sees the state in between.
- `reqs[q]` is a request between its reads and its commit. A request that the checks refuse
  changes nothing and is not an action.
- `LockMiss` may also happen while a request on the run is in flight: inserting a row that refers to the
  run, or updating it, locks it too.

For `PreparePR`:

- `node[r]` is `current_node` of run r from its arrival at PreparePR on, `url` whether
  `projects.github_repo_url` is set. `mine[r]` is what the invocation holds: `had` and `url` are
  `had_stored_repo` and the session's `project.github_repo_url`, `recreate` is
  `allow_repo_recreate_on_not_found`, `pr` is `pr_info.number`.
- `pc[r]` names the next request, or the ending the engine has yet to commit. `_create_project_repo`
  is two steps, `CreateRepo` and `SaveUrl`, because its flush takes the lock of the project's row, which
  is held until the commit (`Unsaved`); a second run of the project waits for it.
- `repo`, `branches`, `pulls` and `checks` are at GitHub. The name of the repository is derived from the project, so
  there is at most one; the position of a pull request in `pulls` is its number. `landed` is a
  history variable: it survives the deletion of the repository.
- `auth` is the mode of `resolve_github_auth`; `blind` is an App whose installation may not read check
  runs, which the handler treats like a token (`GitHubAuthError` while polling).

For `Designs`:

- `arts` holds the `design_spec` rows in the order of their commit, which need not be that of `version` or
  of `created_at`. `at` is `created_at`: the default `now()` is the start of the transaction, hence `tx`. The rows of one
  replay share it, and any of them may be the "newest" (`NewestAmong`).
- `content.kind` tells a request that waits to be served from the payload a `StitchAuthError` leaves and
  from a design; `content.id` is the request or the call a design comes from.
- `task[r]` and `req[q]` hold what was read: the row found, the version computed, the design on its way.
  Each read whose result is used in a later commit is a step of its own.
- `decisions` has in `artifact` the artifact the client named and in `shown` (history) what the human looked
  at. `snaps` is a history of delivered code with the design it was written from.
- A request that found a pending row puts the pending content back at its commit, whatever the row holds by then; a replay holds
  the contents it read (`copies`).

For `CodeGeneration`:

- `exec` is one execution of a handler: `phase` the chunks of `_GENERATION_PHASES` and the repair, `parse` the attempts of
  `_generate_chunk`, `attempt` those of `generate_with_fallback`, `calls` a history of all of them; `files` is the merged
  delta. Three paths stand for those the model may override, may add and may not touch. `wanted` are the packages asked for so far, `locked` what the
  lock file pins: npm writes `package.json` and `package-lock.json` anew after each merge (`Locked`), and leaves the files as they are when it fails.
- `snap` is the newest `code_snapshot`: `valid` is what the handler recorded, `flaws` (history) what is wrong with one recorded as valid.
  `job` is the unprocessed retry job with the profile it carries.

For `Deployment`:

- `records`, `reports`, `live` are `deployment_records`, the `deploy_report` artifacts and `projects.live_deployment_url`.
  A deployment at Vercel is its position in `deployments`, which also stands for its URL.
- `task[r].pc` is the next call of Vercel, or the outcome the engine has yet to commit; `left` the polls
  before the deadline. `req[q].node` is the node a deploy request read: the flush writes `current_node` only where it differs from that.

For `Projects`: `req[q].owned` is whether the scaffold owner was there when the request looked;
`pc = "again"` is a request the unique index refused, which looks for the run that has the key; `queued`
counts the background tasks of creations per run, `answers` (history) what clients were told. The lookups of a key are the code's two
queries (`LookForKey`, `LookElsewhere`); `retry_failed` takes the key and looks at it nowhere (`BeginRetry`).

For `JstsSyntax`: `mode` stands for the five flags of the scanner, of which at most one is set at a time.

### Abstractions

Metadata, costs, time, texts. In the orchestrator, the contents of artifacts; a retry job falls due at any time
after it was made; design feedback, accepted only while the project is in `design_draft`, adds a `design_spec` and leaves the status
alone, which is `CommitDesign` of a request begun in that status. The database survives every crash.

In `PreparePR` a request whose answer is lost is performed before the client goes on, or
never. The requests that only read on the way (`GET /user`, `GET` of the repository and the base branch) are
folded into the step they belong to, and the six requests of a push into one step, since the last one alone
moves the branch. Rate limits that a request outlives by its own backoff are not visible. People merge and
close pull requests and delete the repository; they do not push to ID8's branches. Stored URLs are valid.

In `Deployment` the environment variables are left out, as the code always has none. A deploy request whose `Idempotency-Key` a record
carries is answered with that record (`deploy.py:78`) before anything is checked or changed, and a design request whose key a pending row
carries with that row: such requests are no actions. In `Designs` an approval of an error payload is
left out, and which Stitch project a design goes to. In `CodeGeneration` npm, `merge_project` and the build fail for any reason or none; the
scanners' verdict is any, or a failure. In `Projects` the reads (lists, timeline) are left out.

## Runs

| Run | Bounds | Shows |
|---|---|---|
| `OneRun` | 1 run, 1 background task beside the worker, 3 decisions, 1 request in flight, failures of GeneratePRD | Types, and both human gates with stale copies at work. |
| `Replay` | 2 runs, no worker, every operation, failures of DeployProduction | The human gates, and that the scan was not left out altogether, when runs are retried, replayed, redeployed and given designs. |
| `Settled` | 1 run, 2 requests in flight (symmetric; approvals and `retry_failed`), 2 decisions, failures of GeneratePRD, retry jobs, fresh copies | At rest the project shows the status of its run. |
| `SecurityRace` | 1 run, 3 decisions, no crash | Violated: code is proposed that no scan has seen. |
| `Progress` | 1 run, 1 crash or connection error, 1 decision | A run at a node that needs no human leaves it. One decision opens the first gate, so the run gets as far as the design; later nodes are not reached. |
| `LostApproval` | 1 run, no crash, 2 decisions | Violated: an approval that is never acted on. |
| `PullRequests` | 2 runs, 2 faults, 1 act of people, all credentials | Types; `PreparePR` implements `Delivery`; only a fault loses a repository; every invocation, and with it the lock it holds, ends, and does not go in circles on the way. |
| `Designs` | 2 runs, 1 request in flight, 4 rows, 6 transactions, 2 decisions, 1 crash | Versions without gaps or doubles; a stored design gives way only to a request for a new one; where a run's code is written from a design after an approval of its own, it is the approved one. |
| `Deployments` | 3 runs, 1 deploy request in flight, 2 deployments, 3 records, 1 poll before the deadline, 1 crash | What is live was ready, answered and approved; `deployed` is shown only with a URL; outcomes on record stay; a run without a failed report is not deployed again; every step of an invocation brings it nearer its end, and it ends. |
| `Projects` | 2 requests in flight (symmetric), 2 projects, 1 key, 3 runs, 1 crash | To creations a key stands for one run, which is started once, retries of it apart; deletions are final. |
| `CodeGeneration` | 3 engine retries and 3 client retries (4 attempts) as in the code, 1 click, 1 crash | Only code that was validated as a whole, and whose lock file fits it, gets to the gate; an execution of WriteCode makes at most 24 calls; a visit does not go in circles, and ends. |
| `Syntax` | every text of at most 5 characters over 9 classes | The scanner accepts exactly the texts that divide into strings, comments and nesting code. |

`LostApproval`: the worker, with a copy of the row from before the gate, executes `GeneratePRD` a second time while the
PRD is approved. The approval's background task finds the row locked (`SKIP LOCKED`) and gives up; the
worker's execution parks the run at the gate; the worker never selects runs in wait nodes. README.md:46 says "Every
step is idempotent and resumable from the last checkpoint"; the run stays where it is until a human sends another
decision. A crash between the commit of the decision and its task has the same effect.

`SecurityRace`: two invocations have a copy of the row at WriteCode, the worker's from its list and that of the background task of
the approval. The worker writes the code and takes it through SecurityGate; at its commit the task gets the lock, and, its session
returning the copy it has, writes code anew. The worker, which goes on with its own copy, executes PreparePR, and that loads the newest
`code_snapshot` of the run (`prepare_pr.py:393`): the one that was not scanned. README.md:221 says "No bypasses".

**Bounds.** `MaxRun`, `MaxEvents`, `MaxQueued`, `MaxJobs`, `MaxAttempt` and `MaxFaults` bound
what would grow. One run, one background task and the worker are enough for two
invocations of one run to leapfrog each other, which is where every stale copy comes from; three
decisions take a run through all gates, or through one rejection and two approvals. In `Settled` two decisions at a time meet each other and the retry
of a failed run; the gates beyond the design are the same code with another stage. Two runs are enough
for a replay and for an older run to interfere with a newer one. A second task slot adds
invocations in the same two roles.

For `PullRequests`, one fault leaves any prefix of the flow behind and the second one hits the retry; one act
of a person suffices for a merge, a close or a deletion at any point; the two runs compete for the
name of the repository and the row of the project. (With two acts of people `DeliversOnce`
holds as well, in 1.8 million states.)

For `Designs`, replays start at WriteCode, where the copies of designs are read; two runs bring one with its copies; one request in
flight beside the two invocations is the second writer of a collision; four rows hold a design, a
regenerated one, and a replay's copies of both. The proofs cover every other bound. For `Deployments`, three runs are two replays, two deployments a
failed one and its repetition; one poll before the deadline is a build that ends in time or not. For `Projects`, two requests race
for the key, the owner and the project, and a third run comes from the other project. For `CodeGeneration` the limits of retries are the code's own: `MAX_RETRIES` (`retry.py`),
`MAX_INTERNAL_RETRIES` (`llm/client.py:153`) and `_MAX_PARSE_RETRIES` (`write_code.py:34`). For `Syntax`, five characters hold a comment mark in a string, an escaped quote, an escape at the end, a
block comment that shares its star (`/*/`), and two pairs of brackets.

**Racing.** With `Racing = FALSE`, `PreparePR` keeps people out of two windows. That is a
precondition, not something the code ensures: nobody merges a run's pull request while its
invocation is between the search for closed pull requests and that for open ones (`prepare_pr.py:202` and `:249`), and nobody deletes
the repository while an invocation holds the number of a pull request. With `Racing = TRUE` TLC finds a run with two merged pull requests. Its
first attempt lost the answer of the merge request, which was never performed; the retry found the pull request open,
a person merged it, and the retry, finding none open, opened and merged a second one. The module header's
"no duplicate PRs per run" (`prepare_pr.py:9`) holds outside these windows.

**Naming.** With `Naming = TRUE` approvals name the artifact they approve, as the pages of the frontend do; the API does
not ask for it. With `FALSE` a run whose approval names nothing takes the newest row, a pending one included.

**FreshCopies.** `Settled` explores only behaviours in which an invocation executes a current copy of the row. This is a restriction of the
search, not a claim: with stale copies `SettledStatus` is false, and with the restriction the remaining causes can be told apart from that
one. It also needs one run: the IngestPrompt of an older run sets `prd_draft`, and a design request on a failed project sets `design_draft`, neither of
which is the status of the newest run. Requests and retries of that run may overlap. Three of the configurations under `Refuted` are cut in the
same way, to show causes other than stale copies. The human gates, the security gate and progress are checked, and the first proved, without it.

**What the properties do not say.** Some hold because they leave out what is refuted apart. `RepositoryKept` is excused by any fault: that a crash between creation and
commit loses the repository is `RepositoryFound`. `DeployedOnce` speaks of runs without a failed report; with one, `DeployedOnceEver` fails.
`SelectionHonoured` speaks of designs and of runs with an approval of their own; a replayed or overwritten design is `CodeFromApproved`. `DeletionSettles` speaks
of runs begun after the deletion; a run left active in a deleted project is `DeletedIdle`. `ScanGate` says that a report came first, not that it was on the
newest code, which is `SecurityGateHolds`. `SameAnswer` and `StartedOnce` speak of creations.

**Fairness.** `FairSpec` of `Orchestrator`: a background task that can step does, the worker never stops polling, a request in
flight commits, and a retry job that stays pending is eventually found due. The event loop of the API, the
worker's `while True` with its `except` clause, the timeouts of the clients, and `scheduled_for` justify them. Strong
fairness is used where the row lock can disable a step again and again. Clients are
not obliged to send anything, and no fairness says a handler succeeds.
`PreparePR!FairSpec` has weak fairness of each invocation's own steps: every request has a timeout of 30 seconds, polling
a deadline of 10 minutes. It asks nothing of CI, of people or of clients. `RetriedSpec`, used by
`LostRepository.cfg` alone, adds that a failed run is retried again and again: the repository is lost even then.
`Deployment!Spec` has weak fairness of a started invocation's next call, since every call of `httpx` has a timeout; builds and people owe nothing.
`CodeGeneration!FairSpec` has weak fairness of the system as a whole: the worker polls for ever, and calls and commands have
timeouts; no answer of the model is promised to be good.

**Deadlock** is not checked: with every bound used up, the systems wait for clients that
need not come, and the scanner stops at the end of its text.

## Refuted

What the repository says of itself and TLC finds a counterexample to. `LostApproval` and `SecurityRace` are runs of the project; the
others are reproduced with the configurations named here, each of which checks one property.

| Property | Module, configuration | The repository says | What happens |
|---|---|---|---|
| `SecurityGateHolds` | `MCOrchestrator`, `SecurityReplay.cfg` | README.md:221, "High/critical findings ... block deployment. No bypasses." | `_was_node_previously_reached` (`runs.py:260`) accepts a node that an audit event only names as `from_node`. A chain of replays reaches PreparePR with code that failed its validation and was never scanned. |
| `SecurityGateFresh` | `MCOrchestrator`, `SecurityRetries.cfg` | the same | The gate with current copies. One `retry_failed` request reads the run failed at WriteCode; before it commits, another retry takes the run on and it fails at PreparePR, which a second request reads. The first commits, and the run writes new code; the second commits and sends it to PreparePR (`runs.py:497`). When the invocation then crashes, the next one proposes that code unscanned. |
| `OlderRunsLeaveProject` | `MCOrchestrator`, `OlderRuns.cfg` | engine.py:522, "Protect against stale/background runs overwriting project status" | IngestPrompt writes the status itself (`ingest_prompt.py:54`), past the protection. |
| `RepositoryFound` | `MCPreparePR`, `LostRepository.cfg` | prepare_pr.py:464, "Persist repo URL so future runs/resumes find it." | The URL is flushed, not committed: a crash forgets the repository, its name is taken, and every retry fails on it. |
| `MergesChecked` | `MCPreparePR`, `EarlyMerge.cfg` | prepare_pr.py:10 and :12, "poll CI check runs until all complete", "If checks pass (or were skipped)" | No check registered yet counts as passed (`github/client.py:514`): the merge overtakes CI. |
| `CodeFromApproved` | `MCDesigns`, `ReplayedDesign.cfg` | write_code.py:1, "generates a full merged code snapshot from approved artifacts" | The copies of a replay share one `created_at` (`runs.py:348`), by which the design is chosen: a rejected design, or the payload of an error, may be taken. |
| `CodeFromApproved` | `MCDesigns`, `OverwrittenDesign.cfg` | the same | A request found the row pending (`routes/design.py:185`), GenerateDesign completed it and it was approved; the request's commit empties the row again, and the code is written from a pending row. |
| `LineageTrue` | `MCDesigns`, `Lineage.cfg` | write_code.py:616, "Return artifact references used in this run for traceability." | The references name the newest version of the run, the code is written from the selected one. |
| `QueuedOnce` | `MCDeployment`, `QueuedTwice.cfg` | routes/deploy.py:132, "idempotent - skip if already queued" | Both requests look before either inserts. |
| `DeployedOnceEver` | `MCDeployment`, `DeployedTwice.cfg` | engine.py:568, "Return an existing *successful* checkpoint artifact" | A run that failed to deploy and was retried has a failed and a passed report; the query takes any one, and with the failed one the run is deployed again. |
| `DeletedIdle` | `MCProjects`, `DeleteRace.cfg` | routes/projects.py:187, "Cannot delete project while a run is in progress" | A run created between the check and the commit is not seen. |
| `RestartAlone` | `MCProjects`, `RestartRace.cfg` | routes/projects.py:259, "Block if active run exists" | Two restarts both find none. |
| `RateLimitHeard` | `CodeGeneration`, `RateLimit.cfg` | retry.py:31, "Signals the engine to switch to the fallback model profile before retrying." | The profile is stored with the job, and nobody reads it. |
| `LessonsRead` | `CodeGeneration`, `Lessons.cfg` | write_code.py:392, "so the next loop can read the errors and code" | A snapshot is shown to the model only next to open findings of a scan (`write_code.py:165`), which an invalid one never gets. |

## Proofs

The assumptions of all theorems are those on the constants, in the modules that declare them: bounds are naturals, at least one run,
the worker is not a task slot, operations and unreliable nodes are drawn from the known ones. A theorem that needs
`Racing = FALSE` or `Naming = TRUE` says so.

`OrchestratorTypes` proves `Spec => []TypeInv`. `TypeOK` alone is not inductive: a
request or an invocation that names run 0 would read a row that does not exist, and a
retry job's invocation must find its job in the table. `TypeInv` adds that jobs in the list exist in the
table (`JobsBacked`), that invocations and requests in flight name runs that exist
(`ProcsBacked`, `ReqsBacked`), and that the newest run exists (`LatestBacked`).

`OrchestratorGates` proves the human gates for any number of runs, tasks, requests and decisions. The gates speak
of rows and of what invocations execute, but a row can be moved to a node by a replay that found the
node in an audit event, in an artifact, or by a stale copy that a list still holds. So the
invariant `GateInv` says, with `Allowed(r, n)` for "the gates before node n have been opened for run r":

- `RowsAllowed`, `ProcsAllowed`, `TodoAllowed`, `ReqsAllowed`: every place a node of a run is written down, the
  caches, the worker's list and the requests in flight among them, holds only allowed nodes;
- `TrailAllowed`, `ArtifactsAllowed`, `EventsAllowed`: everything a replay or a retry infers
  a node from (audit events, timelines, artifacts, approval events) only leads to allowed nodes.

A step preserves it because `Advance` leaves a gate only on the latest decision of that
gate, and because approvals are never deleted, so that what was allowed stays allowed. From
`GateInv` follow `DesignGate` and `DeployGate`, without any assumption on copies or on requests that overlap. Their converse for the scan is
not proved: `ScanGate` is model-checked, and `SecurityGateHolds` is false.

`PreparePRProofs` proves the types (`Typed`) and that a repository once made is not forgotten while nothing but answers fails (`RepositoriesKept`) whatever people do,
and that `PreparePR` implements `Delivery`, for any set of runs and any number of faults, retries and acts
of people, given `Racing = FALSE`. `Delivery` needs to know that a merge finds the run undelivered and that
a run that moves on has landed. The invariant `Inv` that gives both:

- `Sole`: of the pull requests of a run at most one is not closed. So when an open one is merged, none
  was merged before.
- `Unmerged`: an invocation between its search for closed pull requests and the opening of one has none
  merged. Without it `Sole` is not inductive: `EnsurePull` looks for open ones only. This is where `Racing` is needed.
- `Held`: the number an invocation holds is that of a pull request of its own run, so that `Merge` merges the
  code of the right run and `success` means that this run landed.
- `Merged`, `Backed`: what is merged, about to be reported or reported has landed.
- `Busy`: an invocation is of a run at the node, so that no commit reports a run twice.

The step lemmas treat the actions one by one; `Quiet`, `Moves` and `Keeps` collect what most of them have in
common. `Invariance` is proved from them, `Delivers` from `Invariance` and
one lemma per kind of step that names the step of `Delivery` it is.

`DesignsProofs` proves, for any number of runs, requests, rows, transactions and crashes:

- `VersionsAreDense`. The set of versions being `1..Len(arts)` is not inductive: that an insertion
  finds its version not taken says only that it is new. The invariant is `Numbered`, the row at place i has version i, and with it
  that nobody holds a version more than one above the rows there are (`TaskOK`, `ReqOK`): the maximum a writer read only grows, so a version
  that is not taken is the next one. A replay inserts several at once, which is why the lemmas `Least`, `Greatest` and
  `Ranked` count positions: its copies are as many as the rows of the run it read, and get consecutive versions.
- `StoredDesignsKept`, without a condition on requests: an invocation fills in a row only while it is pending (`TaskOK`: it is of the same run, of which there is
  one invocation at a time, and nobody else completes it); a request writes nothing but the pending content, though over whatever the row has become.
- `SelectionIsHonoured`, given `Naming = TRUE`: the invariant adds `NamesDesigns` (a decision that names a row names one that shows the design that was looked at, or
  shows none any more), `CodeHonours` (a design that WriteCode holds was shown to who approved the run) and `OneGate` (a run passes the gate once, and is behind it
  then). `Traces` says where a step lets a design get to. That a row may be emptied under a decision is what makes the theorem speak of designs only.

`CodeGenerationProofs` proves for all limits that `retry_count` stays within its range (`CodeGenerationTyped`), that what gets to the gate was validated as a
whole (`GateGetsCheckedCode`) and that the calls of an execution are bounded
(`ModelCallsBounded`). The bound is not inductive without `CallsCounted`, which counts the calls by phase, parse and attempt; `FilesAllowed` and
`PassedSound` say of the tree in memory what `CheckedCode` says of the snapshot.

`ProjectsProofs` proves for any number of requests, projects, keys, runs and crashes: one run per key
(`OneRunPerKey`, from `KeysUnique`, which the index gives, and `AnswersTrue`), one start per run (`RunsStartedOnce`, from `QueuedAtMostOnce`: a run is queued
or the one request that made it is about to), and the two action properties of deletions (`DeletionsFinal`, `DeletionsSettle`, from `ProjectsMade`: a request
other than a creation is for a project that was made).

`JstsSyntaxProofs` proves that the scanner decides `WellFormed`, for texts of any length (`ScannerDecides`). The reference quantifies over all divisions of the
text, the scanner makes one pass, so the invariant (`ScanInv`) says of the text before the current token, beginning at some t:

- `Chain`: it divides at the places T into tokens, each of which ends where the next begins. `DivisionChain` shows that chains to the end are
  the divisions of the reference.
- `Forced`: every division of the whole text divides it at T as well. A token is unique by where it begins (`StringEnds`, `LineEnds`, `BlockEnds`), which
  is what makes rejection right: an error excludes all divisions, not the one the scanner followed.
- `Balance`: the stack holds the openers not yet matched, each at its depth; every other one has its closer. From it follow `BalanceNests` at the end, and
  `BalanceMismatch` for a wrong closer, whatever text comes after it.
- `Inside`: the flags say what the characters from t on are, and `escape` whether an odd number of backslashes precedes (`EscapedStep`).

It needs no induction over the text: depths are cardinalities, and the steps of the scanner are the induction.

`DeploymentProofs` proves of `Deployment`, for any number of runs, requests, polls and faults, that the live URL is of an approved run's deployment which was READY and healthy
(`LiveUrlIsTrue`), that a project shown as deployed has one (`DeployedHasUrl`), that a run never refused is deployed once (`RunsDeployOnce`) and that an outcome in a
record is final (`OutcomesAreFinal`). The invariant adds `TasksTrue` (an invocation of an approved run at DeployProduction waits for a deployment
of its own: nothing else moves the run, so what it found healthy is what it reports), `Reported` (a passed report comes with the URL, a record of success with a passed report) and
`SuccessOnce`. `RoomLeft` shows that the bounds on records and deployments never cut an invocation short: each takes its room when it is started.

Of the ends of things the part that is a matter of the code is proved, for all bounds: every step of an invocation leaves fewer steps to do. In
`PreparePR` (`FlowAdvances`) and `Deployment` (`DeploymentsAdvance`) `StepsLeft` counts them; a repository that has to be made anew sends the flow back, once. In
`CodeGeneration` (`VisitsAdvance`) the order is lexicographic: the retries of the run, then phase, stage, parse and attempt of the execution
(`Earlier`), each within its limits by `TypeOK`; it needs that an idle execution is a cleared one (`Cleared`). None of the three says that there is a next step.

Only model-checked: `ScanGate`, `SettledStatus` (on current copies), and liveness under fairness (`ActionableProgress`, both `InvocationsEnd`, `VisitsEnd`), which is outside
what TLAPS checks here. The latter three are the action properties just named together with fairness and with the absence of a state in which an
invocation has no step.

## Divergences and remarks without a property

- README.md:46, "Rejection at any gate loops back to the generation step": `transitions.py:33` sends a rejection at
  WaitDeployApproval to EndFailed.
- conductor/product.md:21, "Every major milestone (PRD, Design, Tech Plan, Deployment) requires explicit user
  approval": `POST /design/generate` is accepted for a failed project and leaves a design; a replay then takes
  GenerateDesign as reached, and the new run goes to the design review without an approved PRD.
- The comment at `routes/deploy.py:164` says the orchestrator "will deterministically process the recorded
  deploy-approval event": the route looks for an approval of the project, `WaitApprovalHandler` for one of the run, so after a
  replay the run parks at the gate again, and a queued record is left behind. With two approvals in the project the route
  raises (`scalar_one_or_none`, `deploy.py:109`), and does so for good.
- `llm/client.py:91` says "RetryableError: on transient server errors (5xx)"; `_handle_api_error` (`client.py:317`) makes them permanent.
- The transitions between SecurityGate and WriteCode (`transitions.py:29`) have no bound on their rounds. Each visit of a node ends.
- The packages a run's phases and repair ask for accumulate (`write_code.py:361`): a repair cannot take an invented one back. npm missing on
  the server, or timing out, is reported as an error of the code (`write_code.py:897`), and is not retried.
- An exception of `httpx` in the Vercel client passes the handler's `except` clauses: the queued record stays queued. `rollback_candidate` is written and read by nobody.
- Feedback on a design drops `stitch_project_id` where the previous design has none, and then all projects share the Stitch project "id8-design".
- To the scanner the apostrophe in JSX text begins a string, and a regular expression literal with a quote does too: such files are refused.
- `_resolve_jsts_import` strips with `lstrip("./")` (`write_code.py:1551`), and so takes an import from beyond the root for one below it.
- Two first requests that create the scaffold owner collide (`routes/projects.py:62`); one of them is an error (`OwnerExists` in `Projects`).

## Not modelled, and the plan

Not modelled: the frontend (a client of the API; it sends the requests that are modelled, at any time); the security scanners (patterns over text, subprocesses; the
verdict is any); the JSON of the Stitch protocol and of the other clients; prompts; schemas, migrations, metrics and costs, which hold no state that an operation depends on;
the example application.

Next, in this order:

1. The way from `Progress` to a proof: a variant for a run at an actionable node, over retry jobs, queued tasks and the worker's lists.
2. The polling of the frontend: a decision sent on a page that shows an older artifact than the newest.
