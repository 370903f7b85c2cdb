----------------------------- MODULE PreparePR ------------------------------
(***************************************************************************)
(* The PreparePR node (orchestrator/handlers/prepare_pr.py), one action    *)
(* per step of _run_github_flow, over GitHub and the columns the node      *)
(* reads and writes.  The row of the run is locked from the start of the   *)
(* flow to its commit, so a run has one invocation at a time; the runs of  *)
(* a project share its repository and its stored URL.                      *)
(***************************************************************************)
EXTENDS GitHub

CONSTANTS
  AuthModes,   \* credentials the installation may have
  Racing,      \* people also act in the two windows named below
  MaxFaults    \* bound: crashes, lost answers and exhausted rate limits

ASSUME AuthAssumption == AuthModes \subseteq {"none", "token", "app", "blind"}
ASSUME RacingAssumption == Racing \in BOOLEAN
ASSUME MaxFaultsAssumption == MaxFaults \in Nat

VARIABLES
  auth,     \* resolve_github_auth; "blind" is an App that may not read checks
  node,     \* node[r]: current_node of the run's row; "earlier" if not yet PreparePR
  url,      \* projects.github_repo_url is set
  pc,       \* pc[r]: where the invocation of r is
  mine,     \* mine[r]: what that invocation holds
  faults    \* faults so far

database == <<node, url>>
vars == <<hub, hands, auth, database, pc, mine, faults>>

(* Steps that send requests, and the endings that wait for the commit. *)
Calls == {"create", "save", "branch", "find", "push", "open", "checks", "merge"}
Endings == {"success", "failure", "rate_limited"}

(***************************************************************************)
(* had and url are project.github_repo_url of the session, as loaded and   *)
(* as it is now; recreate says that a missing repository may be made anew; *)
(* pr is the number of the pull request.                                   *)
(***************************************************************************)
Session == [had : BOOLEAN, url : BOOLEAN, recreate : BOOLEAN, pr : Nat]
NoSession == [had |-> FALSE, url |-> FALSE, recreate |-> FALSE, pr |-> 0]

TypeOK ==
  /\ HubTypeOK
  /\ auth \in AuthModes
  /\ node \in [Run -> {"earlier", "PreparePR", "WaitDeployApproval", "EndFailed"}]
  /\ url \in BOOLEAN
  /\ pc \in [Run -> {"idle"} \cup Calls \cup Endings]
  /\ mine \in [Run -> Session]
  /\ faults \in 0..MaxFaults

Init ==
  /\ HubInit
  /\ auth \in AuthModes
  /\ node = [r \in Run |-> "earlier"]
  /\ url = FALSE
  /\ pc = [r \in Run |-> "idle"]
  /\ mine = [r \in Run |-> NoSession]
  /\ faults = 0

Goto(r, from, to) == pc[r] = from /\ pc' = [pc EXCEPT ![r] = to]

(* A step that only reads. *)
Reads(r) == UNCHANGED <<hub, mine>>

-----------------------------------------------------------------------------
(* The flow.  A request that GitHub refuses ends it in failure. *)

(* The run passes SecurityGate, or is created at this node by a replay. *)
Arrive(r) ==
  /\ node[r] = "earlier"
  /\ node' = [node EXCEPT ![r] = "PreparePR"]
  /\ UNCHANGED <<hub, pc, mine, url>>

(* Without code, without the project or without credentials the flow fails. *)
Start(r) ==
  /\ node[r] = "PreparePR"
  /\ \/ Goto(r, "idle", "failure")
     \/ auth # "none" /\ Goto(r, "idle", IF url THEN "branch" ELSE "create")
  /\ mine' = [mine EXCEPT ![r] =
       [had |-> url, url |-> url, recreate |-> url, pr |-> 0]]
  /\ UNCHANGED hub

CreateRepo(r) ==
  \/ Goto(r, "create", "save") /\ MakeRepo /\ UNCHANGED mine
  \/ repo /\ Goto(r, "create", "failure") /\ Reads(r)

(* An update of the project's row that is not yet committed locks it. *)
Unsaved(r) == mine[r].url # mine[r].had

(* The URL of a repository made anew is the one stored: nothing is updated. *)
SaveUrl(r) ==
  /\ mine[r].had \/ \A q \in Run : ~ Unsaved(q)
  /\ Goto(r, "save", "branch")
  /\ mine' = [mine EXCEPT ![r].url = TRUE]
  /\ UNCHANGED hub

(* A mutant of EnsureBranch: a repository may be made anew every time. *)
EnsureBranchAgain(r) ==
  \/ Goto(r, "branch", "find") /\ MakeBranch(r) /\ UNCHANGED mine
  \/ /\ ~repo \/ r \notin branches
     /\ Goto(r, "branch", IF mine[r].recreate THEN "create" ELSE "failure")
     /\ Reads(r)

(* GitHubNotFoundError: the repository is missing, or the base branch that *)
(* a new branch is to start from.                                          *)
EnsureBranch(r) ==
  \/ Goto(r, "branch", "find") /\ MakeBranch(r) /\ UNCHANGED mine
  \/ /\ ~repo \/ r \notin branches
     /\ Goto(r, "branch", IF mine[r].recreate THEN "create" ELSE "failure")
     /\ mine' = [mine EXCEPT ![r].recreate = FALSE]
     /\ UNCHANGED hub

(* A mutant of FindClosed: only open pull requests are looked for. *)
FindClosedAmongOpen(r) ==
  Goto(r, "find", IF repo THEN "push" ELSE "failure") /\ Reads(r)

FindClosed(r) ==
  /\ Goto(r, "find", CASE ~repo -> "failure"
                       [] repo /\ (PullsOf(r) = {} \/ OpenPulls(r) # {}) -> "push"
                       [] OTHER -> IF MergedPulls(r) # {} THEN "success" ELSE "failure")
  /\ Reads(r)

Push(r) ==
  \/ Goto(r, "push", "open") /\ PushFiles(r) /\ UNCHANGED mine
  \/ r \notin branches /\ Goto(r, "push", "failure") /\ Reads(r)

EnsurePull(r) ==
  \/ /\ OpenPulls(r) # {}
     /\ Goto(r, "open", "checks")
     /\ \E n \in OpenPulls(r) : mine' = [mine EXCEPT ![r].pr = n]
     /\ UNCHANGED hub
  \/ /\ Goto(r, "open", "checks")
     /\ MakePull(r)
     /\ mine' = [mine EXCEPT ![r].pr = Len(pulls) + 1]
  \/ r \notin branches /\ Goto(r, "open", "failure") /\ Reads(r)

(* A mutant of Verdict: no deadline ends the polling. *)
VerdictWaiting(r) ==
  CASE auth \in {"token", "blind"} -> "merge"
    [] auth = "app" /\ checks[r] = "pending" -> "checks"
    [] OTHER -> IF checks[r] = "failed" THEN "failure" ELSE "merge"

(* A mutant of Verdict: an outcome for skipped checks no transition knows. *)
VerdictSkipping(r) ==
  IF auth = "token" THEN "skipped"
  ELSE IF checks[r] = "failed" THEN "failure" ELSE "merge"

(***************************************************************************)
(* poll_checks: no check registered counts as passed; pending ones are     *)
(* polled until they conclude or the deadline passes.                      *)
(***************************************************************************)
Verdict(r) ==
  CASE auth \in {"token", "blind"} -> "merge"
    [] auth = "app" /\ r \notin branches -> "failure"
    [] OTHER -> IF checks[r] \in {"none", "passed"} THEN "merge" ELSE "failure"

PollChecks(r) == Goto(r, "checks", Verdict(r)) /\ Reads(r)

(* Merging may be refused: a conflict, a review or check that is required. *)
Merge(r) ==
  \/ Goto(r, "merge", "success") /\ MergePull(mine[r].pr) /\ UNCHANGED mine
  \/ Goto(r, "merge", "failure") /\ Reads(r)

Call(r) ==
  \/ CreateRepo(r) \/ SaveUrl(r) \/ EnsureBranch(r) \/ FindClosed(r)
  \/ Push(r) \/ EnsurePull(r) \/ PollChecks(r) \/ Merge(r)

(* A mutant of Commit: a failure is not committed but rolled back. *)
CommitSuccess(r) ==
  /\ pc[r] \in Endings
  /\ node' \in {[node EXCEPT ![r] = n] : n \in
       CASE pc[r] = "success" -> {"WaitDeployApproval"}
         [] pc[r] = "failure" -> {"EndFailed"}
         [] OTHER -> {"PreparePR", "EndFailed"}}
  /\ url' = (url \/ (pc[r] = "success" /\ mine[r].url))
  /\ pc' = [pc EXCEPT ![r] = "idle"]
  /\ mine' = [mine EXCEPT ![r] = NoSession]
  /\ UNCHANGED hub

(***************************************************************************)
(* The engine turns the ending into a transition and commits it with what  *)
(* the session holds.  A rate limit leaves the run at the node for a retry *)
(* job, or fails it when the retries are used up.                          *)
(***************************************************************************)
Commit(r) ==
  /\ pc[r] \in Endings
  /\ node' \in {[node EXCEPT ![r] = n] : n \in
       CASE pc[r] = "success" -> {"WaitDeployApproval"}
         [] pc[r] = "failure" -> {"EndFailed"}
         [] OTHER -> {"PreparePR", "EndFailed"}}
  /\ url' = (url \/ mine[r].url)
  /\ pc' = [pc EXCEPT ![r] = "idle"]
  /\ mine' = [mine EXCEPT ![r] = NoSession]
  /\ UNCHANGED hub

(* A client retries the failed run, which has to be the newest of the project. *)
Retry(r) ==
  /\ node[r] = "EndFailed"
  /\ \A q \in Run : q > r => node[q] = "earlier"
  /\ node' = [node EXCEPT ![r] = "PreparePR"]
  /\ UNCHANGED <<hub, pc, mine, url>>

-----------------------------------------------------------------------------
(* What goes wrong. *)

(* The process ends or loses its database connection: nothing is committed. *)
Crash(r) ==
  /\ pc[r] # "idle"
  /\ pc' = [pc EXCEPT ![r] = "idle"]
  /\ mine' = [mine EXCEPT ![r] = NoSession]
  /\ UNCHANGED hub

(* What the request of the current step would do at GitHub. *)
Effect(r) ==
  CASE pc[r] = "create" -> MakeRepo
    [] pc[r] = "branch" -> MakeBranch(r)
    [] pc[r] = "push" -> PushFiles(r)
    [] pc[r] = "open" -> MakePull(r)
    [] pc[r] = "merge" -> MergePull(mine[r].pr)
    [] OTHER -> FALSE

(* A request gets no answer, performed or not: the exception fails the run. *)
LoseAnswer(r) ==
  /\ pc[r] \in Calls \ {"save"}
  /\ pc' = [pc EXCEPT ![r] = "failure"]
  /\ Effect(r) \/ UNCHANGED hub
  /\ UNCHANGED mine

RateLimited(r) ==
  /\ pc[r] \in Calls \ {"save"}
  /\ pc' = [pc EXCEPT ![r] = "rate_limited"]
  /\ Reads(r)

Fault(r) ==
  /\ faults < MaxFaults
  /\ faults' = faults + 1
  /\ Crash(r) \/ LoseAnswer(r) \/ RateLimited(r)
  /\ UNCHANGED <<hands, auth, database>>

(***************************************************************************)
(* The windows: between the search for a closed pull request and the       *)
(* opening of one, and while a number of a pull request is held.           *)
(***************************************************************************)
Opening(r) == pc[r] \in {"push", "open"}
Holding(r) == mine[r].pr # 0

People ==
  /\ \/ \E n \in DOMAIN pulls :
          /\ Racing \/ ~ Opening(pulls[n].run)
          /\ HumanMerge(n)
     \/ \E n \in DOMAIN pulls : HumanClose(n)
     \/ (Racing \/ \A r \in Run : ~ Holding(r)) /\ HumanDelete
  /\ UNCHANGED <<auth, database, pc, mine, faults>>

(* Only an App that may read the checks sees what CI does. *)
CI ==
  /\ auth = "app"
  /\ \E r \in Run : RunChecks(r)
  /\ UNCHANGED <<auth, database, pc, mine, faults>>

-----------------------------------------------------------------------------
Step(r) ==
  \/ (Start(r) \/ Call(r)) /\ UNCHANGED <<hands, auth, database, faults>>
  \/ Commit(r) /\ UNCHANGED <<hands, auth, faults>>

Next ==
  \/ \E r \in Run : Step(r)
  \/ \E r \in Run : (Arrive(r) \/ Retry(r)) /\ UNCHANGED <<hands, auth, faults>>
  \/ \E r \in Run : Fault(r)
  \/ People
  \/ CI

Spec == Init /\ [][Next]_vars

(* The process of an invocation runs it on: every request has a timeout.    *)
Fairness == \A r \in Run : WF_vars(Step(r))
FairSpec == Spec /\ Fairness

(* A failed run is retried, again and again. *)
RetriedSpec == FairSpec /\ \A r \in Run : WF_vars(Retry(r) /\ UNCHANGED <<hands, auth, faults>>)

-----------------------------------------------------------------------------
(* What is claimed. *)

(***************************************************************************)
(* Delivery once: through crashes, lost answers, rate limits and retries,  *)
(* and although runs share a repository, GitHub takes in the code of a run *)
(* once, and the engine moves a run on only after that (the idempotent     *)
(* resume of prepare_pr.py:200, "treating PreparePR as idempotent          *)
(* success").                                                              *)
(***************************************************************************)
Abstract == INSTANCE Delivery WITH
  delivered <- {<<pulls[n].run, n>> : n \in {m \in DOMAIN pulls : pulls[m].state = "merged"}},
  reported <- {r \in Run : node[r] = "WaitDeployApproval"}

DeliversOnce == Abstract!Spec

(***************************************************************************)
(* An invocation, and with it the lock of the run's row, ends: no request, *)
(* no check that never concludes and no wait for the row of the project    *)
(* holds it for ever (prepare_pr.py:276).                                  *)
(***************************************************************************)
InvocationsEnd == \A r \in Run : pc[r] # "idle" ~> pc[r] = "idle"

(* The steps an invocation has left, at most: it may make the repository    *)
(* anew once, and then begins again.                                        *)
Rank == [create |-> 9, save |-> 8, branch |-> 7, find |-> 6, push |-> 5, open |-> 4,
         checks |-> 3, merge |-> 2, success |-> 1, failure |-> 1, rate_limited |-> 1,
         idle |-> 0]
StepsLeft(r) == Rank[pc[r]] + (IF mine[r].recreate THEN 9 ELSE 0)

(***************************************************************************)
(* However people delete, merge and close meanwhile, an invocation does    *)
(* not go in circles: each of its steps leaves fewer to do                 *)
(* (prepare_pr.py:178, allow_repo_recreate_on_not_found).                  *)
(***************************************************************************)
InvocationsAdvance ==
  [][\A r \in Run : pc[r] # "idle" /\ pc'[r] # pc[r]
                      => StepsLeft(r)' < StepsLeft(r)]_vars

(***************************************************************************)
(* A repository ID8 made is found again by the runs and retries that       *)
(* follow: prepare_pr.py:464, "Persist repo URL so future runs/resumes     *)
(* find it".                                                               *)
(***************************************************************************)
RepositoryFound == repo ~> (url \/ ~repo)

(***************************************************************************)
(* No refusal by GitHub, no failed check and no other run makes ID8 forget *)
(* a repository it made: only a crash or an answer that never came does,   *)
(* which RepositoryFound says should not either                            *)
(* (prepare_pr.py:464, engine.py:172).                                     *)
(***************************************************************************)
RepositoryKept ==
  repo /\ ~url => faults > 0 \/ (\E r \in Run : pc[r] = "save" \/ mine[r].url)

(***************************************************************************)
(* With App credentials ID8 merges only what its checks let pass:          *)
(* prepare_pr.py:10 and 12, "poll CI check runs until all complete or      *)
(* timeout", "If checks pass (or were skipped): squash-merge the PR".      *)
(***************************************************************************)
MergesChecked ==
  [][\A r \in Run :
       auth = "app" /\ pc[r] = "merge" /\ pc'[r] = "success"
         => checks[r] \notin {"pending", "failed"}]_vars

=============================================================================
