------------------------------- MODULE GitHub -------------------------------
(***************************************************************************)
(* GitHub as the client in github/client.py uses it: the repository of one *)
(* project, a branch per run, pull requests and the checks CI attaches to  *)
(* a pushed commit.  The operators named for a request say what it changes *)
(* at GitHub; the actions below them are those of people and of CI, who do *)
(* not wait for ID8.                                                       *)
(***************************************************************************)
EXTENDS Naturals, Sequences

CONSTANTS
  Run,        \* the runs of the project, numbered as they are created
  Acts,       \* what people do: a subset of {"merge", "close", "delete"}
  MaxHands    \* bound: acts of people

ASSUME RunAssumption == Run \subseteq Nat
ASSUME ActsAssumption == Acts \subseteq {"merge", "close", "delete"}
ASSUME MaxHandsAssumption == MaxHands \in Nat

VARIABLES
  repo,       \* the repository exists
  branches,   \* runs whose branch id8/run-{run_id} exists
  pulls,      \* pull requests in the order of their numbers
  checks,     \* checks[r]: of the newest commit on the branch of r
  landed,     \* history: runs with a pull request that was ever merged
  hands       \* acts of people so far

hub == <<repo, branches, pulls, checks, landed>>

PullState == {"open", "merged", "closed"}

Pull == [run : Run, state : PullState]

(* Pull requests from the branch of r, by number. *)
PullsOf(r) == {n \in DOMAIN pulls : pulls[n].run = r}
OpenPulls(r) == {n \in PullsOf(r) : pulls[n].state = "open"}
MergedPulls(r) == {n \in PullsOf(r) : pulls[n].state = "merged"}

HubTypeOK ==
  /\ repo \in BOOLEAN
  /\ branches \subseteq Run
  /\ pulls \in Seq(Pull)
  /\ checks \in [Run -> {"none", "pending", "passed", "failed"}]
  /\ landed \subseteq Run
  /\ hands \in 0..MaxHands

HubInit ==
  /\ repo = FALSE
  /\ branches = {}
  /\ pulls = <<>>
  /\ checks = [r \in Run |-> "none"]
  /\ landed = {}
  /\ hands = 0

-----------------------------------------------------------------------------
(* Requests of the client. *)

(* The name of the repository is derived from the project: a second one conflicts. *)
MakeRepo ==
  /\ ~repo
  /\ repo' = TRUE
  /\ UNCHANGED <<branches, pulls, checks, landed>>

MakeBranch(r) ==
  /\ repo
  /\ branches' = branches \cup {r}
  /\ UNCHANGED <<repo, pulls, checks, landed>>

(* A new commit on the branch: CI has said nothing of it yet. *)
PushFiles(r) ==
  /\ repo /\ r \in branches
  /\ checks' = [checks EXCEPT ![r] = "none"]
  /\ UNCHANGED <<repo, branches, pulls, landed>>

(* GitHub allows one open pull request per branch. *)
MakePull(r) ==
  /\ repo /\ r \in branches
  /\ OpenPulls(r) = {}
  /\ pulls' = Append(pulls, [run |-> r, state |-> "open"])
  /\ UNCHANGED <<repo, branches, checks, landed>>

(* The request names a number, not a run or a commit. *)
MergePull(n) ==
  /\ repo /\ n \in DOMAIN pulls
  /\ pulls[n].state = "open"
  /\ pulls' = [pulls EXCEPT ![n].state = "merged"]
  /\ landed' = landed \cup {pulls[n].run}
  /\ UNCHANGED <<repo, branches, checks>>

-----------------------------------------------------------------------------
(* People and CI. *)

Hand(act) ==
  /\ act \in Acts
  /\ hands < MaxHands
  /\ hands' = hands + 1

HumanMerge(n) == Hand("merge") /\ MergePull(n)

HumanClose(n) ==
  /\ Hand("close")
  /\ n \in DOMAIN pulls
  /\ pulls[n].state = "open"
  /\ pulls' = [pulls EXCEPT ![n].state = "closed"]
  /\ UNCHANGED <<repo, branches, checks, landed>>

(* The numbers of a repository made later start again. *)
HumanDelete ==
  /\ Hand("delete")
  /\ repo
  /\ repo' = FALSE
  /\ branches' = {}
  /\ pulls' = <<>>
  /\ checks' = [r \in Run |-> "none"]
  /\ UNCHANGED landed

(* CI registers its checks some time after a push and concludes them later, or never. *)
RunChecks(r) ==
  /\ r \in branches
  /\ \/ checks[r] = "none" /\ checks' = [checks EXCEPT ![r] = "pending"]
     \/ /\ checks[r] = "pending"
        /\ \E c \in {"passed", "failed"} : checks' = [checks EXCEPT ![r] = c]
  /\ UNCHANGED <<repo, branches, pulls, landed, hands>>

=============================================================================
