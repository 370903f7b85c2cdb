--------------------------- MODULE ProjectsProofs ---------------------------
(***************************************************************************)
(* Proofs about Projects, for any number of requests, projects, keys and   *)
(* runs: what a key stands for, how often a run is started, and that a     *)
(* deletion is final.                                                      *)
(***************************************************************************)
EXTENDS Projects, TLAPS

(* Runs: the unique index on idempotency_key, and the bound of the model. *)
KeysUnique ==
  /\ Len(runs) <= MaxRuns
  /\ \A r, s \in DOMAIN runs : runs[r].key = runs[s].key /\ runs[r].key # NoKey => r = s

(* An answer is a run of the project asked for, with the key asked with. *)
AnswersTrue ==
  \A a \in answers : /\ a.run \in DOMAIN runs
                     /\ runs[a.run].project = a.project
                     /\ runs[a.run].key = a.key

(* A run has a task queued, or the request that made it is about to queue it. *)
QueuedAtMostOnce ==
  /\ \A r \in 1..MaxRuns : queued[r] <= 1 /\ (r \notin DOMAIN runs => queued[r] = 0)
  /\ \A q \in Requests : req[q].pc = "queue" =>
       /\ req[q].run \in DOMAIN runs
       /\ queued[req[q].run] = 0
       /\ \A o \in Requests : req[o].pc = "queue" /\ req[o].run = req[q].run => o = q

(* A project is made by one request, and others only use it once it is there. *)
ProjectsMade ==
  \A q \in Requests :
    /\ req[q].op = "project" =>
         /\ req[q].pc = "commit"
         /\ project[req[q].project] = "absent"
         /\ \A o \in Requests :
              req[o].op = "project" /\ req[o].project = req[q].project => o = q
    /\ req[q].op \notin {"project", "none"} => project[req[q].project] # "absent"

IInv == TypeOK /\ KeysUnique /\ AnswersTrue /\ QueuedAtMostOnce /\ ProjectsMade

-----------------------------------------------------------------------------

(* The system starts in the invariant. *)
LEMMA InitIInv == Init => IInv
<1> SUFFICES ASSUME Init PROVE IInv
  OBVIOUS
<1> DEFINE p0 == CHOOSE p \in Project : TRUE
<1>1. p0 \in Project
  BY ProjectAssumption
<1>2. Idle(p0) \in Request
  BY <1>1, BoundsAssumption DEF Idle, Request, Keys
<1>3. req = [q \in Requests |-> Idle(p0)]
  BY DEF Init
<1> HIDE DEF p0
<1>4. TypeOK
  <2>1. req \in [Requests -> Request]
    BY <1>2, <1>3
  <2>2. owner \in BOOLEAN
    BY DEF Init
  <2>5. answers = {} /\ runs = <<>> /\ faults = 0 /\ 0 \in 0..MaxFaults
    BY BoundsAssumption DEF Init
  <2>3. project \in [Project -> {"absent", "open", "deleted"}]
    BY DEF Init
  <2>4. queued \in [1..MaxRuns -> Nat]
    BY DEF Init
  <2> QED
    BY <2>1, <2>2, <2>3, <2>4, <2>5 DEF TypeOK
<1>5. KeysUnique /\ AnswersTrue
  BY BoundsAssumption DEF Init, KeysUnique, AnswersTrue
<1>6. \A q \in Requests : req[q].op = "none" /\ req[q].pc = "idle"
  BY <1>3 DEF Idle
<1>7. QueuedAtMostOnce /\ ProjectsMade
  BY <1>6, BoundsAssumption DEF Init, QueuedAtMostOnce, ProjectsMade
<1> QED
  BY <1>4, <1>5, <1>7 DEF IInv

(* A request begins: what its guard read holds when it is sent. *)
LEMMA BeginIInv ==
  ASSUME IInv, NEW q \in Requests, NEW op \in Operations, NEW p \in Project,
         NEW k \in Keys, NEW pc \in {"key", "commit"}, NEW run \in 0..MaxRuns,
         Begin(q, op, p, k, pc, run),
         op = "project" => /\ pc = "commit" /\ project[p] = "absent"
                           /\ \A o \in Requests : req[o].op = "project" => req[o].project # p,
         op # "project" => project[p] # "absent"
  PROVE  IInv'
<1> DEFINE new == [op |-> op, project |-> p, key |-> k, owned |-> owner, pc |-> pc, run |-> run]
<1>2. new \in Request
  BY BoundsAssumption DEF IInv, TypeOK, Request
<1>3. req' = [req EXCEPT ![q] = new]
  BY DEF Begin
<1>4. /\ new.op = op /\ new.pc = pc /\ new.project = p
  OBVIOUS
<1> HIDE DEF new
<1>5. TypeOK'
  BY <1>2, <1>3 DEF IInv, TypeOK, Begin
<1>6. KeysUnique' /\ AnswersTrue'
  BY DEF IInv, KeysUnique, AnswersTrue, Begin
<1>7. QueuedAtMostOnce'
  BY <1>3, <1>4 DEF IInv, TypeOK, QueuedAtMostOnce, Begin
<1>8. ProjectsMade'
  <2>1. project' = project /\ req'[q] = new
    BY <1>3 DEF Begin, IInv, TypeOK
  <2>2. \A o \in Requests : o # q => req'[o] = req[o]
    BY <1>3 DEF IInv, TypeOK
  <2>3. ASSUME NEW o \in Requests, o # q, req[o].op = "project", op = "project"
        PROVE  req[o].project # p
    BY <2>3
  <2> QED
    BY <1>4, <2>1, <2>2, <2>3 DEF IInv, ProjectsMade
<1> QED
  BY <1>5, <1>6, <1>7, <1>8 DEF IInv

(* A request ends without a write. *)
LEMMA RefuseIInv ==
  ASSUME IInv, NEW q \in Requests, Done(q),
         UNCHANGED <<owner, project, runs, queued, answers>>, faults' \in 0..MaxFaults
  PROVE  IInv'
<1> DEFINE new == Idle(req[q].project)
<1>1. new \in Request /\ new.op = "none" /\ new.pc = "idle"
  BY BoundsAssumption DEF IInv, TypeOK, Request, Idle, Keys
<1>2. req' = [req EXCEPT ![q] = new]
  BY DEF Done
<1> HIDE DEF new
<1>3. TypeOK'
  BY <1>1, <1>2 DEF IInv, TypeOK
<1>4. KeysUnique' /\ AnswersTrue'
  BY DEF IInv, KeysUnique, AnswersTrue
<1>5. QueuedAtMostOnce' /\ ProjectsMade'
  BY <1>1, <1>2 DEF IInv, TypeOK, QueuedAtMostOnce, ProjectsMade
<1> QED
  BY <1>3, <1>4, <1>5 DEF IInv

(* A request is answered with a run that has its project and its key. *)
LEMMA AnswerIInv ==
  ASSUME IInv, NEW q \in Requests, NEW r \in DOMAIN runs, AnswerExisting(q, r),
         runs[r].project = req[q].project, runs[r].key = req[q].key
  PROVE  IInv'
<1> DEFINE new == Idle(req[q].project)
<1> DEFINE a == [project |-> req[q].project, key |-> req[q].key, run |-> r]
<1>1. new \in Request /\ new.op = "none" /\ new.pc = "idle"
  BY BoundsAssumption DEF IInv, TypeOK, Request, Idle, Keys
<1>2. req' = [req EXCEPT ![q] = new]
  BY DEF AnswerExisting, Done
<1>3. a \in [project : Project, key : Keys, run : 1..MaxRuns]
  BY BoundsAssumption DEF IInv, TypeOK, Request, KeysUnique
<1>4. a.run = r /\ a.project = runs[r].project /\ a.key = runs[r].key
  OBVIOUS
<1>5. answers' = answers \cup {a}
  BY DEF AnswerExisting, Answer
<1> HIDE DEF new, a
<1>6. TypeOK'
  BY <1>1, <1>2, <1>3, <1>5 DEF IInv, TypeOK, AnswerExisting
<1>7. KeysUnique'
  BY DEF IInv, KeysUnique, AnswerExisting
<1>8. AnswersTrue'
  BY <1>4, <1>5 DEF IInv, AnswersTrue, AnswerExisting
<1>9. QueuedAtMostOnce' /\ ProjectsMade'
  BY <1>1, <1>2 DEF IInv, TypeOK, QueuedAtMostOnce, ProjectsMade, AnswerExisting
<1> QED
  BY <1>6, <1>7, <1>8, <1>9 DEF IInv

(* A request that is to create a run goes on with another step. *)
LEMMA GoOnIInv ==
  ASSUME IInv, NEW q \in Requests, NEW pc \in {"other", "commit", "again"},
         req[q].op # "project", req' = [req EXCEPT ![q].pc = pc],
         UNCHANGED <<owner, project, runs, queued, answers, faults>>
  PROVE  IInv'
<1>1. TypeOK'
  BY DEF IInv, TypeOK, Request
<1>2. KeysUnique' /\ AnswersTrue'
  BY DEF IInv, KeysUnique, AnswersTrue
<1>3. QueuedAtMostOnce'
  BY DEF IInv, TypeOK, Request, QueuedAtMostOnce
<1>4. ProjectsMade'
  BY DEF IInv, TypeOK, Request, ProjectsMade
<1> QED
  BY <1>1, <1>2, <1>3, <1>4 DEF IInv

(* The project a request makes is there; no other request makes it too. *)
LEMMA CommitProjectIInv ==
  ASSUME IInv, NEW q \in Requests, CommitProject(q)
  PROVE  IInv'
<1> DEFINE p == req[q].project
<1> DEFINE new == Idle(p)
<1>1. new \in Request /\ new.op = "none" /\ new.pc = "idle"
  BY BoundsAssumption DEF IInv, TypeOK, Request, Idle, Keys
<1>2. req' = [req EXCEPT ![q] = new]
  BY DEF CommitProject, Done
<1>3. p \in Project /\ project' = [project EXCEPT ![p] = "open"]
  BY DEF IInv, TypeOK, Request, CommitProject
<1> HIDE DEF new
<1>4. TypeOK'
  BY <1>1, <1>2, <1>3 DEF IInv, TypeOK, CommitProject
<1>5. KeysUnique' /\ AnswersTrue'
  BY DEF IInv, KeysUnique, AnswersTrue, CommitProject
<1>6. QueuedAtMostOnce'
  BY <1>1, <1>2 DEF IInv, TypeOK, QueuedAtMostOnce, CommitProject
<1>7. \A o \in Requests : req[o].op = "project" /\ req[o].project = p => o = q
  BY DEF IInv, ProjectsMade, CommitProject
<1>8. ProjectsMade'
  <2>1. \A o \in Requests : req'[o] = IF o = q THEN new ELSE req[o]
    BY <1>2 DEF IInv, TypeOK
  <2>2. \A o \in Requests : o # q /\ req[o].op = "project"
          => req[o].project # p /\ project'[req[o].project] = project[req[o].project]
    BY <1>3, <1>7 DEF IInv, TypeOK, Request
  <2>3. \A o \in Requests : project[req[o].project] # "absent"
                            => project'[req[o].project] # "absent"
    BY <1>3 DEF IInv, TypeOK, Request
  <2> QED
    BY <1>1, <2>1, <2>2, <2>3 DEF IInv, ProjectsMade
<1> QED
  BY <1>4, <1>5, <1>6, <1>8 DEF IInv

(* A run is committed under a key that is free. *)
LEMMA CommitRunIInv ==
  ASSUME IInv, NEW q \in Requests, CommitRun(q)
  PROVE  IInv'
<1> DEFINE n == Len(runs) + 1
<1> DEFINE row == [project |-> req[q].project, key |-> req[q].key, status |-> "active"]
<1> DEFINE a == [project |-> req[q].project, key |-> req[q].key, run |-> n]
<1>1. /\ req[q] \in Request
      /\ req[q].op \in {"run", "replay", "restart"} /\ req[q].pc = "commit"
      /\ KeyFree(req[q].key) /\ Len(runs) < MaxRuns
      /\ runs' = Append(runs, row) /\ answers' = answers \cup {a} /\ project' = project
      /\ req' = [req EXCEPT ![q].pc = "queue", ![q].run = n]
      /\ UNCHANGED <<owner, queued, faults>>
  BY DEF IInv, TypeOK, CommitRun, NewRun, Touch, Answer
<1>2. /\ Len(runs) \in Nat /\ n \in 1..MaxRuns /\ n \notin DOMAIN runs
      /\ row \in [project : Project, key : Keys, status : RunStatus]
      /\ a \in [project : Project, key : Keys, run : 1..MaxRuns]
  BY <1>1, BoundsAssumption DEF IInv, TypeOK, Request, RunStatus
<1>3. /\ runs' \in Seq([project : Project, key : Keys, status : RunStatus])
      /\ Len(runs') = n /\ DOMAIN runs' = DOMAIN runs \cup {n}
      /\ runs'[n] = row /\ \A r \in DOMAIN runs : runs'[r] = runs[r]
  BY <1>1, <1>2 DEF IInv, TypeOK
<1>4. /\ row.key = req[q].key /\ row.project = req[q].project
      /\ a.key = req[q].key /\ a.project = req[q].project /\ a.run = n
  OBVIOUS
<1> HIDE DEF row, a, n
<1>5. TypeOK'
  <2>1. n \in 0..MaxRuns
    BY <1>2
  <2>2. req' \in [Requests -> Request]
    BY <1>1, <2>1 DEF IInv, TypeOK, Request
  <2>3. answers' \subseteq [project : Project, key : Keys, run : 1..MaxRuns]
    BY <1>1, <1>2 DEF IInv, TypeOK
  <2> QED
    BY <1>1, <1>3, <2>2, <2>3 DEF IInv, TypeOK
<1>6. KeysUnique'
  BY <1>1, <1>2, <1>3, <1>4 DEF IInv, KeysUnique, KeyFree, Holders
<1>7. AnswersTrue'
  BY <1>1, <1>3, <1>4 DEF IInv, AnswersTrue
<1>8. \A o \in Requests :
        /\ o # q => req'[o] = req[o]
        /\ o = q => /\ req'[o].pc = "queue" /\ req'[o].run = n
                    /\ req'[o].op = req[o].op /\ req'[o].project = req[o].project
  BY <1>1 DEF IInv, TypeOK, Request
<1>9. QueuedAtMostOnce'
  <2>1. queued[n] = 0 /\ queued' = queued
    BY <1>1, <1>2 DEF IInv, QueuedAtMostOnce
  <2>2. \A o \in Requests : req[o].pc = "queue" => req[o].run \in DOMAIN runs /\ o # q
    BY <1>1 DEF IInv, QueuedAtMostOnce
  <2>3. \A r \in 1..MaxRuns : queued'[r] <= 1 /\ (r \notin DOMAIN runs' => queued'[r] = 0)
    BY <1>3, <2>1 DEF IInv, QueuedAtMostOnce
  <2>4. ASSUME NEW x \in Requests, req'[x].pc = "queue"
        PROVE  /\ req'[x].run \in DOMAIN runs' /\ queued'[req'[x].run] = 0
               /\ \A o \in Requests : req'[o].pc = "queue" /\ req'[o].run = req'[x].run => o = x
    <3>1. CASE x = q
      BY <1>2, <1>3, <1>8, <2>1, <2>2, <3>1
    <3>2. CASE x # q
      BY <1>2, <1>3, <1>8, <2>1, <2>2, <2>4, <3>2 DEF IInv, QueuedAtMostOnce
    <3> QED
      BY <3>1, <3>2
  <2> QED
    BY <2>3, <2>4 DEF QueuedAtMostOnce
<1>10. ProjectsMade'
  <2>1. /\ project' = project /\ req[q].op # "project"
        /\ \A o \in Requests :
             /\ req'[o].op = req[o].op /\ req'[o].project = req[o].project
             /\ o # q => req'[o].pc = req[o].pc
    BY <1>1, <1>8
  <2> QED
    BY <2>1 DEF IInv, ProjectsMade
<1> QED
  BY <1>5, <1>6, <1>7, <1>9, <1>10 DEF IInv

(* The task of a new run is queued, by the one request that made the run. *)
LEMMA QueueRunIInv ==
  ASSUME IInv, NEW q \in Requests, QueueRun(q)
  PROVE  IInv'
<1> DEFINE new == Idle(req[q].project)
<1> DEFINE r == req[q].run
<1>1. new \in Request /\ new.op = "none" /\ new.pc = "idle"
  BY BoundsAssumption DEF IInv, TypeOK, Request, Idle, Keys
<1>2. req' = [req EXCEPT ![q] = new]
  BY DEF QueueRun, Done
<1>3. /\ r \in 1..MaxRuns /\ queued[r] = 0
      /\ queued' = [queued EXCEPT ![r] = @ + 1]
  BY BoundsAssumption DEF IInv, TypeOK, KeysUnique, QueuedAtMostOnce, QueueRun
<1>4. r \in DOMAIN runs
  BY DEF IInv, QueuedAtMostOnce, QueueRun
<1>5. \A o \in Requests : req[o].pc = "queue" /\ o # q => req[o].run # r
  BY DEF IInv, QueuedAtMostOnce, QueueRun
<1> HIDE DEF new
<1>6. TypeOK'
  BY <1>1, <1>2, <1>3 DEF IInv, TypeOK, QueueRun
<1>7. KeysUnique' /\ AnswersTrue'
  BY DEF IInv, KeysUnique, AnswersTrue, QueueRun
<1>8. QueuedAtMostOnce'
  <2>1. \A x \in 1..MaxRuns : queued'[x] = IF x = r THEN 1 ELSE queued[x]
    BY <1>3 DEF IInv, TypeOK
  <2>2. \A o \in Requests : req'[o] = IF o = q THEN new ELSE req[o]
    BY <1>2 DEF IInv, TypeOK
  <2>3. runs' = runs
    BY DEF QueueRun
  <2>4. \A x \in 1..MaxRuns : queued'[x] <= 1 /\ (x \notin DOMAIN runs' => queued'[x] = 0)
    BY <1>4, <2>1, <2>3 DEF IInv, QueuedAtMostOnce
  <2>5. \A o \in Requests : req[o].pc = "queue" => req[o].run \in 1..MaxRuns
    BY BoundsAssumption DEF IInv, TypeOK, KeysUnique, QueuedAtMostOnce
  <2> QED
    BY <1>1, <1>5, <2>1, <2>2, <2>3, <2>4, <2>5 DEF IInv, QueuedAtMostOnce
<1>9. ProjectsMade'
  BY <1>1, <1>2 DEF IInv, TypeOK, ProjectsMade, QueueRun
<1> QED
  BY <1>6, <1>7, <1>8, <1>9 DEF IInv

(* A deletion: of a project that was open once. *)
LEMMA CommitDeleteIInv ==
  ASSUME IInv, NEW q \in Requests, CommitDelete(q)
  PROVE  IInv'
<1> DEFINE p == req[q].project
<1> DEFINE new == Idle(p)
<1>1. new \in Request /\ new.op = "none" /\ new.pc = "idle"
  BY BoundsAssumption DEF IInv, TypeOK, Request, Idle, Keys
<1>2. req' = [req EXCEPT ![q] = new]
  BY DEF CommitDelete, Done
<1>3. /\ p \in Project /\ project' = [project EXCEPT ![p] = "deleted"]
      /\ project[p] # "absent"
  BY DEF IInv, TypeOK, Request, ProjectsMade, CommitDelete
<1> HIDE DEF new
<1>4. TypeOK'
  BY <1>1, <1>2, <1>3 DEF IInv, TypeOK, CommitDelete
<1>5. KeysUnique' /\ AnswersTrue'
  BY DEF IInv, KeysUnique, AnswersTrue, CommitDelete
<1>6. QueuedAtMostOnce'
  BY <1>1, <1>2 DEF IInv, TypeOK, QueuedAtMostOnce, CommitDelete
<1>7. ProjectsMade'
  <2>1. \A o \in Requests : req'[o] = IF o = q THEN new ELSE req[o]
    BY <1>2 DEF IInv, TypeOK
  <2>2. \A o \in Requests : req[o].op = "project"
          => project'[req[o].project] = project[req[o].project]
    BY <1>3 DEF IInv, TypeOK, Request, ProjectsMade
  <2>3. \A o \in Requests : project[req[o].project] # "absent"
                            => project'[req[o].project] # "absent"
    BY <1>3 DEF IInv, TypeOK, Request
  <2> QED
    BY <1>1, <2>1, <2>2, <2>3 DEF IInv, ProjectsMade
<1> QED
  BY <1>4, <1>5, <1>6, <1>7 DEF IInv

(* A run ends, or goes on: its key and its project stay.                        *)
LEMMA StatusKeeps ==
  ASSUME IInv, NEW r, NEW status \in RunStatus,
         runs' = [runs EXCEPT ![r].status = status]
  PROVE  /\ runs' \in Seq([project : Project, key : Keys, status : RunStatus])
         /\ Len(runs') = Len(runs) /\ DOMAIN runs' = DOMAIN runs
         /\ \A x \in DOMAIN runs : /\ runs'[x].key = runs[x].key
                                   /\ runs'[x].project = runs[x].project
<1> DEFINE Run == [project : Project, key : Keys, status : RunStatus]
           new == [runs[r] EXCEPT !.status = status]
<1>1. runs \in Seq(Run)
  BY DEF IInv, TypeOK
<1>2. runs' = [runs EXCEPT ![r] = new]
  OBVIOUS
<1>3. CASE r \in DOMAIN runs
  <2>1. runs[r] \in Run
    <3> HIDE DEF Run
    <3> QED
      BY <1>1, <1>3
  <2>2. new \in Run /\ new.key = runs[r].key /\ new.project = runs[r].project
    BY <2>1
  <2> HIDE DEF new, Run
  <2>3. /\ runs' \in Seq(Run) /\ Len(runs') = Len(runs) /\ DOMAIN runs' = DOMAIN runs
        /\ \A x \in DOMAIN runs : runs'[x] = IF x = r THEN new ELSE runs[x]
    BY <1>1, <1>2, <1>3, <2>2
  <2> QED
    BY <2>2, <2>3 DEF Run
<1>4. CASE r \notin DOMAIN runs
  <2> HIDE DEF new, Run
  <2>1. DOMAIN runs' = DOMAIN runs /\ \A x \in DOMAIN runs : runs'[x] = runs[x]
    BY <1>1, <1>2, <1>4
  <2>2. runs' = runs
    BY <1>1, <1>2, <1>4
  <2> QED
    BY <1>1, <2>2 DEF Run
<1> QED
  BY <1>3, <1>4

(* The columns of a run that IInv speaks of stay. *)
LEMMA RunKeptIInv ==
  ASSUME IInv, /\ runs' \in Seq([project : Project, key : Keys, status : RunStatus])
               /\ Len(runs') = Len(runs) /\ DOMAIN runs' = DOMAIN runs,
         \A x \in DOMAIN runs : /\ runs'[x].key = runs[x].key
                                /\ runs'[x].project = runs[x].project,
         answers' = answers
  PROVE  KeysUnique' /\ AnswersTrue'
BY DEF IInv, KeysUnique, AnswersTrue

(* A run ends. *)
LEMMA EndRunIInv ==
  ASSUME IInv, NEW r \in DOMAIN runs, EndRun(r)
  PROVE  IInv'
<1>1. /\ runs' \in Seq([project : Project, key : Keys, status : RunStatus])
      /\ Len(runs') = Len(runs) /\ DOMAIN runs' = DOMAIN runs
      /\ \A x \in DOMAIN runs : runs'[x].key = runs[x].key /\ runs'[x].project = runs[x].project
  BY StatusKeeps DEF EndRun
<1>2. TypeOK'
  BY <1>1 DEF IInv, TypeOK, EndRun
<1>3. KeysUnique' /\ AnswersTrue'
  BY <1>1, RunKeptIInv DEF EndRun
<1>4. QueuedAtMostOnce' /\ ProjectsMade'
  BY <1>1 DEF IInv, QueuedAtMostOnce, ProjectsMade, EndRun
<1> QED
  BY <1>2, <1>3, <1>4 DEF IInv

(* A failed run goes on. *)
LEMMA CommitRetryIInv ==
  ASSUME IInv, NEW q \in Requests, CommitRetry(q)
  PROVE  IInv'
<1> DEFINE new == Idle(req[q].project)
<1>0. new \in Request /\ new.op = "none" /\ new.pc = "idle"
  BY BoundsAssumption DEF IInv, TypeOK, Request, Idle, Keys
<1>1. /\ runs' \in Seq([project : Project, key : Keys, status : RunStatus])
      /\ Len(runs') = Len(runs) /\ DOMAIN runs' = DOMAIN runs
      /\ \A x \in DOMAIN runs : runs'[x].key = runs[x].key /\ runs'[x].project = runs[x].project
  BY StatusKeeps DEF CommitRetry, RunStatus
<1>2. req' = [req EXCEPT ![q] = new] /\ project' = project
      /\ UNCHANGED <<owner, queued, answers, faults>>
  BY DEF CommitRetry, Done, Touch
<1> HIDE DEF new
<1>3. TypeOK'
  BY <1>0, <1>1, <1>2 DEF IInv, TypeOK
<1>4. KeysUnique' /\ AnswersTrue'
  BY <1>1, <1>2, RunKeptIInv
<1>5. QueuedAtMostOnce' /\ ProjectsMade'
  BY <1>0, <1>1, <1>2 DEF IInv, TypeOK, QueuedAtMostOnce, ProjectsMade
<1> QED
  BY <1>3, <1>4, <1>5 DEF IInv

-----------------------------------------------------------------------------

(* Every request a client sends keeps the invariant. *)
LEMMA SendIInv ==
  ASSUME IInv, NEW q \in Requests, NEW p \in Project, Send(q, p)
  PROVE  IInv'
<1>0. NoKey \in Keys /\ 0 \in 0..MaxRuns
  BY BoundsAssumption DEF Keys
<1>1. CASE BeginProject(q, p)
  <2>1. Begin(q, "project", p, NoKey, "commit", 0) /\ "project" \in Operations
    BY <1>1 DEF BeginProject, Begin
  <2> QED
    BY <1>0, <1>1, <2>1, BeginIInv DEF BeginProject
<1>2. CASE BeginRestart(q, p)
  <2>1. Begin(q, "restart", p, NoKey, "commit", 0) /\ "restart" \in Operations
    BY <1>2 DEF BeginRestart, Begin
  <2> QED
    BY <1>0, <1>2, <2>1, BeginIInv DEF BeginRestart
<1>3. CASE BeginUpdate(q, p)
  <2>1. Begin(q, "update", p, NoKey, "commit", 0) /\ "update" \in Operations
    BY <1>3 DEF BeginUpdate, Begin
  <2> QED
    BY <1>0, <1>3, <2>1, BeginIInv DEF BeginUpdate
<1>4. CASE BeginDelete(q, p)
  <2>1. Begin(q, "delete", p, NoKey, "commit", 0) /\ "delete" \in Operations
    BY <1>4 DEF BeginDelete, Begin
  <2> QED
    BY <1>0, <1>4, <2>1, BeginIInv DEF BeginDelete
<1>5. ASSUME NEW k \in Keys, BeginRun(q, p, k) PROVE IInv'
  <2>1. Begin(q, "run", p, k, "key", 0) /\ "run" \in Operations
    BY <1>5 DEF BeginRun, Begin
  <2> QED
    BY <1>0, <1>5, <2>1, BeginIInv DEF BeginRun
<1>6. ASSUME NEW k \in Keys, BeginReplay(q, p, k) PROVE IInv'
  <2>1. Begin(q, "replay", p, k, "commit", 0) /\ "replay" \in Operations
    BY <1>6 DEF BeginReplay, Begin
  <2> QED
    BY <1>0, <1>6, <2>1, BeginIInv DEF BeginReplay
<1>7. CASE BeginRetry(q, p)
  <2>1. PICK r \in Latest(p) : Begin(q, "retry", p, NoKey, "commit", r)
    BY <1>7 DEF BeginRetry
  <2>2. r \in DOMAIN runs /\ DOMAIN runs = 1..Len(runs) /\ Len(runs) \in Nat
    BY DEF Latest, RunsOf, IInv, TypeOK
  <2>3. r \in 0..MaxRuns
    BY <2>2, BoundsAssumption DEF IInv, KeysUnique
  <2>4. "retry" \in Operations
    BY <2>1 DEF Begin
  <2> QED
    BY <1>0, <1>7, <2>1, <2>3, <2>4, BeginIInv DEF BeginRetry
<1> QED
  BY <1>1, <1>2, <1>3, <1>4, <1>5, <1>6, <1>7 DEF Send

(* An error status changes nothing but the request. *)
LEMMA RefusedIInv ==
  ASSUME IInv, NEW q \in Requests, Refuse(q)
  PROVE  IInv'
BY RefuseIInv DEF Refuse, IInv, TypeOK

(* Every step that serves a request keeps the invariant. *)
LEMMA ServeIInv ==
  ASSUME IInv, NEW q \in Requests, Serve(q)
  PROVE  IInv'
<1>1. CASE CommitProject(q)
  BY <1>1, CommitProjectIInv
<1>2. CASE OwnerExists(q)
  BY <1>2, RefusedIInv DEF OwnerExists
<1>3. CASE LookForKey(q)
  <2>1. req[q].op # "project"
    BY <1>3 DEF LookForKey, IInv, ProjectsMade
  <2>2. ASSUME NEW pc \in {"commit", "other"}, req' = [req EXCEPT ![q].pc = pc],
               UNCHANGED <<owner, project, runs, queued, answers, faults>>
        PROVE  IInv'
    BY <2>1, <2>2, GoOnIInv
  <2>3. ASSUME NEW r \in Holders(req[q].key), runs[r].project = req[q].project,
               AnswerExisting(q, r)
        PROVE  IInv'
    BY <2>3, AnswerIInv DEF Holders
  <2> QED
    BY <1>3, <2>2, <2>3 DEF LookForKey
<1>4. CASE CommitRun(q)
  BY <1>4, CommitRunIInv
<1>5. CASE QueueRun(q)
  BY <1>5, QueueRunIInv
<1>6. CASE KeyTaken(q)
  <2>1. CASE req[q].op = "replay"
    BY <1>6, <2>1, RefusedIInv DEF KeyTaken
  <2>2. CASE req[q].op # "replay"
    BY <1>6, <2>2, GoOnIInv DEF KeyTaken
  <2> QED
    BY <2>1, <2>2
<1>7. CASE LookAgain(q)
  <2>1. PICK r \in Holders(req[q].key) :
          IF runs[r].project = req[q].project THEN AnswerExisting(q, r) ELSE Refuse(q)
    BY <1>7 DEF LookAgain, Found
  <2>2. r \in DOMAIN runs /\ runs[r].key = req[q].key
    BY DEF Holders
  <2>3. CASE runs[r].project = req[q].project
    BY <2>1, <2>2, <2>3, AnswerIInv
  <2>4. CASE runs[r].project # req[q].project
    BY <2>1, <2>4, RefusedIInv
  <2> QED
    BY <2>3, <2>4
<1>8. CASE CommitUpdate(q)
  <2>1. Done(q) /\ UNCHANGED <<owner, project, runs, queued, answers>> /\ faults' = faults
    BY <1>8 DEF CommitUpdate, Touch
  <2> QED
    BY <2>1, RefuseIInv DEF IInv, TypeOK
<1>9. CASE CommitDelete(q)
  BY <1>9, CommitDeleteIInv
<1>10. CASE LookElsewhere(q)
  <2>1. req[q].op # "project"
    BY <1>10 DEF LookElsewhere, IInv, ProjectsMade
  <2>2. CASE Refuse(q)
    BY <2>2, RefusedIInv
  <2>3. CASE /\ req' = [req EXCEPT ![q].pc = "commit"]
             /\ UNCHANGED <<owner, project, runs, queued, answers, faults>>
    BY <2>1, <2>3, GoOnIInv
  <2> QED
    BY <1>10, <2>2, <2>3 DEF LookElsewhere
<1>11. CASE CommitRetry(q)
  BY <1>11, CommitRetryIInv
<1> QED
  BY <1>1, <1>2, <1>3, <1>4, <1>5, <1>6, <1>7, <1>8, <1>9, <1>10, <1>11 DEF Serve

(* Every step keeps the invariant. *)
LEMMA NextIInv == IInv /\ [Next]_vars => IInv'
<1> SUFFICES ASSUME IInv, [Next]_vars PROVE IInv'
  OBVIOUS
<1>1. CASE \E q \in Requests : Serve(q)
  BY <1>1, ServeIInv
<1>2. CASE \E q \in Requests : \E p \in Project : Send(q, p)
  BY <1>2, SendIInv
<1>3. CASE \E r \in DOMAIN runs : EndRun(r)
  BY <1>3, EndRunIInv
<1>4. CASE Crash
  <2>1. PICK q \in Requests : Done(q)
    BY <1>4 DEF Crash
  <2>2. faults' \in 0..MaxFaults
    BY <1>4, BoundsAssumption DEF Crash, IInv, TypeOK
  <2> QED
    BY <1>4, <2>1, <2>2, RefuseIInv DEF Crash
<1>5. CASE UNCHANGED vars
  BY <1>5 DEF vars, IInv, TypeOK, KeysUnique, AnswersTrue, QueuedAtMostOnce, ProjectsMade
<1> QED
  BY <1>1, <1>2, <1>3, <1>4, <1>5 DEF Next

(* The invariant holds in every reachable state. *)
LEMMA IInvHolds == Spec => []IInv
<1>1. Init => IInv
  BY InitIInv
<1>2. IInv /\ [Next]_vars => IInv'
  BY NextIInv
<1> QED
  BY <1>1, <1>2, PTL DEF Spec

(* Every variable of the projects and their runs keeps its type. *)
THEOREM ProjectsTyped == Spec => []TypeOK
<1>1. IInv => TypeOK
  BY DEF IInv
<1> QED
  BY <1>1, IInvHolds, PTL

(* Requests that carry one key are answered with one run, of the project they *)
(* asked for, however many race for it (routes/runs.py:605).                  *)
THEOREM OneRunPerKey == Spec => []SameAnswer
<1>1. IInv => SameAnswer
  BY DEF IInv, TypeOK, KeysUnique, AnswersTrue, SameAnswer
<1> QED
  BY <1>1, IInvHolds, PTL

(* No request starts a run a second time (routes/runs.py:617). *)
THEOREM RunsStartedOnce == Spec => []StartedOnce
<1>1. IInv => StartedOnce
  BY DEF IInv, QueuedAtMostOnce, StartedOnce
<1> QED
  BY <1>1, IInvHolds, PTL

(* No step makes a deleted project anything else. *)
LEMMA StaysDeleted ==
  ASSUME IInv, [Next]_vars, NEW p \in Project, project[p] = "deleted"
  PROVE  project'[p] = "deleted"
<1>1. CASE \E q \in Requests : CommitProject(q)
  BY <1>1 DEF IInv, TypeOK, Request, ProjectsMade, CommitProject
<1>2. CASE \E q \in Requests : CommitDelete(q)
  BY <1>2 DEF IInv, TypeOK, Request, CommitDelete
<1>3. CASE project' = project
  BY <1>3
<1>4. ASSUME NEW q \in Requests, Serve(q), ~CommitProject(q), ~CommitDelete(q)
      PROVE  project' = project
  BY <1>4 DEF Serve, OwnerExists, LookForKey, LookElsewhere, CommitRun, CommitRetry, QueueRun, KeyTaken, LookAgain,
              CommitUpdate, Touch, Refuse, AnswerExisting
<1>5. ASSUME NEW q \in Requests, NEW o \in Project, Send(q, o)
      PROVE  project' = project
  BY <1>5 DEF Send, BeginProject, BeginRestart, BeginUpdate, BeginDelete, BeginRun,
              BeginReplay, BeginRetry, Begin
<1> QED
  BY <1>1, <1>2, <1>3, <1>4, <1>5 DEF Next, EndRun, Crash, vars

(* What is committed after a deletion does not undo it (routes/projects.py:190). *)
THEOREM DeletionsFinal == Spec => DeletionFinal
<1>1. IInv /\ [Next]_vars =>
        [\A p \in Project : project[p] = "deleted" => project'[p] = "deleted"]_vars
  BY StaysDeleted
<1> QED
  BY <1>1, IInvHolds, PTL DEF Spec, DeletionFinal

(* A request of no use to a deleted project: it is served for the project it    *)
(* has, or begins for one that is not deleted.                                  *)
LEMMA RequestsMove ==
  ASSUME IInv, [Next]_vars, NEW p \in Project, project[p] = "deleted", NEW q \in Requests
  PROVE  \/ req'[q] = req[q]
         \/ req[q].pc # "idle" /\ req'[q].project = req[q].project
         \/ req'[q].project # p
<1>1. \A o \in Requests : Idle(req[o].project).project = req[o].project
  BY DEF Idle
<1>2. ASSUME NEW o \in Requests, Done(o), req[o].pc # "idle"
      PROVE  \/ req'[q] = req[q]
             \/ req[q].pc # "idle" /\ req'[q].project = req[q].project
  <2>1. req' = [req EXCEPT ![o] = Idle(req[o].project)]
    BY <1>2 DEF Done
  <2> QED
    BY <1>1, <1>2, <2>1 DEF IInv, TypeOK
<1>3. ASSUME NEW o \in Requests, Serve(o), ~Done(o)
      PROVE  \/ req'[q] = req[q]
             \/ req[q].pc # "idle" /\ req'[q].project = req[q].project
  BY <1>3 DEF Serve, CommitProject, OwnerExists, LookForKey, LookElsewhere, CommitRun, CommitRetry, QueueRun, KeyTaken,
              LookAgain, CommitUpdate, CommitDelete, Refuse, AnswerExisting, IInv, TypeOK,
              Request
<1>4. ASSUME NEW o \in Requests, Serve(o) PROVE req[o].pc # "idle"
  BY <1>4 DEF Serve, CommitProject, OwnerExists, LookForKey, LookElsewhere, CommitRun, CommitRetry, QueueRun, KeyTaken,
              LookAgain, CommitUpdate, CommitDelete
<1>5. ASSUME NEW o \in Requests, NEW x \in Project, Send(o, x)
      PROVE  req'[q] = req[q] \/ req'[q].project # p
  <2>1. x # p
    BY <1>5 DEF Send, BeginProject, BeginRestart, BeginUpdate, BeginDelete, BeginRun,
                BeginReplay, BeginRetry
  <2>2. PICK op, k, pc, run : Begin(o, op, x, k, pc, run)
    BY <1>5 DEF Send, BeginProject, BeginRestart, BeginUpdate, BeginDelete, BeginRun,
                BeginReplay, BeginRetry
  <2> DEFINE new == [op |-> op, project |-> x, key |-> k, owned |-> owner, pc |-> pc, run |-> run]
  <2>3. req' = [req EXCEPT ![o] = new] /\ new.project = x
    BY <2>2 DEF Begin
  <2> HIDE DEF new
  <2> QED
    BY <2>1, <2>3 DEF IInv, TypeOK
<1>6. CASE \E r \in DOMAIN runs : EndRun(r)
  BY <1>6 DEF EndRun
<1>7. CASE Crash
  BY <1>2, <1>7 DEF Crash
<1>8. CASE UNCHANGED vars
  BY <1>8 DEF vars
<1> QED
  BY <1>2, <1>3, <1>4, <1>5, <1>6, <1>7, <1>8 DEF Next

(* The runs of a project change when a request of it commits one. *)
LEMMA RunsMove ==
  ASSUME IInv, [Next]_vars, NEW p \in Project,
         \A q \in Requests : req[q].project = p => req[q].pc = "idle"
  PROVE  RunsOf(p)' = RunsOf(p)
<1>1. runs' = runs => RunsOf(p)' = RunsOf(p)
  BY DEF RunsOf
<1>2. ASSUME NEW q \in Requests, CommitRun(q) PROVE RunsOf(p)' = RunsOf(p)
  <2> DEFINE new == [project |-> req[q].project, key |-> req[q].key, status |-> "active"]
  <2>1. runs' = Append(runs, new) /\ new.project # p
    BY <1>2 DEF CommitRun
  <2> HIDE DEF new
  <2>2. /\ Len(runs) \in Nat /\ DOMAIN runs = 1..Len(runs)
        /\ DOMAIN runs' = 1..Len(runs) + 1 /\ runs'[Len(runs) + 1] = new
        /\ \A r \in DOMAIN runs : runs'[r] = runs[r]
    BY <2>1 DEF IInv, TypeOK
  <2>3. \A r \in DOMAIN runs' : r \in DOMAIN runs \/ r = Len(runs) + 1
    BY <2>2
  <2>4. \A r \in DOMAIN runs : r \in DOMAIN runs'
    BY <2>2
  <2> QED
    BY <2>1, <2>2, <2>3, <2>4 DEF RunsOf
<1>3. ASSUME NEW r, NEW status \in RunStatus, runs' = [runs EXCEPT ![r].status = status]
      PROVE  RunsOf(p)' = RunsOf(p)
  BY <1>3, StatusKeeps DEF RunsOf
<1>6. ASSUME NEW r \in DOMAIN runs, EndRun(r) PROVE RunsOf(p)' = RunsOf(p)
  BY <1>3, <1>6 DEF EndRun
<1>7. ASSUME NEW q \in Requests, CommitRetry(q) PROVE RunsOf(p)' = RunsOf(p)
  BY <1>3, <1>7 DEF CommitRetry, RunStatus
<1>4. ASSUME NEW q \in Requests, Serve(q), ~CommitRun(q), ~CommitRetry(q) PROVE runs' = runs
  BY <1>4 DEF Serve, CommitProject, OwnerExists, LookForKey, LookElsewhere, QueueRun, KeyTaken, LookAgain,
              CommitUpdate, CommitDelete, Refuse, AnswerExisting
<1>5. ASSUME NEW q \in Requests, NEW o \in Project, Send(q, o) PROVE runs' = runs
  BY <1>5 DEF Send, BeginProject, BeginRestart, BeginUpdate, BeginDelete, BeginRun,
              BeginReplay, BeginRetry, Begin
<1> QED
  BY <1>1, <1>2, <1>4, <1>5, <1>6, <1>7 DEF Next, Crash, vars

(* A project that is deleted, and whose requests are through, gets no more      *)
(* runs (routes/projects.py:176, routes/runs.py:377).                           *)
THEOREM DeletionsSettle == Spec => DeletionSettles
<1>1. IInv /\ [Next]_vars =>
        [\A p \in Project : Over(p) => Over(p)' /\ RunsOf(p)' = RunsOf(p)]_vars
  <2> SUFFICES ASSUME IInv, [Next]_vars, NEW p \in Project, Over(p)
               PROVE  Over(p)' /\ RunsOf(p)' = RunsOf(p)
    OBVIOUS
  <2>1. project[p] = "deleted" /\ \A q \in Requests : req[q].project = p => req[q].pc = "idle"
    BY DEF Over
  <2>2. \A q \in Requests : req'[q].project = p => req'[q].pc = "idle"
    BY <2>1, RequestsMove
  <2> QED
    BY <2>1, <2>2, StaysDeleted, RunsMove DEF Over
<1> QED
  BY <1>1, IInvHolds, PTL DEF Spec, DeletionSettles

=============================================================================
