-------------------------- MODULE DeploymentProofs --------------------------
(***************************************************************************)
(* Proofs about Deployment, for any number of runs, requests, polls and    *)
(* faults: what the live URL, the status and the records say is so.        *)
(***************************************************************************)
EXTENDS Deployment, FiniteSetTheorems, WellFoundedInduction, TLAPS

(***************************************************************************)
(* The inductive invariant.                                                *)
(***************************************************************************)

(* The runs are numbered from 1 on. *)
Begun == \E n \in Run : \A r \in Run : node[r] = "none" <=> r > n

(* Every invocation has room for the record and the deployment it may make. *)
Active == {r \in Run : task[r].pc # "idle"}
Undeployed == {r \in Run : task[r].pc \in {"lookup", "create", "deploy"}}

RoomLeft == /\ Len(records) + Cardinality(Active) <= MaxRecords
            /\ Len(deployments) + Cardinality(Undeployed) <= MaxDeployments

(* An invocation of an approved run at DeployProduction waits for its own    *)
(* deployment, and finds it healthy when it is: nothing else moves the run.  *)
TaskTrue(r, t) ==
  /\ t.pc # "idle" => /\ node[r] = "DeployProduction" /\ r \in approvals
                      /\ reports[r] # {"passed"}
  /\ t.pc \in {"poll", "ended", "healthy"} =>
       t.deployment \in DOMAIN deployments /\ deployments[t.deployment].by = r
  /\ t.pc = "healthy" => /\ deployments[t.deployment].state = "READY"
                         /\ deployments[t.deployment].healthy

TasksTrue == \A r \in Run : TaskTrue(r, task[r])

(* A passed report has a live URL, and a record of success a passed report. *)
Reported ==
  /\ \A r \in Run : "passed" \in reports[r] => live # 0
  /\ \A i \in DOMAIN records : records[i].status = "success" => "passed" \in reports[records[i].run]

(* DeployedOnce, without its Cardinality. *)
SuccessOnce ==
  \A i, j \in DOMAIN records :
    /\ records[i].status = "success" /\ records[j].status = "success"
    /\ records[i].run = records[j].run /\ "failure" \notin reports[records[i].run]
    => i = j

ReqsTrue == \A q \in Requests : req[q].run # 0 => node[req[q].run] # "none"

LiveMade == live <= Len(deployments)

IInv == /\ TypeOK /\ Begun /\ RoomLeft /\ TasksTrue /\ Reported /\ SuccessOnce
        /\ ReqsTrue /\ LiveMade /\ LiveTrue /\ DeployedShown

-----------------------------------------------------------------------------
(* Positions, cardinalities, constants. *)

Below == OpToRel(<, Nat)

(* Among the positions up to n, Max finds the last one. *)
LEMMA LastOne ==
  ASSUME NEW n \in Nat, NEW S, S \subseteq 1..n, S # {}
  PROVE  Max(S) \in S
<1> DEFINE T == {n - i : i \in S}
<1>1. \A i \in S : i \in Nat /\ i <= n /\ n - i \in Nat
  OBVIOUS
<1>2. T \subseteq Nat /\ T # {}
  BY <1>1
<1> HIDE DEF T
<1>3. IsWellFoundedOn(Below, Nat)
  BY NatLessThanWellFounded DEF Below
<1>4. PICK t \in T : \A u \in T : ~ (<<u, t>> \in Below)
  BY <1>2, <1>3, WFMin
<1>5. PICK m \in S : t = n - m
  BY DEF T
<1>6. ASSUME NEW j \in S PROVE m >= j
  <2>1. n - j \in T
    BY DEF T
  <2>2. n - j < t => <<n - j, t>> \in Below
    BY <1>2, <1>4, <2>1 DEF Below, OpToRel
  <2>3. n - j >= t
    BY <1>1, <1>2, <1>4, <2>1, <2>2
  <2> QED
    BY <1>1, <1>5, <2>3
<1> QED
  BY <1>6 DEF Max

(* At most one member: any two of them are the same. *)
LEMMA AtMostOne ==
  ASSUME NEW n \in Nat, NEW S, S \subseteq 1..n, \A i, j \in S : i = j
  PROVE  Cardinality(S) <= 1
<1>1. CASE S = {}
  BY <1>1, FS_EmptySet
<1>2. CASE S # {}
  <2>1. PICK i \in S : TRUE
    BY <1>2
  <2>2. S = {i}
    BY <2>1
  <2> QED
    BY <2>2, FS_Singleton
<1> QED
  BY <1>1, <1>2

(* The members of a set of runs are counted. *)
LEMMA Counted ==
  ASSUME NEW S, S \subseteq Run
  PROVE  /\ IsFiniteSet(S) /\ Cardinality(S) \in Nat
         /\ \A r : Cardinality(S \cup {r}) <= Cardinality(S) + 1
         /\ \A r \in S : Cardinality(S) > Cardinality(S \ {r})
         /\ \A T \in SUBSET S : Cardinality(T) <= Cardinality(S)
<1>1. IsFiniteSet(Run)
  BY BoundsAssumption, FS_Interval DEF Run
<1>2. IsFiniteSet(S)
  BY <1>1, FS_Subset
<1>3. Cardinality(S) \in Nat
  BY <1>2, FS_CardinalityType
<1>4. ASSUME NEW r PROVE Cardinality(S \cup {r}) <= Cardinality(S) + 1
  <2> DEFINE c == Cardinality(S \cup {r})
             d == Cardinality(S)
  <2>1. c = IF r \in S THEN d ELSE d + 1
    BY <1>2, FS_AddElement
  <2>2. d \in Nat
    BY <1>3
  <2> HIDE DEF c, d
  <2>3. c <= d + 1
    BY <2>1, <2>2
  <2> QED
    BY <2>3 DEF c, d
<1>5. ASSUME NEW r \in S PROVE Cardinality(S) > Cardinality(S \ {r})
  <2>1. Cardinality(S \ {r}) = Cardinality(S) - 1
    BY <1>2, FS_RemoveElement
  <2> QED
    BY <1>3, <2>1
<1>6. \A T \in SUBSET S : Cardinality(T) <= Cardinality(S)
  BY <1>2, FS_Subset
<1> QED
  BY <1>2, <1>3, <1>4, <1>5, <1>6

(* What the constants are. *)
LEMMA Constants ==
  /\ MaxRun \in Nat /\ MaxRun # 0 /\ MaxPolls \in Nat /\ MaxDeployments \in Nat
  /\ MaxRecords \in Nat /\ MaxFaults \in Nat
  /\ Run \subseteq Nat /\ 0 \notin Run /\ 1 \in Run
  /\ 0 \in Url /\ 0 \in 0..MaxRun /\ 0 \in 0..MaxRecords /\ 0 \in 0..MaxPolls
BY BoundsAssumption DEF Run, Url

(* The latest run is the last there is. *)
LEMMA LatestRun ==
  ASSUME Begun
  PROVE  Latest \in Run /\ node[Latest] # "none" /\ \A q \in Run : q > Latest => node[q] = "none"
<1>1. PICK n \in Run : \A r \in Run : node[r] = "none" <=> r > n
  BY DEF Begun
<1>2. node[n] # "none" /\ \A q \in Run : q > n => node[q] = "none"
  BY <1>1, Constants
<1> QED
  BY <1>2 DEF Latest

-----------------------------------------------------------------------------
(* The initial states. *)

Task == [pc : Calls \cup {"idle", "ended", "healthy", "failing"},
         deployment : Url, left : 0..MaxPolls]
Record == [run : Run, status : {"queued", "success", "failed"}, url : Url]
Deployed == [by : Run, healthy : BOOLEAN, state : {"BUILDING", "READY", "ERROR", "CANCELED"}]
Statuses == {"deploy_ready", "deploying", "deployed", "failed"}
Req == [run : 0..MaxRun, row : 0..MaxRecords, node : Node \cup {"none"}]

(* The system starts in the invariant. *)
LEMMA InitIInv == Init => IInv
<1> SUFFICES ASSUME Init PROVE IInv
  OBVIOUS
<1>1. \A r \in Run : task[r] = NoTask
  BY DEF Init
<1>2. \A r \in Run : task[r].pc = "idle"
  BY <1>1 DEF NoTask
<1>3. TypeOK
  <2>1. NoTask \in Task /\ NoRequest \in Req
    BY Constants DEF NoTask, NoRequest, Task, Req, Node
  <2>2. task \in [Run -> Task] /\ req \in [Requests -> Req]
    BY <2>1 DEF Init
  <2>3. node \in [Run -> Node \cup {"none"}]
    BY DEF Init, Node
  <2>4. reports \in [Run -> SUBSET {"passed", "failure"}] /\ approvals \subseteq Run
    BY DEF Init
  <2>5. faults \in 0..MaxFaults /\ status \in Statuses /\ live \in Url
    BY Constants DEF Init, Statuses
  <2>7. vproject \in BOOLEAN
    BY DEF Init
  <2>6. records \in Seq(Record) /\ deployments \in Seq(Deployed)
    BY DEF Init
  <2> QED
    BY <2>2, <2>3, <2>4, <2>5, <2>6, <2>7 DEF TypeOK, Task, Req, Record, Deployed, Statuses
<1>4. Begun
  BY Constants DEF Init, Begun, Run
<1>5. RoomLeft
  <2>1. Active = {} /\ Undeployed = {}
    BY <1>2 DEF Active, Undeployed
  <2> QED
    BY <2>1, Constants, FS_EmptySet DEF Init, RoomLeft
<1>6. TasksTrue
  BY <1>2 DEF TasksTrue, TaskTrue
<1>7. Reported /\ SuccessOnce
  BY DEF Init, Reported, SuccessOnce
<1>8. ReqsTrue
  BY DEF Init, ReqsTrue, NoRequest
<1>9. LiveMade /\ LiveTrue /\ DeployedShown
  BY DEF Init, LiveMade, LiveTrue, DeployedShown
<1> QED
  BY <1>3, <1>4, <1>5, <1>6, <1>7, <1>8, <1>9 DEF IInv

-----------------------------------------------------------------------------
(* What the steps share. *)

(* A record is of a run. *)
LEMMA RecordRuns ==
  ASSUME IInv, NEW i \in DOMAIN records
  PROVE  records[i].run \in Run
<1>1. records \in Seq(Record)
  BY DEF IInv, TypeOK, Record
<1>2. records[i] \in Record
  BY <1>1
<1> QED
  BY <1>2 DEF Record

(* Calls that end leave room for what the others may still add. *)
LEMMA FewerTasks ==
  ASSUME IInv, Active' \subseteq Active, Undeployed' \subseteq Undeployed,
         Len(records') \in Nat, Len(deployments') \in Nat,
         \/ Len(records') <= Len(records)
         \/ Len(records') = Len(records) + 1 /\ ~ (Active \subseteq Active'),
         \/ Len(deployments') <= Len(deployments)
         \/ Len(deployments') = Len(deployments) + 1 /\ ~ (Undeployed \subseteq Undeployed')
  PROVE  RoomLeft'
<1>1. /\ Cardinality(Active) \in Nat /\ Cardinality(Undeployed) \in Nat
      /\ Cardinality(Active') \in Nat /\ Cardinality(Undeployed') \in Nat
      /\ Cardinality(Active') <= Cardinality(Active)
      /\ Cardinality(Undeployed') <= Cardinality(Undeployed)
  <2>1. Active \subseteq Run /\ Undeployed \subseteq Run
    BY DEF Active, Undeployed
  <2>2. Active' \subseteq Run /\ Undeployed' \subseteq Run
    BY <2>1
  <2> QED
    BY <2>1, <2>2, Counted
<1>2. ASSUME NEW S, S \subseteq Run, NEW T, T \subseteq S, ~ (S \subseteq T)
      PROVE  Cardinality(T) < Cardinality(S)
  <2>1. PICK r \in S : r \notin T
    BY <1>2
  <2>2. T \in SUBSET (S \ {r}) /\ S \ {r} \subseteq Run
    BY <1>2, <2>1
  <2>3. Cardinality(T) <= Cardinality(S \ {r})
    BY <2>2, Counted
  <2>4. Cardinality(S) > Cardinality(S \ {r})
    BY <1>2, <2>1, Counted
  <2>5. Cardinality(T) \in Nat /\ Cardinality(S) \in Nat /\ Cardinality(S \ {r}) \in Nat
    BY <1>2, <2>2, Counted
  <2> DEFINE u == Cardinality(S \ {r})
  <2>6. Cardinality(T) <= u /\ Cardinality(S) > u /\ u \in Nat
    BY <2>3, <2>4, <2>5
  <2> HIDE DEF u
  <2> QED
    BY <2>5, <2>6
<1>3. /\ ~ (Active \subseteq Active') => Cardinality(Active') < Cardinality(Active)
      /\ ~ (Undeployed \subseteq Undeployed') => Cardinality(Undeployed') < Cardinality(Undeployed)
  <2>1. Active \subseteq Run /\ Undeployed \subseteq Run
    BY DEF Active, Undeployed
  <2> QED
    BY <1>2, <2>1
<1>4. Len(records) \in Nat /\ Len(deployments) \in Nat
  BY DEF IInv, TypeOK
<1>5. /\ Len(records) + Cardinality(Active) <= MaxRecords
      /\ Len(deployments) + Cardinality(Undeployed) <= MaxDeployments
  BY DEF IInv, RoomLeft
<1>6. Len(records') + Cardinality(Active') <= MaxRecords
  BY <1>1, <1>3, <1>4, <1>5, Constants
<1>7. Len(deployments') + Cardinality(Undeployed') <= MaxDeployments
  BY <1>1, <1>3, <1>4, <1>5, Constants
<1> QED
  BY <1>6, <1>7 DEF RoomLeft

(* An invocation that goes on or ends, in the sets of those that are counted. *)
LEMMA TaskSets ==
  ASSUME IInv, NEW r \in Run, NEW t, task' = [task EXCEPT ![r] = t]
  PROVE  /\ task'[r] = t /\ \A x \in Run : x # r => task'[x] = task[x]
         /\ t.pc = "idle" => Active' = Active \ {r} /\ Undeployed' = Undeployed \ {r}
         /\ t.pc # "idle" => Active' = Active \cup {r}
         /\ t.pc \in {"lookup", "create", "deploy"} => Undeployed' = Undeployed \cup {r}
         /\ t.pc \notin {"lookup", "create", "deploy"} => Undeployed' = Undeployed \ {r}
<1>1. task'[r] = t /\ \A x \in Run : x # r => task'[x] = task[x]
  BY DEF IInv, TypeOK
<1>2. /\ Active' = {x \in Run : task'[x].pc # "idle"}
      /\ Undeployed' = {x \in Run : task'[x].pc \in {"lookup", "create", "deploy"}}
  BY DEF Active, Undeployed
<1> QED
  BY <1>1, <1>2 DEF Active, Undeployed

(* Deployments that are READY stay so, and so does who made them. *)
DeploymentsGrow ==
  /\ Len(deployments) <= Len(deployments')
  /\ \A d \in DOMAIN deployments :
       /\ deployments'[d].by = deployments[d].by
       /\ deployments[d].state = "READY" => deployments'[d].state = "READY"
       /\ deployments[d].healthy => deployments'[d].healthy

(* Records that say an outcome stay. *)
RecordsGrow ==
  /\ Len(records) <= Len(records')
  /\ \A i \in DOMAIN records : records[i].status # "queued" => records'[i] = records[i]

(* The live URL stays true. *)
LEMMA LiveKept ==
  ASSUME IInv, live' = live, approvals \subseteq approvals', DeploymentsGrow, RecordsGrow,
         records' \in Seq(Record), deployments' \in Seq(Deployed)
  PROVE  LiveMade' /\ LiveTrue'
<1>1. /\ Len(deployments) \in Nat /\ Len(deployments') \in Nat /\ live \in Nat
      /\ Len(records) \in Nat /\ Len(records') \in Nat
      /\ DOMAIN deployments = 1..Len(deployments)
      /\ DOMAIN records = 1..Len(records) /\ DOMAIN records' = 1..Len(records')
  BY Constants DEF IInv, TypeOK, Url
<1>2. LiveMade'
  BY <1>1 DEF IInv, LiveMade, DeploymentsGrow
<1>3. ASSUME live # 0
      PROVE  /\ deployments'[live].state = "READY" /\ deployments'[live].healthy
             /\ deployments'[live].by \in approvals'
             /\ \E i \in DOMAIN records' : records'[i] =
                  [run |-> deployments'[live].by, status |-> "success", url |-> live]
  <2>1. live \in DOMAIN deployments
    BY <1>1, <1>3 DEF IInv, LiveMade
  <2>2. /\ deployments[live].state = "READY" /\ deployments[live].healthy
        /\ deployments[live].by \in approvals
    BY <1>3 DEF IInv, LiveTrue
  <2>3. PICK i \in DOMAIN records : records[i] =
                  [run |-> deployments[live].by, status |-> "success", url |-> live]
    BY <1>3 DEF IInv, LiveTrue
  <2>4. i \in DOMAIN records'
    BY <1>1 DEF RecordsGrow
  <2>5. records'[i] = records[i]
    BY <2>3 DEF RecordsGrow
  <2> QED
    BY <2>1, <2>2, <2>3, <2>4, <2>5 DEF DeploymentsGrow
<1> QED
  BY <1>2, <1>3 DEF LiveTrue

(* A step of an invocation that changes itself only. *)
LEMMA TaskStep ==
  ASSUME IInv, NEW r \in Run, NEW t \in Task,
         task' = [task EXCEPT ![r] = t], t.pc # "idle", TaskTrue(r, t),
         task[r].pc # "idle",
         t.pc \in {"lookup", "create", "deploy"} => task[r].pc \in {"lookup", "create", "deploy"},
         UNCHANGED <<database, deployments, req, faults>>, vproject' \in BOOLEAN
  PROVE  IInv'
<1>1. /\ UNCHANGED <<node, status, approvals, records>>
      /\ UNCHANGED <<reports, live, deployments, req, faults>>
  BY DEF database
<1>2. TypeOK'
  <2>1. task' \in [Run -> Task]
    BY DEF IInv, TypeOK, Task
  <2> QED
    BY <1>1, <2>1 DEF IInv, TypeOK, Task
<1>3. RoomLeft'
  <2>1. Active' \subseteq Active /\ Undeployed' \subseteq Undeployed
    BY TaskSets DEF Active, Undeployed
  <2>2. Len(records) \in Nat /\ Len(deployments) \in Nat
    BY DEF IInv, TypeOK
  <2> QED
    BY <1>1, <2>1, <2>2, FewerTasks
<1>4. TasksTrue'
  <2>1. \A x \in Run : TaskTrue(x, task'[x])
    BY TaskSets DEF IInv, TasksTrue
  <2> QED
    BY <1>1, <2>1 DEF TasksTrue, TaskTrue
<1>5. Begun' /\ Reported' /\ SuccessOnce' /\ ReqsTrue' /\ DeployedShown'
  BY <1>1 DEF IInv, Begun, Reported, SuccessOnce, ReqsTrue, DeployedShown
<1>6. LiveMade' /\ LiveTrue'
  BY <1>1 DEF IInv, LiveMade, LiveTrue
<1> QED
  BY <1>2, <1>3, <1>4, <1>5, <1>6 DEF IInv

(* A run moves while nothing is under way for it. *)
LEMMA MoveStep ==
  ASSUME IInv, NEW r \in Run, NEW n \in Node, task[r].pc = "idle",
         node' = [node EXCEPT ![r] = n], Begun', status' \in Statuses,
         status' = "deployed" => live # 0,
         UNCHANGED <<approvals, records, reports, live, vercel, task, req, faults>>
  PROVE  IInv'
<1>1. UNCHANGED <<vproject, deployments>>
  BY DEF vercel
<1>2. TypeOK'
  <2>1. node' \in [Run -> Node \cup {"none"}]
    BY DEF IInv, TypeOK
  <2> QED
    BY <1>1, <2>1 DEF IInv, TypeOK, Statuses
<1>3. RoomLeft'
  BY <1>1 DEF IInv, RoomLeft, Active, Undeployed
<1>4. TasksTrue'
  <2>1. ASSUME NEW x \in Run PROVE TaskTrue(x, task[x])'
    <3>1. TaskTrue(x, task[x])
      BY DEF IInv, TasksTrue
    <3>2. x # r => node'[x] = node[x]
      BY DEF IInv, TypeOK
    <3> QED
      BY <1>1, <3>1, <3>2 DEF TaskTrue
  <2> QED
    BY <2>1 DEF TasksTrue
<1>5. Reported' /\ SuccessOnce' /\ DeployedShown'
  BY DEF IInv, Reported, SuccessOnce, DeployedShown
<1>6. ReqsTrue'
  <2>1. \A x \in Run : node'[x] = "none" => node[x] = "none"
    BY DEF IInv, TypeOK, Node
  <2>2. \A q \in Requests : req[q].run # 0 => req[q].run \in Run
    BY Constants DEF IInv, TypeOK, Run
  <2> QED
    BY <2>1, <2>2 DEF IInv, ReqsTrue
<1>7. LiveMade' /\ LiveTrue'
  BY <1>1 DEF IInv, LiveMade, LiveTrue
<1> QED
  BY <1>2, <1>3, <1>4, <1>5, <1>6, <1>7 DEF IInv

(* What the commit of the engine does to the project and to the runs. *)
LEMMA Commits ==
  ASSUME IInv, NEW r \in Run, NEW n \in Node, MoveTo(r, n), node[r] # "none"
  PROVE  /\ node' = [node EXCEPT ![r] = n] /\ Begun' /\ status' \in Statuses
         /\ status' = "deployed" => n = "EndSuccess" \/ status = "deployed"
<1>1. node' = [node EXCEPT ![r] = n] /\ node \in [Run -> Node \cup {"none"}]
  BY DEF MoveTo, IInv, TypeOK
<1>2. \A x \in Run : node'[x] = "none" <=> node[x] = "none"
  BY <1>1 DEF Node
<1>3. Begun'
  BY <1>2 DEF IInv, Begun
<1>4. status' = NODE_TO_PROJECT_STATUS[n] \/ status' = status
  BY DEF MoveTo
<1>5. /\ NODE_TO_PROJECT_STATUS[n] \in Statuses
      /\ NODE_TO_PROJECT_STATUS[n] = "deployed" => n = "EndSuccess"
  BY DEF NODE_TO_PROJECT_STATUS, Node, Statuses
<1>6. status \in Statuses
  BY DEF IInv, TypeOK, Statuses
<1> QED
  BY <1>1, <1>3, <1>4, <1>5, <1>6

-----------------------------------------------------------------------------
(* The gate and what comes before the calls. *)

(* Decisions, gates and skipped executions keep IInv. *)
LEMMA GateIInv ==
  ASSUME IInv, NEW r \in Run, Arrive(r) \/ Pass(r) \/ Park(r) \/ Skip(r) \/ Unapproved(r)
  PROVE  IInv'
<1>1. /\ node[r] # "none" /\ UNCHANGED <<approvals, records, reports, live, vercel, task, req, faults>>
  BY DEF Arrive, Pass, Park, Skip, Unapproved, AtNode
<1>2. task[r].pc = "idle"
  BY DEF Arrive, Pass, Park, Skip, Unapproved, AtNode, IInv, TasksTrue, TaskTrue
<1>3. PICK n \in Node : MoveTo(r, n) /\ (n = "EndSuccess" => Skip(r))
  BY DEF Arrive, Pass, Park, Skip, Unapproved, Node
<1>4. Skip(r) => live # 0
  BY DEF Skip, MaySkip, IInv, Reported
<1>5. status = "deployed" => live # 0
  BY DEF IInv, DeployedShown
<1> QED
  BY <1>1, <1>2, <1>3, <1>4, <1>5, Commits, MoveStep

(* Approve keeps IInv. *)
LEMMA ApproveIInv ==
  ASSUME IInv, Approve
  PROVE  IInv'
<1>1. /\ approvals' = approvals \cup {Latest} /\ status' = "deploying"
      /\ UNCHANGED <<node, records, reports, live, vproject, deployments, task, req, faults>>
      /\ Latest \in Run
  BY LatestRun DEF Approve, vercel, IInv
<1>2. TypeOK'
  BY <1>1 DEF IInv, TypeOK
<1>3. RoomLeft'
  BY <1>1 DEF IInv, RoomLeft, Active, Undeployed
<1>4. TasksTrue'
  BY <1>1 DEF IInv, TasksTrue, TaskTrue
<1>5. Begun' /\ Reported' /\ SuccessOnce' /\ ReqsTrue' /\ DeployedShown'
  BY <1>1 DEF IInv, Begun, Reported, SuccessOnce, ReqsTrue, DeployedShown
<1>6. LiveMade' /\ LiveTrue'
  BY <1>1 DEF IInv, LiveMade, LiveTrue
<1> QED
  BY <1>2, <1>3, <1>4, <1>5, <1>6 DEF IInv

(* Start keeps IInv: there is room for what the invocation may add. *)
LEMMA StartIInv ==
  ASSUME IInv, NEW r \in Run, Start(r)
  PROVE  IInv'
<1> DEFINE t == [task[r] EXCEPT !.pc = "lookup"]
<1>1. /\ task' = [task EXCEPT ![r] = t] /\ AtNode(r) /\ MayExecute(r) /\ DeployApproved(r) /\ Room
      /\ UNCHANGED <<node, status, approvals, records, reports, live>>
      /\ UNCHANGED <<vproject, deployments, req, faults>>
  BY DEF Start, database, vercel
<1>2. task[r] \in Task
  BY DEF IInv, TypeOK, Task
<1>3. t \in Task /\ t.pc = "lookup"
  BY <1>2 DEF Task, Calls
<1> HIDE DEF t
<1>4. TypeOK'
  <2>1. task' \in [Run -> Task]
    BY <1>1, <1>3 DEF IInv, TypeOK, Task
  <2> QED
    BY <1>1, <2>1 DEF IInv, TypeOK, Task
<1>5. RoomLeft'
  <2>1. Active' = Active \cup {r} /\ Undeployed' = Undeployed \cup {r}
    BY <1>1, <1>3, TaskSets
  <2> DEFINE a == Cardinality(Active)
             u == Cardinality(Undeployed)
             b == Cardinality(Active')
             v == Cardinality(Undeployed')
  <2>2. Active \subseteq Run /\ Undeployed \subseteq Active
    BY DEF Active, Undeployed
  <2>3. Active' \subseteq Run /\ Undeployed' \subseteq Run
    BY <2>1, <2>2
  <2>4. a \in Nat /\ u \in Nat /\ b \in Nat /\ v \in Nat /\ u <= a /\ b <= a + 1 /\ v <= u + 1
    BY <2>1, <2>2, <2>3, Counted
  <2>5. Len(records) + a < MaxRecords /\ Len(deployments) + a < MaxDeployments
    BY <1>1 DEF Room, Active
  <2>6. Len(records) \in Nat /\ Len(deployments) \in Nat
    BY DEF IInv, TypeOK
  <2> HIDE DEF a, u, b, v
  <2>7. Len(records) + b <= MaxRecords /\ Len(deployments) + v <= MaxDeployments
    BY <2>4, <2>5, <2>6, Constants
  <2> QED
    BY <1>1, <2>7 DEF RoomLeft, b, v
<1>6. TasksTrue'
  <2>1. TaskTrue(r, t)
    BY <1>1, <1>3 DEF TaskTrue, AtNode, DeployApproved, MayExecute
  <2>2. \A x \in Run : TaskTrue(x, task'[x])
    BY <1>1, <2>1, TaskSets DEF IInv, TasksTrue
  <2> QED
    BY <1>1, <2>2 DEF TasksTrue, TaskTrue
<1>7. Begun' /\ Reported' /\ SuccessOnce' /\ ReqsTrue' /\ DeployedShown'
  BY <1>1 DEF IInv, Begun, Reported, SuccessOnce, ReqsTrue, DeployedShown
<1>8. LiveMade' /\ LiveTrue'
  BY <1>1 DEF IInv, LiveMade, LiveTrue
<1> QED
  BY <1>4, <1>5, <1>6, <1>7, <1>8 DEF IInv

-----------------------------------------------------------------------------
(* The calls. *)

(* The calls that change no deployment keep IInv. *)
LEMMA CallIInv ==
  ASSUME IInv, NEW r \in Run,
         \/ Lookup(r) \/ CreateProject(r) \/ Conflict(r) \/ KeepPolling(r) \/ PollTimeout(r)
         \/ PollEnded(r) \/ Refused(r) \/ NotReady(r)
  PROVE  IInv'
<1>1. /\ UNCHANGED <<database, deployments, req, faults>> /\ vproject' \in BOOLEAN
  BY DEF Lookup, CreateProject, Conflict, KeepPolling, PollTimeout, PollEnded, Refused,
         NotReady, IInv, TypeOK, vercel
<1>2. task[r] \in Task
  BY DEF IInv, TypeOK, Task
<1>3. TaskTrue(r, task[r])
  BY DEF IInv, TasksTrue
<1>4. CASE KeepPolling(r)
  <2> DEFINE t == [task[r] EXCEPT !.left = @ - 1]
  <2>1. task' = [task EXCEPT ![r] = t] /\ task[r].pc = "poll" /\ task[r].left > 0
    BY <1>4 DEF KeepPolling
  <2>2. t \in Task /\ t.pc = "poll" /\ t.deployment = task[r].deployment
    BY <1>2, <2>1, Constants DEF Task
  <2> HIDE DEF t
  <2>3. TaskTrue(r, t)
    BY <1>3, <2>1, <2>2 DEF TaskTrue
  <2> QED
    BY <1>1, <2>1, <2>2, <2>3, TaskStep
<1>5. CASE ~KeepPolling(r)
  <2>1. PICK n \in {"deploy", "create", "failing", "ended"} :
          /\ task' = [task EXCEPT ![r] = [task[r] EXCEPT !.pc = n]]
          /\ task[r].pc # "idle"
          /\ n \in {"deploy", "create"} => task[r].pc \in {"lookup", "create"}
          /\ n = "ended" => task[r].pc = "poll"
    BY <1>5 DEF Lookup, CreateProject, Conflict, PollTimeout, PollEnded, Refused, NotReady, Calls
  <2> DEFINE t == [task[r] EXCEPT !.pc = n]
  <2>2. t \in Task /\ t.pc = n /\ t.deployment = task[r].deployment
    BY <1>2 DEF Task, Calls
  <2>3. task' = [task EXCEPT ![r] = t]
    BY <2>1
  <2> HIDE DEF t
  <2>4. TaskTrue(r, t)
    BY <1>3, <2>1, <2>2 DEF TaskTrue
  <2> QED
    BY <1>1, <2>1, <2>2, <2>3, <2>4, TaskStep
<1> QED
  BY <1>4, <1>5

-----------------------------------------------------------------------------
(* The deployments. *)

(* Any step that only adds to the deployments, or ends their builds. *)
LEMMA DeploymentsStep ==
  ASSUME IInv, UNCHANGED <<approvals, records, reports, live, req>>,
         UNCHANGED <<node, status, faults>>,
         deployments' \in Seq(Deployed), DeploymentsGrow,
         task' \in [Run -> Task], vproject' \in BOOLEAN, RoomLeft', TasksTrue'
  PROVE  IInv'
<1>1. TypeOK'
  BY DEF IInv, TypeOK, Task, Deployed
<1>2. Begun' /\ Reported' /\ SuccessOnce' /\ ReqsTrue' /\ DeployedShown'
  BY DEF IInv, Begun, Reported, SuccessOnce, ReqsTrue, DeployedShown
<1>3. records' \in Seq(Record) /\ RecordsGrow
  BY DEF IInv, TypeOK, Record, RecordsGrow
<1>4. LiveMade' /\ LiveTrue'
  BY <1>3, LiveKept
<1> QED
  BY <1>1, <1>2, <1>4 DEF IInv

(* What a new deployment is, and that the others stay. *)
LEMMA NewGrows ==
  ASSUME IInv, NEW r \in Run, NewDeployment(r)
  PROVE  /\ deployments' \in Seq(Deployed) /\ DeploymentsGrow
         /\ Len(deployments') = Len(deployments) + 1
         /\ DOMAIN deployments \subseteq DOMAIN deployments'
         /\ Len(deployments) + 1 \in DOMAIN deployments'
         /\ deployments'[Len(deployments) + 1].by = r
<1> DEFINE d == [by |-> r, state |-> "BUILDING", healthy |-> FALSE]
<1>1. d \in Deployed /\ d.by = r
  BY DEF Deployed
<1>2. deployments \in Seq(Deployed) /\ deployments' = Append(deployments, d)
  BY DEF IInv, TypeOK, Deployed, NewDeployment
<1> HIDE DEF d
<1> QED
  BY <1>1, <1>2 DEF DeploymentsGrow

(* CreateDeployment keeps IInv. *)
LEMMA CreateIInv ==
  ASSUME IInv, NEW r \in Run, CreateDeployment(r)
  PROVE  IInv'
<1> DEFINE n == Len(deployments) + 1
           t == [pc |-> "poll", deployment |-> n, left |-> MaxPolls]
<1>1. /\ NewDeployment(r) /\ task' = [task EXCEPT ![r] = t] /\ task[r].pc = "deploy"
      /\ UNCHANGED <<approvals, records, reports, live, req>>
      /\ UNCHANGED <<node, status, faults>> /\ vproject' = vproject
  BY DEF CreateDeployment, database
<1>2. /\ deployments' \in Seq(Deployed) /\ DeploymentsGrow /\ Len(deployments') = n
      /\ n \in DOMAIN deployments' /\ deployments'[n].by = r
  BY <1>1, NewGrows
<1>3. DOMAIN deployments \subseteq DOMAIN deployments'
  BY <1>1, NewGrows
<1>4. RoomLeft'
  <2>1. Active' = Active \cup {r} /\ Undeployed' = Undeployed \ {r}
    BY <1>1, TaskSets
  <2>2. r \in Active /\ r \in Undeployed
    BY <1>1 DEF Active, Undeployed
  <2>3. Len(records) \in Nat /\ Len(deployments) \in Nat
    BY DEF IInv, TypeOK
  <2>4. Active' \subseteq Active /\ Undeployed' \subseteq Undeployed /\ ~ (Undeployed \subseteq Undeployed')
    BY <2>1, <2>2
  <2> QED
    BY <1>1, <1>2, <2>3, <2>4, FewerTasks
<1>5. n \in Nat /\ n <= MaxDeployments /\ n \in Url
  <2>1. Len(deployments) \in Nat /\ Len(deployments') \in Nat
    BY <1>2 DEF IInv, TypeOK
  <2>2. Cardinality(Undeployed') \in Nat
    <3>1. Undeployed' \subseteq Run
      BY DEF Undeployed
    <3> QED
      BY <3>1, Counted
  <2>3. n + Cardinality(Undeployed') <= MaxDeployments
    BY <1>2, <1>4 DEF RoomLeft
  <2> QED
    BY <2>1, <2>2, <2>3, Constants DEF Url
<1>6. t \in Task /\ t.pc = "poll" /\ t.deployment = n
  BY <1>5, Constants DEF Task, Calls
<1>7. task' \in [Run -> Task]
  BY <1>1, <1>6 DEF IInv, TypeOK, Task
<1> HIDE DEF t, n
<1>8. ASSUME NEW x \in Run PROVE TaskTrue(x, task[x])'
  <2>1. CASE x = r
    <3>1. TaskTrue(r, task[r])
      BY DEF IInv, TasksTrue
    <3>2. task'[r] = t
      BY <1>1, TaskSets
    <3> QED
      BY <1>1, <1>2, <1>6, <2>1, <3>1, <3>2 DEF TaskTrue
  <2>2. CASE x # r
    <3>1. TaskTrue(x, task[x]) /\ task'[x] = task[x]
      BY <1>1, <2>2, TaskSets DEF IInv, TasksTrue
    <3> QED
      BY <1>1, <1>2, <1>3, <3>1 DEF TaskTrue, DeploymentsGrow
  <2> QED
    BY <2>1, <2>2
<1>9. TasksTrue'
  BY <1>8 DEF TasksTrue
<1>10. vproject' \in BOOLEAN
  BY <1>1 DEF IInv, TypeOK
<1> QED
  BY <1>1, <1>2, <1>4, <1>7, <1>9, <1>10, DeploymentsStep

(* HealthCheck keeps IInv. *)
LEMMA HealthIInv ==
  ASSUME IInv, NEW r \in Run, HealthCheck(r)
  PROVE  IInv'
<1> DEFINE d == task[r].deployment
<1>1. /\ task[r].pc = "ended" /\ IsReady(d)
      /\ UNCHANGED <<approvals, records, reports, live, req>>
      /\ UNCHANGED <<node, status, faults>> /\ vproject' = vproject
  BY DEF HealthCheck, database
<1>2. TaskTrue(r, task[r]) /\ task[r] \in Task
  BY DEF IInv, TasksTrue, TypeOK, Task
<1>3. d \in DOMAIN deployments /\ deployments[d].by = r /\ deployments[d].state = "READY"
  BY <1>1, <1>2 DEF TaskTrue, IsReady
<1>4. PICK n \in {"healthy", "failing"} :
        /\ task' = [task EXCEPT ![r] = [task[r] EXCEPT !.pc = n]]
        /\ n = "healthy" => deployments' = [deployments EXCEPT ![d].healthy = TRUE]
        /\ n = "failing" => deployments' = deployments
  BY DEF HealthCheck
<1> DEFINE t == [task[r] EXCEPT !.pc = n]
<1>5. task' = [task EXCEPT ![r] = t] /\ t \in Task /\ t.pc = n /\ t.deployment = d
  BY <1>2, <1>4 DEF Task
<1> HIDE DEF t, d
<1>6. /\ deployments' \in Seq(Deployed) /\ DeploymentsGrow
      /\ Len(deployments') = Len(deployments) /\ DOMAIN deployments' = DOMAIN deployments
      /\ n = "healthy" => deployments'[d].healthy
  <2>1. deployments \in Seq(Deployed)
    BY DEF IInv, TypeOK, Deployed
  <2>2. CASE n = "failing"
    BY <1>4, <2>1, <2>2 DEF DeploymentsGrow
  <2>3. CASE n = "healthy"
    <3> DEFINE e == [deployments[d] EXCEPT !.healthy = TRUE]
    <3>1. deployments[d] \in Deployed
      BY <1>3, <2>1
    <3>2. /\ e \in Deployed /\ e.by = deployments[d].by /\ e.state = deployments[d].state
          /\ e.healthy
      BY <3>1 DEF Deployed
    <3>3. deployments' = [deployments EXCEPT ![d] = e]
      BY <1>4, <2>3
    <3> HIDE DEF e
    <3>4. deployments' \in Seq(Deployed) /\ Len(deployments') = Len(deployments)
          /\ DOMAIN deployments' = DOMAIN deployments /\ deployments'[d] = e
          /\ \A x \in DOMAIN deployments : x # d => deployments'[x] = deployments[x]
      BY <1>3, <2>1, <3>2, <3>3
    <3>5. DeploymentsGrow
      <4>1. Len(deployments) \in Nat
        BY <2>1
      <4>2. ASSUME NEW x \in DOMAIN deployments
            PROVE  /\ deployments'[x].by = deployments[x].by
                   /\ deployments'[x].state = deployments[x].state
                   /\ deployments[x].healthy => deployments'[x].healthy
        <5>1. CASE x = d
          BY <3>2, <3>4, <5>1
        <5>2. CASE x # d
          BY <3>4, <5>2
        <5> QED
          BY <5>1, <5>2
      <4> QED
        BY <3>4, <4>1, <4>2 DEF DeploymentsGrow
    <3> QED
      BY <3>2, <3>4, <3>5
  <2> QED
    BY <2>2, <2>3
<1>7. RoomLeft'
  <2>1. Active' = Active \cup {r} /\ Undeployed' = Undeployed \ {r} /\ r \in Active
    BY <1>1, <1>5, TaskSets DEF Active
  <2>2. Active' \subseteq Active /\ Undeployed' \subseteq Undeployed
    BY <2>1
  <2>3. Len(records) \in Nat /\ Len(deployments) \in Nat
    BY DEF IInv, TypeOK
  <2> QED
    BY <1>1, <1>6, <2>2, <2>3, FewerTasks
<1>8. ASSUME NEW x \in Run PROVE TaskTrue(x, task[x])'
  <2>1. CASE x = r
    <3>1. task'[r] = t
      BY <1>5, TaskSets
    <3> QED
      BY <1>1, <1>2, <1>3, <1>5, <1>6, <2>1, <3>1 DEF TaskTrue, DeploymentsGrow
  <2>2. CASE x # r
    <3>1. TaskTrue(x, task[x]) /\ task'[x] = task[x]
      BY <1>5, <2>2, TaskSets DEF IInv, TasksTrue
    <3> QED
      BY <1>1, <1>6, <3>1 DEF TaskTrue, DeploymentsGrow
  <2> QED
    BY <2>1, <2>2
<1>9. TasksTrue' /\ task' \in [Run -> Task] /\ vproject' \in BOOLEAN
  <2>1. task' \in [Run -> Task]
    BY <1>5 DEF IInv, TypeOK, Task
  <2>2. vproject' \in BOOLEAN
    BY <1>1 DEF IInv, TypeOK
  <2> QED
    BY <1>8, <2>1, <2>2 DEF TasksTrue
<1> QED
  BY <1>1, <1>6, <1>7, <1>9, DeploymentsStep

(* BuildEnds keeps IInv: a deployment that is READY has ended. *)
LEMMA BuildIInv ==
  ASSUME IInv, BuildEnds
  PROVE  IInv'
<1>1. PICK d \in DOMAIN deployments, s \in {"READY", "ERROR", "CANCELED"} :
        /\ deployments[d].state = "BUILDING"
        /\ deployments' = [deployments EXCEPT ![d] = [deployments[d] EXCEPT !.state = s]]
  BY DEF BuildEnds
<1>2. /\ UNCHANGED <<approvals, records, reports, live, req>>
      /\ UNCHANGED <<node, status, faults, task, vproject>>
  BY DEF BuildEnds, database
<1> DEFINE e == [deployments[d] EXCEPT !.state = s]
<1>3. deployments \in Seq(Deployed) /\ deployments[d] \in Deployed
  <2>1. deployments \in Seq(Deployed)
    BY DEF IInv, TypeOK, Deployed
  <2> QED
    BY <2>1
<1>4. e \in Deployed /\ e.by = deployments[d].by /\ e.healthy = deployments[d].healthy
  BY <1>3 DEF Deployed
<1>5. deployments' = [deployments EXCEPT ![d] = e]
  BY <1>1
<1> HIDE DEF e
<1>6. /\ deployments' \in Seq(Deployed) /\ Len(deployments') = Len(deployments)
      /\ DOMAIN deployments' = DOMAIN deployments /\ deployments'[d] = e
      /\ \A x \in DOMAIN deployments : x # d => deployments'[x] = deployments[x]
  BY <1>3, <1>4, <1>5
<1>7. DeploymentsGrow
  <2>1. Len(deployments) \in Nat
    BY <1>3
  <2>2. ASSUME NEW x \in DOMAIN deployments
        PROVE  /\ deployments'[x].by = deployments[x].by
               /\ deployments[x].state = "READY" => deployments'[x].state = "READY"
               /\ deployments[x].healthy => deployments'[x].healthy
    <3>1. CASE x = d
      BY <1>1, <1>4, <1>6, <3>1
    <3>2. CASE x # d
      BY <1>6, <3>2
    <3> QED
      BY <3>1, <3>2
  <2> QED
    BY <1>6, <2>1, <2>2 DEF DeploymentsGrow
<1>8. RoomLeft'
  BY <1>2, <1>6 DEF IInv, RoomLeft, Active, Undeployed
<1>9. ASSUME NEW x \in Run PROVE TaskTrue(x, task[x])'
  <2>1. TaskTrue(x, task[x])
    BY DEF IInv, TasksTrue
  <2> QED
    BY <1>2, <1>6, <1>7, <2>1 DEF TaskTrue, DeploymentsGrow
<1>10. TasksTrue'
  BY <1>9 DEF TasksTrue
<1>11. task' \in [Run -> Task] /\ vproject' \in BOOLEAN
  BY <1>2 DEF IInv, TypeOK, Task
<1> QED
  BY <1>2, <1>6, <1>7, <1>8, <1>10, <1>11, DeploymentsStep

-----------------------------------------------------------------------------
(* The ends of an invocation. *)

(* An invocation that is gone claims nothing. *)
LEMMA Gone ==
  ASSUME IInv
  PROVE  NoTask \in Task /\ NoTask.pc = "idle"
BY Constants DEF NoTask, Task

(* The runs that requests found are still there when a run moves. *)
LEMMA ReqsKept ==
  ASSUME IInv, NEW r \in Run, NEW n \in Node, node' = [node EXCEPT ![r] = n], req' = req
  PROVE  ReqsTrue'
<1>1. \A x \in Run : node'[x] = "none" => node[x] = "none"
  BY DEF IInv, TypeOK, Node
<1>2. \A q \in Requests : req[q].run # 0 => req[q].run \in Run
  BY Constants DEF IInv, TypeOK, Run
<1> QED
  BY <1>1, <1>2 DEF IInv, ReqsTrue

(* When the invocation of a run ends, the others stay true. *)
LEMMA OthersTrue ==
  ASSUME IInv, NEW r \in Run, NEW n \in Node, node' = [node EXCEPT ![r] = n],
         task' = [task EXCEPT ![r] = NoTask], approvals' = approvals,
         \A x \in Run : x # r => reports'[x] = reports[x],
         DeploymentsGrow, DOMAIN deployments \subseteq DOMAIN deployments'
  PROVE  TasksTrue'
<1>1. ASSUME NEW x \in Run PROVE TaskTrue(x, task[x])'
  <2>1. CASE x = r
    <3>1. task'[x].pc = "idle"
      BY <2>1, Gone, TaskSets
    <3> QED
      BY <3>1 DEF TaskTrue
  <2>2. CASE x # r
    <3>1. TaskTrue(x, task[x]) /\ task'[x] = task[x] /\ node'[x] = node[x]
      BY <2>2, TaskSets DEF IInv, TasksTrue, TypeOK
    <3> QED
      BY <2>2, <3>1 DEF TaskTrue, DeploymentsGrow
  <2> QED
    BY <2>1, <2>2
<1> QED
  BY <1>1 DEF TasksTrue

(* Broken keeps IInv: what Vercel may have made stays, and belongs to nobody. *)
LEMMA BrokenIInv ==
  ASSUME IInv, NEW r \in Run, Broken(r)
  PROVE  IInv'
<1>1. /\ task[r].pc \in Calls /\ MoveTo(r, "EndFailed") /\ task' = [task EXCEPT ![r] = NoTask]
      /\ UNCHANGED <<approvals, records, reports, live, req, faults>>
  BY DEF Broken
<1>2. /\ task[r].pc # "idle" /\ "EndFailed" \in Node
  BY <1>1 DEF Calls, Node
<1>3. node[r] # "none"
  BY <1>2 DEF IInv, TasksTrue, TaskTrue
<1>4. /\ node' = [node EXCEPT ![r] = "EndFailed"] /\ Begun' /\ status' \in Statuses
      /\ status' = "deployed" => status = "deployed"
  BY <1>1, <1>2, <1>3, Commits
<1>5. /\ deployments' \in Seq(Deployed) /\ DeploymentsGrow /\ vproject' \in BOOLEAN
      /\ \/ Len(deployments') = Len(deployments)
         \/ Len(deployments') = Len(deployments) + 1 /\ r \in Undeployed
      /\ DOMAIN deployments \subseteq DOMAIN deployments'
  <2>1. deployments \in Seq(Deployed) /\ vproject \in BOOLEAN
    BY DEF IInv, TypeOK, Deployed
  <2>2. CASE task[r].pc = "deploy" /\ NewDeployment(r) /\ UNCHANGED vproject
    BY <2>1, <2>2, NewGrows DEF Undeployed
  <2>3. CASE UNCHANGED deployments /\ (vproject' = vproject \/ vproject' = TRUE)
    <3>1. DeploymentsGrow
      BY <2>1, <2>3 DEF DeploymentsGrow
    <3> QED
      BY <2>1, <2>3, <3>1
  <2> QED
    BY <2>2, <2>3 DEF Broken, vercel
<1>6. TypeOK'
  <2>1. node' \in [Run -> Node \cup {"none"}]
    BY <1>2, <1>4 DEF IInv, TypeOK
  <2>2. task' \in [Run -> Task]
    BY <1>1, Gone DEF IInv, TypeOK, Task
  <2> QED
    BY <1>1, <1>4, <1>5, <2>1, <2>2 DEF IInv, TypeOK, Task, Deployed, Statuses
<1>7. RoomLeft'
  <2>1. Active' = Active \ {r} /\ Undeployed' = Undeployed \ {r}
    BY <1>1, Gone, TaskSets
  <2>2. Len(records) \in Nat /\ Len(deployments) \in Nat
    BY DEF IInv, TypeOK
  <2>3. Active' \subseteq Active /\ Undeployed' \subseteq Undeployed
        /\ (r \in Undeployed => ~ (Undeployed \subseteq Undeployed'))
    BY <2>1
  <2> QED
    BY <1>1, <1>5, <2>2, <2>3, FewerTasks
<1>8. TasksTrue'
  BY <1>1, <1>2, <1>4, <1>5, OthersTrue
<1>9. Reported' /\ SuccessOnce' /\ DeployedShown'
  BY <1>1, <1>4 DEF IInv, Reported, SuccessOnce, DeployedShown
<1>10. ReqsTrue'
  BY <1>1, <1>2, <1>4, ReqsKept
<1>11. LiveMade' /\ LiveTrue'
  <2>1. records' \in Seq(Record) /\ RecordsGrow
    BY <1>1 DEF IInv, TypeOK, Record, RecordsGrow
  <2> QED
    BY <1>1, <1>5, <2>1, LiveKept
<1> QED
  BY <1>4, <1>6, <1>7, <1>8, <1>9, <1>10, <1>11 DEF IInv

(* _create_or_update_deployment_record writes one record, and no outcome over. *)
LEMMA Settles ==
  ASSUME IInv, NEW r \in Run, NEW outcome \in {"success", "failed"}, NEW url \in Url,
         Settle(r, outcome, url)
  PROVE  /\ records' \in Seq(Record) /\ RecordsGrow
         /\ Len(records') = Len(records) \/ Len(records') = Len(records) + 1
         /\ \E k \in DOMAIN records' :
              /\ records'[k] = [run |-> r, status |-> outcome, url |-> url]
              /\ \A i \in DOMAIN records' : i # k => i \in DOMAIN records /\ records'[i] = records[i]
<1> DEFINE record == [run |-> r, status |-> outcome, url |-> url]
           Q == QueuedRecords(r)
<1>1. record \in Record /\ record.run = r /\ record.status = outcome
  BY DEF Record
<1>2. records \in Seq(Record) /\ Len(records) \in Nat /\ DOMAIN records = 1..Len(records)
  BY DEF IInv, TypeOK, Record
<1>3. CASE Q = {}
  <2>1. records' = Append(records, record)
    BY <1>3 DEF Settle
  <2> HIDE DEF record, Q
  <2>2. /\ records' \in Seq(Record) /\ Len(records') = Len(records) + 1
        /\ DOMAIN records' = 1..(Len(records) + 1)
        /\ records'[Len(records) + 1] = record
        /\ \A i \in DOMAIN records : records'[i] = records[i]
    BY <1>1, <1>2, <2>1
  <2>3. Len(records) + 1 \in DOMAIN records'
        /\ \A i \in DOMAIN records' : i # Len(records) + 1 => i \in DOMAIN records
    BY <1>2, <2>2
  <2>4. RecordsGrow
    BY <1>2, <2>2 DEF RecordsGrow
  <2> QED
    BY <2>2, <2>3, <2>4 DEF record
<1>4. CASE Q # {}
  <2>1. Q \subseteq 1..Len(records) /\ \A i \in Q : records[i].status = "queued"
    BY <1>2 DEF QueuedRecords
  <2>2. Max(Q) \in Q
    BY <1>2, <1>4, <2>1, LastOne
  <2> DEFINE k == Max(Q)
  <2>3. k \in DOMAIN records /\ records[k].status = "queued"
    BY <1>2, <2>1, <2>2
  <2>4. records' = [records EXCEPT ![k] = record]
    BY <1>4 DEF Settle
  <2> HIDE DEF record, Q, k
  <2>5. /\ records' \in Seq(Record) /\ Len(records') = Len(records)
        /\ DOMAIN records' = DOMAIN records /\ records'[k] = record
        /\ \A i \in DOMAIN records : i # k => records'[i] = records[i]
    BY <1>1, <1>2, <2>3, <2>4
  <2>6. RecordsGrow
    BY <1>2, <2>3, <2>5 DEF RecordsGrow
  <2> QED
    BY <2>3, <2>5, <2>6 DEF record
<1> QED
  BY <1>3, <1>4

(* What both ends of an invocation leave of the invariant. *)
LEMMA EndsStep ==
  ASSUME IInv, NEW r \in Run, NEW n \in Node, NEW x \in {"passed", "failure"},
         NEW outcome \in {"success", "failed"}, NEW url \in Url,
         task[r].pc # "idle", MoveTo(r, n), task' = [task EXCEPT ![r] = NoTask],
         Settle(r, outcome, url), reports' = [reports EXCEPT ![r] = @ \cup {x}],
         live' \in Url, UNCHANGED <<approvals, vercel, req, faults>>
  PROVE  TypeOK' /\ Begun' /\ RoomLeft' /\ TasksTrue' /\ ReqsTrue'
<1>1. node[r] # "none"
  BY DEF IInv, TasksTrue, TaskTrue
<1>2. node' = [node EXCEPT ![r] = n] /\ Begun' /\ status' \in Statuses
  BY <1>1, Commits
<1>3. UNCHANGED <<vproject, deployments>>
  BY DEF vercel
<1>4. /\ records' \in Seq(Record)
      /\ Len(records') = Len(records) \/ Len(records') = Len(records) + 1
  BY Settles
<1>5. TypeOK'
  <2>1. node' \in [Run -> Node \cup {"none"}]
    BY <1>2 DEF IInv, TypeOK
  <2>2. task' \in [Run -> Task]
    BY Gone DEF IInv, TypeOK, Task
  <2>3. reports' \in [Run -> SUBSET {"passed", "failure"}]
    BY DEF IInv, TypeOK
  <2> QED
    BY <1>2, <1>3, <1>4, <2>1, <2>2, <2>3 DEF IInv, TypeOK, Task, Record, Statuses
<1>6. RoomLeft'
  <2>1. Active' = Active \ {r} /\ Undeployed' = Undeployed \ {r} /\ r \in Active
    BY Gone, TaskSets DEF Active
  <2>2. Len(records) \in Nat /\ Len(records') \in Nat /\ Len(deployments) \in Nat
    BY <1>4 DEF IInv, TypeOK
  <2>3. Active' \subseteq Active /\ Undeployed' \subseteq Undeployed /\ ~ (Active \subseteq Active')
    BY <2>1
  <2> QED
    BY <1>3, <1>4, <2>2, <2>3, FewerTasks
<1>7. TasksTrue'
  <2>1. \A y \in Run : y # r => reports'[y] = reports[y]
    BY DEF IInv, TypeOK
  <2>2. DeploymentsGrow
    BY <1>3 DEF DeploymentsGrow, IInv, TypeOK
  <2>3. DOMAIN deployments \subseteq DOMAIN deployments'
    BY <1>3
  <2> QED
    BY <1>2, <2>1, <2>2, <2>3, OthersTrue
<1>8. ReqsTrue'
  BY <1>2, ReqsKept
<1> QED
  BY <1>2, <1>5, <1>6, <1>7, <1>8

(* Succeed keeps IInv. *)
LEMMA SucceedIInv ==
  ASSUME IInv, NEW r \in Run, Succeed(r)
  PROVE  IInv'
<1> DEFINE d == task[r].deployment
<1>1. /\ task[r].pc = "healthy" /\ Settle(r, "success", d) /\ live' = d
      /\ reports' = [reports EXCEPT ![r] = @ \cup {"passed"}]
      /\ MoveTo(r, "EndSuccess") /\ task' = [task EXCEPT ![r] = NoTask]
      /\ UNCHANGED <<approvals, vercel, req, faults>> /\ "EndSuccess" \in Node
  BY DEF Succeed, Node
<1>2. TaskTrue(r, task[r])
  BY DEF IInv, TasksTrue
<1>3. /\ d \in DOMAIN deployments /\ deployments[d].by = r /\ r \in approvals
      /\ deployments[d].state = "READY" /\ deployments[d].healthy
      /\ reports[r] # {"passed"}
  BY <1>1, <1>2 DEF TaskTrue
<1>4. d \in Url /\ d # 0 /\ d <= Len(deployments)
  <2>1. d \in Url
    BY DEF IInv, TypeOK
  <2>2. DOMAIN deployments = 1..Len(deployments) /\ Len(deployments) \in Nat
    BY DEF IInv, TypeOK
  <2> QED
    BY <1>3, <2>1, <2>2
<1> HIDE DEF d
<1>5. TypeOK' /\ Begun' /\ RoomLeft' /\ TasksTrue' /\ ReqsTrue'
  BY <1>1, <1>4, EndsStep
<1>6. PICK k \in DOMAIN records' :
        /\ records'[k] = [run |-> r, status |-> "success", url |-> d]
        /\ \A i \in DOMAIN records' : i # k => i \in DOMAIN records /\ records'[i] = records[i]
  BY <1>1, <1>4, Settles
<1>7. /\ reports'[r] = reports[r] \cup {"passed"} /\ reports[r] \subseteq {"passed", "failure"}
      /\ \A x \in Run : x # r => reports'[x] = reports[x]
  BY <1>1 DEF IInv, TypeOK
<1>8. Reported'
  <2>1. ASSUME NEW i \in DOMAIN records', records'[i].status = "success"
        PROVE  "passed" \in reports'[records'[i].run]
    <3>1. CASE i = k
      BY <1>6, <1>7, <3>1
    <3>2. CASE i # k
      <4>1. i \in DOMAIN records /\ records'[i] = records[i]
        BY <1>6, <3>2
      <4>2. "passed" \in reports[records[i].run]
        BY <2>1, <4>1 DEF IInv, Reported
      <4>3. records[i].run \in Run
        BY <4>1, RecordRuns
      <4> QED
        BY <1>7, <4>1, <4>2, <4>3
    <3> QED
      BY <3>1, <3>2
  <2> QED
    BY <1>1, <1>4, <2>1 DEF Reported
<1>9. "failure" \notin reports'[r] => reports[r] = {}
  BY <1>3, <1>7
<1>10. SuccessOnce'
  <2>1. ASSUME NEW i \in DOMAIN records', NEW j \in DOMAIN records',
               records'[i].status = "success", records'[j].status = "success",
               records'[i].run = records'[j].run, "failure" \notin reports'[records'[i].run]
        PROVE  i = j
    <3>1. CASE records'[i].run = r
      <4>1. \A x \in DOMAIN records : ~ (records[x].run = r /\ records[x].status = "success")
        BY <1>9, <2>1, <3>1 DEF IInv, Reported
      <4> QED
        BY <1>6, <2>1, <3>1, <4>1
    <3>2. CASE records'[i].run # r
      <4>1. i # k /\ j # k
        BY <1>6, <2>1, <3>2
      <4>2. /\ i \in DOMAIN records /\ records'[i] = records[i]
            /\ j \in DOMAIN records /\ records'[j] = records[j]
        BY <1>6, <4>1
      <4>3. records[i].run \in Run
        BY <4>2, RecordRuns
      <4> QED
        BY <1>7, <2>1, <3>2, <4>2, <4>3 DEF IInv, SuccessOnce
    <3> QED
      BY <3>1, <3>2
  <2> QED
    BY <2>1 DEF SuccessOnce
<1>11. LiveMade' /\ LiveTrue' /\ DeployedShown'
  <2>1. deployments' = deployments
    BY <1>1 DEF vercel
  <2> QED
    BY <1>1, <1>3, <1>4, <1>6, <2>1 DEF LiveMade, LiveTrue, DeployedShown
<1> QED
  BY <1>5, <1>8, <1>10, <1>11 DEF IInv

(* Fail keeps IInv. *)
LEMMA FailIInv ==
  ASSUME IInv, NEW r \in Run, Fail(r)
  PROVE  IInv'
<1>1. /\ task[r].pc = "failing" /\ Settle(r, "failed", 0) /\ live' = live
      /\ reports' = [reports EXCEPT ![r] = @ \cup {"failure"}]
      /\ MoveTo(r, "EndFailed") /\ task' = [task EXCEPT ![r] = NoTask]
      /\ UNCHANGED <<approvals, vercel, req, faults>> /\ "EndFailed" \in Node
  BY DEF Fail, Node
<1>2. live \in Url /\ 0 \in Url /\ node[r] # "none"
  BY <1>1, Constants DEF IInv, TypeOK, TasksTrue, TaskTrue
<1>3. TypeOK' /\ Begun' /\ RoomLeft' /\ TasksTrue' /\ ReqsTrue'
  BY <1>1, <1>2, EndsStep
<1>4. records' \in Seq(Record) /\ RecordsGrow
  BY <1>1, <1>2, Settles
<1>5. PICK k \in DOMAIN records' :
        /\ records'[k] = [run |-> r, status |-> "failed", url |-> 0]
        /\ \A i \in DOMAIN records' : i # k => i \in DOMAIN records /\ records'[i] = records[i]
  BY <1>1, <1>2, Settles
<1>6. \A x \in Run : reports[x] \subseteq reports'[x] /\ ("passed" \in reports'[x] => "passed" \in reports[x])
  BY <1>1 DEF IInv, TypeOK
<1>7. ASSUME NEW i \in DOMAIN records', records'[i].status = "success"
      PROVE  i \in DOMAIN records /\ records'[i] = records[i] /\ records[i].run \in Run
  <2>1. i # k
    BY <1>5, <1>7
  <2>2. i \in DOMAIN records /\ records'[i] = records[i]
    BY <1>5, <2>1
  <2> QED
    BY <2>2, RecordRuns
<1>8. Reported' /\ SuccessOnce'
  BY <1>1, <1>6, <1>7 DEF IInv, Reported, SuccessOnce
<1>9. LiveMade' /\ LiveTrue'
  <2>1. deployments' = deployments /\ deployments \in Seq(Deployed) /\ DeploymentsGrow
    BY <1>1 DEF vercel, IInv, TypeOK, Deployed, DeploymentsGrow
  <2> QED
    BY <1>1, <1>4, <2>1, LiveKept
<1>10. DeployedShown'
  BY <1>1, <1>2, Commits DEF IInv, DeployedShown
<1> QED
  BY <1>3, <1>8, <1>9, <1>10 DEF IInv

-----------------------------------------------------------------------------
(* Requests, people and crashes. *)

(* The run a request names. *)
LEMMA RequestRun ==
  ASSUME IInv, NEW q \in Requests, req[q].run # 0
  PROVE  req[q].run \in Run
BY Constants DEF IInv, TypeOK, Run

(* Retry keeps IInv: a run that failed has no invocation. *)
LEMMA RetryIInv ==
  ASSUME IInv, Retry
  PROVE  IInv'
<1> DEFINE r == Latest
<1>1. /\ node[r] = "EndFailed" /\ MoveTo(r, "DeployProduction") /\ r \in Run
      /\ UNCHANGED <<approvals, records, reports, live, vercel, task, req, faults>>
  BY LatestRun DEF Retry, IInv
<1> HIDE DEF r
<1>2. task[r].pc = "idle" /\ "DeployProduction" \in Node
  BY <1>1 DEF IInv, TasksTrue, TaskTrue, Node
<1>3. status = "deployed" => live # 0
  BY DEF IInv, DeployedShown
<1> QED
  BY <1>1, <1>2, <1>3, Commits, MoveStep

(* Replay keeps IInv: the run after the last one begins. *)
LEMMA ReplayIInv ==
  ASSUME IInv, Replay
  PROVE  IInv'
<1> DEFINE r == Latest + 1
<1>1. PICK n \in {"PreparePR", "WaitDeployApproval", "DeployProduction"} :
        /\ node' = [node EXCEPT ![r] = n] /\ status' = NODE_TO_PROJECT_STATUS[n]
  BY DEF Replay
<1>2. /\ Latest \in Run /\ node[Latest] # "none" /\ Latest < MaxRun
      /\ \A q \in Run : q > Latest => node[q] = "none"
      /\ UNCHANGED <<approvals, records, reports, live, vercel, task, req, faults>>
  BY LatestRun DEF Replay, IInv
<1>3. r \in Run /\ r > Latest
  BY <1>2, Constants DEF Run
<1>4. node[r] = "none" /\ n \in Node
  BY <1>2, <1>3 DEF Node
<1>5. task[r].pc = "idle"
  BY <1>3, <1>4 DEF IInv, TasksTrue, TaskTrue
<1>6. Begun'
  <2>1. PICK m \in Run : \A x \in Run : node[x] = "none" <=> x > m
    BY DEF IInv, Begun
  <2>2. r = m + 1
    <3>1. ~ (Latest > m) /\ r > m
      BY <1>2, <1>3, <1>4, <2>1
    <3>2. Latest \in Nat /\ m \in Nat
      BY <1>2, Constants
    <3> QED
      BY <3>1, <3>2
  <2>3. \A x \in Run : node'[x] = IF x = r THEN n ELSE node[x]
    BY <1>1, <1>3 DEF IInv, TypeOK
  <2>4. \A x \in Run : node'[x] = "none" <=> x > r
    <3> SUFFICES ASSUME NEW x \in Run PROVE node'[x] = "none" <=> x > r
      OBVIOUS
    <3>1. x \in Nat /\ m \in Nat
      BY Constants
    <3>2. CASE x = r
      BY <1>4, <2>2, <2>3, <3>1, <3>2 DEF Node
    <3>3. CASE x # r
      BY <2>1, <2>2, <2>3, <3>1, <3>3
    <3> QED
      BY <3>2, <3>3
  <2> QED
    BY <1>3, <2>4 DEF Begun
<1> HIDE DEF r
<1>7. status' \in Statuses /\ status' # "deployed"
  BY <1>1 DEF NODE_TO_PROJECT_STATUS, Node, Statuses
<1> QED
  BY <1>1, <1>2, <1>3, <1>4, <1>5, <1>6, <1>7, MoveStep

(* BeginDeploy keeps IInv. *)
LEMMA BeginIInv ==
  ASSUME IInv, NEW q \in Requests, BeginDeploy(q)
  PROVE  /\ IInv'
         /\ req'[q].run = Latest /\ \A o \in Requests : o # q => req'[o] = req[o]
         /\ req'[q].row = 0 => QueuedRecords(Latest) = {}
<1> DEFINE row == IF QueuedRecords(Latest) = {} THEN 0 ELSE Max(QueuedRecords(Latest))
           h == [run |-> Latest, node |-> node[Latest], row |-> row]
<1>1. /\ req' = [req EXCEPT ![q] = h] /\ UNCHANGED <<task, faults>>
      /\ UNCHANGED <<node, status, approvals, records, reports, live, vproject, deployments>>
  BY DEF BeginDeploy, database, vercel
<1>2. Latest \in Run /\ node[Latest] # "none"
  BY LatestRun DEF IInv
<1>3. row \in 0..MaxRecords /\ (row = 0 => QueuedRecords(Latest) = {})
  <2>1. DOMAIN records = 1..Len(records) /\ Len(records) \in Nat
    BY DEF IInv, TypeOK
  <2>2. QueuedRecords(Latest) \subseteq 1..Len(records)
    BY <2>1 DEF QueuedRecords
  <2>3. Len(records) <= MaxRecords
    <3>1. Cardinality(Active) \in Nat
      <4>1. Active \subseteq Run
        BY DEF Active
      <4> QED
        BY <4>1, Counted
    <3>2. Len(records) + Cardinality(Active) <= MaxRecords
      BY DEF IInv, RoomLeft
    <3> QED
      BY <2>1, <3>1, <3>2, Constants
  <2> DEFINE m == Max(QueuedRecords(Latest))
  <2>4. CASE QueuedRecords(Latest) # {}
    <3>1. m \in 1..Len(records)
      BY <2>1, <2>2, <2>4, LastOne
    <3>2. row = m
      BY <2>4
    <3> HIDE DEF m, row
    <3> QED
      BY <2>1, <2>3, <3>1, <3>2, Constants
  <2>5. CASE QueuedRecords(Latest) = {}
    BY <2>5, Constants
  <2> QED
    BY <2>4, <2>5
<1>4. h \in Req /\ h.run = Latest /\ h.row = row
  <2>1. node[Latest] \in Node \cup {"none"}
    BY <1>2 DEF IInv, TypeOK
  <2>2. Latest \in 0..MaxRun
    BY <1>2, Constants DEF Run
  <2> HIDE DEF row
  <2> QED
    BY <1>3, <2>1, <2>2 DEF Req
<1> HIDE DEF row, h
<1>5. /\ req' \in [Requests -> Req] /\ req'[q] = h
      /\ \A o \in Requests : o # q => req'[o] = req[o]
  BY <1>1, <1>4 DEF IInv, TypeOK, Req
<1>6. TypeOK'
  BY <1>1, <1>5 DEF IInv, TypeOK, Req
<1>7. RoomLeft' /\ TasksTrue'
  BY <1>1 DEF IInv, RoomLeft, Active, Undeployed, TasksTrue, TaskTrue
<1>8. Begun' /\ Reported' /\ SuccessOnce' /\ DeployedShown'
  BY <1>1 DEF IInv, Begun, Reported, SuccessOnce, DeployedShown
<1>9. LiveMade' /\ LiveTrue'
  BY <1>1 DEF IInv, LiveMade, LiveTrue
<1>10. ReqsTrue'
  BY <1>1, <1>2, <1>4, <1>5 DEF IInv, ReqsTrue
<1> QED
  BY <1>3, <1>4, <1>5, <1>6, <1>7, <1>8, <1>9, <1>10 DEF IInv

(* What CommitDeploy adds to the records. *)
LEMMA CommitRecords ==
  ASSUME IInv, NEW q \in Requests, CommitDeploy(q)
  PROVE  /\ records' \in Seq(Record) /\ RecordsGrow
         /\ DOMAIN records \subseteq DOMAIN records'
         /\ \A i \in DOMAIN records : records'[i] = records[i]
         /\ \A i \in DOMAIN records' : i \notin DOMAIN records =>
              /\ records'[i] = [run |-> req[q].run, status |-> "queued", url |-> 0]
              /\ req[q].row = 0 /\ i = Len(records) + 1
         /\ \/ Len(records') = Len(records)
            \/ Len(records') = Len(records) + 1 /\ Room
<1> DEFINE record == [run |-> req[q].run, status |-> "queued", url |-> 0]
<1>1. records \in Seq(Record) /\ Len(records) \in Nat /\ DOMAIN records = 1..Len(records)
  BY DEF IInv, TypeOK, Record
<1>2. record \in Record
  BY Constants, RequestRun DEF CommitDeploy, Record
<1>3. CASE req[q].row = 0 /\ Room /\ records' = Append(records, record)
  <2> HIDE DEF record
  <2>1. /\ records' \in Seq(Record) /\ Len(records') = Len(records) + 1
        /\ DOMAIN records' = 1..(Len(records) + 1) /\ records'[Len(records) + 1] = record
        /\ \A i \in DOMAIN records : records'[i] = records[i]
    BY <1>1, <1>2, <1>3
  <2>2. /\ DOMAIN records \subseteq DOMAIN records'
        /\ \A i \in DOMAIN records' : i \notin DOMAIN records => i = Len(records) + 1
    BY <1>1, <2>1
  <2>3. RecordsGrow
    BY <1>1, <2>1 DEF RecordsGrow
  <2> QED
    BY <1>3, <2>1, <2>2, <2>3 DEF record
<1>4. CASE UNCHANGED records
  BY <1>1, <1>4 DEF RecordsGrow
<1> QED
  BY <1>3, <1>4 DEF CommitDeploy

(* CommitDeploy keeps IInv. *)
LEMMA CommitIInv ==
  ASSUME IInv, NEW q \in Requests, CommitDeploy(q)
  PROVE  IInv'
<1> DEFINE r == req[q].run
<1>1. /\ r # 0
      /\ \/ node' = node
         \/ task[r].pc = "idle" /\ node' = [node EXCEPT ![r] = "WaitDeployApproval"]
      /\ status' = "deploying" /\ req' = [req EXCEPT ![q] = NoRequest]
      /\ UNCHANGED <<approvals, reports, live, vproject, deployments, task, faults>>
  BY DEF CommitDeploy, vercel
<1>2. r \in Run /\ node[r] # "none" /\ "WaitDeployApproval" \in Node
  BY <1>1, RequestRun DEF IInv, ReqsTrue, Node
<1> HIDE DEF r
<1>3. /\ node' \in [Run -> Node \cup {"none"}]
      /\ \A x \in Run : node'[x] = "none" <=> node[x] = "none"
      /\ \A x \in Run : task[x].pc # "idle" => node'[x] = node[x]
  BY <1>1, <1>2 DEF IInv, TypeOK, Node
<1>4. NoRequest \in Req /\ NoRequest.run = 0
  BY Constants DEF NoRequest, Req, Node
<1>5. /\ req' \in [Requests -> Req]
      /\ \A o \in Requests : req'[o] = req[o] \/ req'[o] = NoRequest
  BY <1>1, <1>4 DEF IInv, TypeOK, Req
<1>6. TypeOK'
  BY <1>1, <1>3, <1>5, CommitRecords DEF IInv, TypeOK, Req, Record
<1>7. RoomLeft'
  <2>1. Active' = Active /\ Undeployed' = Undeployed
    BY <1>1 DEF Active, Undeployed
  <2>2. Cardinality(Active) \in Nat
    <3>1. Active \subseteq Run
      BY DEF Active
    <3> QED
      BY <3>1, Counted
  <2>3. Len(records) \in Nat
    BY DEF IInv, TypeOK
  <2>4. Len(records') + Cardinality(Active) <= MaxRecords
    <3>1. CASE Len(records') = Len(records)
      BY <3>1 DEF IInv, RoomLeft
    <3>2. CASE Len(records') = Len(records) + 1 /\ Room
      <4>1. Len(records) + Cardinality(Active) < MaxRecords
        BY <3>2 DEF Room, Active
      <4> QED
        BY <2>2, <2>3, <3>2, <4>1, Constants
    <3> QED
      BY <3>1, <3>2, CommitRecords
  <2> QED
    BY <1>1, <2>1, <2>4 DEF IInv, RoomLeft
<1>8. TasksTrue'
  <2>1. ASSUME NEW x \in Run PROVE TaskTrue(x, task[x])'
    <3>1. TaskTrue(x, task[x])
      BY DEF IInv, TasksTrue
    <3> QED
      BY <1>1, <1>3, <3>1 DEF TaskTrue
  <2> QED
    BY <2>1 DEF TasksTrue
<1>9. Begun' /\ DeployedShown'
  BY <1>1, <1>3 DEF IInv, Begun, DeployedShown
<1>10. ReqsTrue'
  <2>1. \A o \in Requests : req[o].run # 0 => req[o].run \in Run
    BY RequestRun
  <2> QED
    BY <1>3, <1>4, <1>5, <2>1 DEF IInv, ReqsTrue
<1>11. ASSUME NEW i \in DOMAIN records', records'[i].status = "success"
      PROVE  i \in DOMAIN records /\ records'[i] = records[i]
  BY <1>11, CommitRecords
<1>12. Reported' /\ SuccessOnce'
  BY <1>1, <1>11 DEF IInv, Reported, SuccessOnce
<1>13. LiveMade' /\ LiveTrue'
  <2>1. deployments' \in Seq(Deployed) /\ DeploymentsGrow
    BY <1>1 DEF IInv, TypeOK, Deployed, DeploymentsGrow
  <2> QED
    BY <1>1, <2>1, CommitRecords, LiveKept
<1> QED
  BY <1>6, <1>7, <1>8, <1>9, <1>10, <1>12, <1>13 DEF IInv

(* Crash keeps IInv. *)
LEMMA CrashIInv ==
  ASSUME IInv, Crash
  PROVE  IInv'
<1>1. /\ UNCHANGED <<node, status, approvals, records, reports, live, vproject, deployments>>
      /\ faults' \in 0..MaxFaults
  BY Constants DEF Crash, database, vercel, IInv, TypeOK
<1>2. /\ task' \in [Run -> Task] /\ \A x \in Run : task'[x] = task[x] \/ task'[x] = NoTask
  <2>1. task \in [Run -> Task]
    BY DEF IInv, TypeOK, Task
  <2>2. task' = task \/ \E r \in Run : task' = [task EXCEPT ![r] = NoTask]
    BY DEF Crash
  <2> QED
    BY <2>1, <2>2, Gone
<1>3. NoRequest \in Req /\ NoRequest.run = 0
  BY Constants DEF NoRequest, Req, Node
<1>4. req' \in [Requests -> Req] /\ \A o \in Requests : req'[o] = req[o] \/ req'[o] = NoRequest
  <2>1. req \in [Requests -> Req]
    BY DEF IInv, TypeOK, Req
  <2>2. req' = req \/ \E q \in Requests : req' = [req EXCEPT ![q] = NoRequest]
    BY DEF Crash
  <2> QED
    BY <1>3, <2>1, <2>2
<1>5. TypeOK'
  BY <1>1, <1>2, <1>4 DEF IInv, TypeOK, Task, Req
<1>6. RoomLeft'
  <2>1. Active' \subseteq Active /\ Undeployed' \subseteq Undeployed
    BY <1>2, Gone DEF Active, Undeployed
  <2>2. Len(records) \in Nat /\ Len(deployments) \in Nat
    BY DEF IInv, TypeOK
  <2> QED
    BY <1>1, <2>1, <2>2, FewerTasks
<1>7. TasksTrue'
  <2>1. ASSUME NEW x \in Run PROVE TaskTrue(x, task[x])'
    <3>1. TaskTrue(x, task[x])
      BY DEF IInv, TasksTrue
    <3>2. CASE task'[x] = NoTask
      BY <3>2, Gone DEF TaskTrue
    <3>3. CASE task'[x] = task[x]
      BY <1>1, <3>1, <3>3 DEF TaskTrue
    <3> QED
      BY <1>2, <3>2, <3>3
  <2> QED
    BY <2>1 DEF TasksTrue
<1>8. Begun' /\ Reported' /\ SuccessOnce' /\ DeployedShown'
  BY <1>1 DEF IInv, Begun, Reported, SuccessOnce, DeployedShown
<1>9. LiveMade' /\ LiveTrue'
  BY <1>1 DEF IInv, LiveMade, LiveTrue
<1>10. ReqsTrue'
  BY <1>1, <1>3, <1>4 DEF IInv, ReqsTrue
<1> QED
  BY <1>5, <1>6, <1>7, <1>8, <1>9, <1>10 DEF IInv

-----------------------------------------------------------------------------
(* The theorems. *)

(* Every step keeps IInv. *)
LEMMA StepIInv == IInv /\ [Next]_vars => IInv'
<1> SUFFICES ASSUME IInv, [Next]_vars PROVE IInv'
  OBVIOUS
<1>1. ASSUME NEW r \in Run, Enter(r) PROVE IInv'
  BY <1>1, GateIInv, StartIInv DEF Enter
<1>2. ASSUME NEW r \in Run, Execute(r) \/ Refused(r) PROVE IInv'
  BY <1>2, CallIInv, CreateIInv, HealthIInv, SucceedIInv, FailIInv DEF Execute
<1>3. ASSUME NEW r \in Run, Broken(r) PROVE IInv'
  BY <1>3, BrokenIInv
<1>4. CASE Approve \/ Retry \/ Replay
  BY <1>4, ApproveIInv, RetryIInv, ReplayIInv
<1>5. ASSUME NEW q \in Requests, BeginDeploy(q) \/ CommitDeploy(q) PROVE IInv'
  BY <1>5, BeginIInv, CommitIInv
<1>6. CASE Crash \/ BuildEnds
  BY <1>6, CrashIInv, BuildIInv
<1>7. CASE UNCHANGED vars
  <2>1. /\ UNCHANGED <<node, status, approvals, records, reports, live, vproject, deployments>>
        /\ UNCHANGED <<task, req, faults>>
    BY <1>7 DEF vars, database, vercel
  <2>2. TypeOK' /\ RoomLeft' /\ TasksTrue'
    BY <2>1 DEF IInv, TypeOK, RoomLeft, Active, Undeployed, TasksTrue, TaskTrue
  <2>3. Begun' /\ Reported' /\ SuccessOnce' /\ ReqsTrue' /\ DeployedShown'
    BY <2>1 DEF IInv, Begun, Reported, SuccessOnce, ReqsTrue, DeployedShown
  <2>4. LiveMade' /\ LiveTrue'
    BY <2>1 DEF IInv, LiveMade, LiveTrue
  <2> QED
    BY <2>2, <2>3, <2>4 DEF IInv
<1> QED
  BY <1>1, <1>2, <1>3, <1>4, <1>5, <1>6, <1>7 DEF Next

(* IInv is an invariant. *)
LEMMA IInvHolds == Spec => []IInv
BY InitIInv, StepIInv, PTL DEF Spec

(* Every variable has its type, and the bounds of the model leave every      *)
(* invocation that was started the record and the deployment it makes.       *)
THEOREM DeploymentTyped == Spec => []TypeOK
<1>1. IInv => TypeOK
  BY DEF IInv
<1> QED
  BY <1>1, IInvHolds, PTL

(* The live URL is that of a deployment that was READY, answered, and was    *)
(* made by a run whose own deploy gate was approved; a record says so,       *)
(* whatever requests, retries, replays and crashes come (deploy_production.py:62, 161). *)
THEOREM LiveUrlIsTrue == Spec => []LiveTrue
<1>1. IInv => LiveTrue
  BY DEF IInv
<1> QED
  BY <1>1, IInvHolds, PTL

(* A project shown as deployed has a live URL (engine.py:571). *)
THEOREM DeployedHasUrl == Spec => []DeployedShown
<1>1. IInv => DeployedShown
  BY DEF IInv
<1> QED
  BY <1>1, IInvHolds, PTL

(* A run that was never refused a deployment is deployed once, however often *)
(* it is sent through the gate (engine.py:567).                              *)
THEOREM RunsDeployOnce == Spec => []DeployedOnce
<1>1. ASSUME IInv PROVE DeployedOnce
  <2>1. ASSUME NEW r \in Run, "failure" \notin reports[r]
        PROVE  Cardinality({i \in DOMAIN records :
                             records[i].run = r /\ records[i].status = "success"}) <= 1
    <3> DEFINE S == {i \in DOMAIN records :
                       records[i].run = r /\ records[i].status = "success"}
    <3>1. \A i, j \in S : i = j
      BY <1>1, <2>1 DEF IInv, SuccessOnce
    <3>2. S \subseteq 1..Len(records) /\ Len(records) \in Nat
      BY <1>1 DEF IInv, TypeOK
    <3> HIDE DEF S
    <3>3. Cardinality(S) <= 1
      BY <3>1, <3>2, AtMostOne
    <3> QED
      BY <3>3 DEF S
  <2> QED
    BY <2>1 DEF DeployedOnce
<1> QED
  BY <1>1, IInvHolds, PTL

(* No step rewrites the outcome a record says. *)
LEMMA OutcomesStay ==
  ASSUME IInv, [Next]_vars
  PROVE  \A i \in DOMAIN records : records[i].status # "queued" => records'[i] = records[i]
<1>1. CASE UNCHANGED records
  BY <1>1
<1>2. ASSUME NEW r \in Run, Succeed(r) \/ Fail(r) PROVE RecordsGrow
  <2>1. task[r].deployment \in Url /\ 0 \in Url
    BY Constants DEF IInv, TypeOK
  <2> QED
    BY <1>2, <2>1, Settles DEF Succeed, Fail
<1>3. ASSUME NEW q \in Requests, CommitDeploy(q) PROVE RecordsGrow
  BY <1>3, CommitRecords
<1>4. \/ UNCHANGED records
      \/ \E r \in Run : Succeed(r) \/ Fail(r)
      \/ \E q \in Requests : CommitDeploy(q)
  <2>1. CASE UNCHANGED vars
    BY <2>1 DEF vars, database
  <2>2. ASSUME NEW r \in Run, Enter(r) \/ Refused(r) \/ Broken(r) PROVE UNCHANGED records
    BY <2>2 DEF Enter, Arrive, Pass, Park, Skip, Unapproved, Start, Refused, Broken, database
  <2>3. ASSUME NEW r \in Run, Execute(r), ~Succeed(r), ~Fail(r) PROVE UNCHANGED records
    BY <2>3 DEF Execute, Lookup, CreateProject, Conflict, CreateDeployment, KeepPolling,
                PollTimeout, PollEnded, NotReady, HealthCheck, database
  <2>4. CASE Approve \/ Retry \/ Replay \/ Crash \/ BuildEnds
    BY <2>4 DEF Approve, Retry, Replay, Crash, BuildEnds, database
  <2>5. ASSUME NEW q \in Requests, BeginDeploy(q) PROVE UNCHANGED records
    BY <2>5 DEF BeginDeploy, database
  <2> QED
    BY <2>1, <2>2, <2>3, <2>4, <2>5 DEF Next
<1> QED
  BY <1>1, <1>2, <1>3, <1>4 DEF RecordsGrow

(* What a record says was the outcome is never rewritten                     *)
(* (deploy_production.py:356).                                               *)
THEOREM OutcomesAreFinal == Spec => RecordsFinal
<1>1. IInv /\ [Next]_vars =>
        [\A i \in DOMAIN records : records[i].status # "queued" => records'[i] = records[i]]_vars
  BY OutcomesStay
<1> QED
  BY <1>1, IInvHolds, PTL DEF Spec, RecordsFinal

-----------------------------------------------------------------------------
(* Invocations go on. *)

(* Of an invocation, what the steps left depend on. *)
LEMMA TaskFields ==
  ASSUME TypeOK, NEW r \in Run
  PROVE  /\ task[r].pc \in Calls \cup {"idle", "ended", "healthy", "failing"}
         /\ task[r].left \in Nat /\ task[r].left <= MaxPolls /\ MaxPolls \in Nat
<1>1. task[r] \in Task
  BY DEF TypeOK, Task
<1> QED
  BY <1>1, BoundsAssumption DEF Task

(* A step of its own leaves an invocation fewer steps. *)
LEMMA CallShrinks ==
  ASSUME TypeOK, NEW r \in Run, task[r].pc # "idle", Execute(r) \/ Refused(r) \/ Broken(r)
  PROVE  StepsLeft(r)' < StepsLeft(r)
<1>1. task \in [Run -> Task]
  BY DEF TypeOK, Task
<1>2. /\ task[r].pc \in Calls \cup {"idle", "ended", "healthy", "failing"}
      /\ task[r].left \in Nat /\ task[r].left <= MaxPolls /\ MaxPolls \in Nat
  BY TaskFields
<1>3. CASE Lookup(r) \/ CreateProject(r)
  <2>1. task'[r].pc \in {"create", "deploy"} /\ (task[r].pc = "create" => task'[r].pc = "deploy")
    BY <1>1, <1>3 DEF Lookup, CreateProject, Task
  <2> QED
    BY <1>2, <1>3, <2>1 DEF Lookup, CreateProject, StepsLeft
<1>4. CASE CreateDeployment(r)
  <2>1. task'[r].pc = "poll" /\ task'[r].left = MaxPolls
    BY <1>1, <1>4 DEF CreateDeployment
  <2> QED
    BY <1>2, <1>4, <2>1 DEF CreateDeployment, StepsLeft
<1>5. CASE KeepPolling(r)
  <2>1. task'[r].pc = "poll" /\ task'[r].left = task[r].left - 1
    BY <1>1, <1>5 DEF KeepPolling, Task
  <2> QED
    BY <1>2, <1>5, <2>1 DEF KeepPolling, StepsLeft
<1>6. CASE PollEnded(r)
  <2>1. task'[r].pc = "ended"
    BY <1>1, <1>6 DEF PollEnded, Task
  <2> QED
    BY <1>2, <1>6, <2>1 DEF PollEnded, StepsLeft
<1>7. CASE Conflict(r) \/ PollTimeout(r) \/ NotReady(r) \/ HealthCheck(r) \/ Refused(r)
  <2>1. task'[r].pc \in {"healthy", "failing"} /\ task[r].pc \in Calls \cup {"ended"}
    BY <1>1, <1>7 DEF Conflict, PollTimeout, NotReady, HealthCheck, Refused, Task, Calls
  <2> QED
    BY <1>2, <2>1 DEF StepsLeft, Calls
<1>8. CASE Succeed(r) \/ Fail(r) \/ Broken(r)
  <2>1. task'[r].pc = "idle"
    BY <1>1, <1>8 DEF Succeed, Fail, Broken, NoTask
  <2> QED
    BY <1>2, <2>1 DEF StepsLeft, Calls
<1> QED
  BY <1>3, <1>4, <1>5, <1>6, <1>7, <1>8 DEF Execute

(***************************************************************************)
(* Whatever Vercel answers and whoever else acts, an invocation never goes *)
(* back: each of its steps leaves fewer to do, and a crash leaves none     *)
(* (deploy_production.py:109, vercel.py:270).  With fairness,              *)
(* InvocationsEnd.                                                         *)
(***************************************************************************)
THEOREM DeploymentsAdvance == Spec => InvocationsAdvance
<1>1. ASSUME TypeOK, [Next]_vars, NEW r \in Run, task[r].pc # "idle", task'[r] # task[r]
      PROVE  StepsLeft(r)' < StepsLeft(r)
  <2>1. task \in [Run -> Task]
    BY <1>1 DEF TypeOK, Task
  <2>2. ASSUME NEW q \in Run, Execute(q) \/ Refused(q) \/ Broken(q)
        PROVE  StepsLeft(r)' < StepsLeft(r)
    <3>1. \E t : task' = [task EXCEPT ![q] = t]
      <4>1. CASE Refused(q) \/ Broken(q)
        BY <4>1 DEF Refused, Broken
      <4>2. CASE Execute(q)
        BY <4>2 DEF Execute, Lookup, CreateProject, Conflict, CreateDeployment, KeepPolling,
                    PollTimeout, PollEnded, NotReady, HealthCheck, Succeed, Fail
      <4> QED
        BY <2>2, <4>1, <4>2
    <3>2. q = r
      BY <1>1, <2>1, <3>1
    <3> QED
      BY <1>1, <2>2, <3>2, CallShrinks
  <2>3. ASSUME NEW q \in Run, Enter(q) PROVE FALSE
    BY <1>1, <2>1, <2>3 DEF Enter, Arrive, Pass, Park, Skip, Unapproved, Start, AtNode
  <2>4. CASE Crash
    <3>1. task'[r].pc = "idle"
      BY <1>1, <2>1, <2>4 DEF Crash, NoTask
    <3>2. /\ task[r].pc \in Calls \cup {"idle", "ended", "healthy", "failing"}
          /\ task[r].left \in Nat /\ MaxPolls \in Nat
      BY <1>1, TaskFields
    <3> QED
      BY <1>1, <3>1, <3>2 DEF StepsLeft, Calls
  <2>5. ~ Approve /\ ~ Retry /\ ~ Replay /\ ~ BuildEnds /\ ~ UNCHANGED vars
    BY <1>1 DEF Approve, Retry, Replay, BuildEnds, vars
  <2>6. ASSUME NEW q \in Requests PROVE ~ BeginDeploy(q) /\ ~ CommitDeploy(q)
    BY <1>1 DEF BeginDeploy, CommitDeploy
  <2> QED
    BY <1>1, <2>2, <2>3, <2>4, <2>5, <2>6 DEF Next
<1>2. TypeOK /\ [Next]_vars =>
        [\A r \in Run : task[r].pc # "idle" /\ task'[r] # task[r]
                        => StepsLeft(r)' < StepsLeft(r)]_vars
  BY <1>1
<1> QED
  BY <1>2, DeploymentTyped, PTL DEF Spec, InvocationsAdvance

=============================================================================
