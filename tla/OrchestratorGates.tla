------------------------- MODULE OrchestratorGates -------------------------
(***************************************************************************)
(* Proofs of the design and deployment gates, for any number of runs,      *)
(* tasks, requests, retries and faults, and with stale copies of the rows. *)
(***************************************************************************)
EXTENDS OrchestratorTypes

(***************************************************************************)
(* The gates.  Wherever the system keeps a node (the row of a run, what    *)
(* the audit trail and the artifacts say the run reached, the copy of an   *)
(* invocation, the worker's list, a request in flight), a later step may   *)
(* make it the node of that run or of a newer one.  So the gates are       *)
(* inductive only together for all these places: none of them holds a      *)
(* node beyond a gate that nobody has cleared.                             *)
(***************************************************************************)
GateStages == {"design", "deploy"}

Beyond(s) == IF s = "design" THEN BeyondDesign ELSE BeyondDeploy

Allowed(r, n) == \A s \in GateStages : n \in Beyond(s) => ClearedBy(r, s)

RowsAllowed == \A r \in RunIds : Allowed(r, rows[r].node)

TrailAllowed == \A r \in RunIds :
  /\ \A n \in reached[r] : Allowed(r, n)
  /\ Allowed(r, timeline[r].moved) /\ Allowed(r, timeline[r].last)

ArtifactsAllowed == \A r \in RunIds, n \in NodeName :
  ArtifactsOf(n) \cap artifacts[r] # {} => Allowed(r, n)

ProcsAllowed == \A p \in Procs :
  proc[p].pc # "idle" => Allowed(proc[p].run, proc[p].cache.node)

TodoAllowed == \A r \in RunIds : Allowed(r, todo.runs[r].node)

ReqAllowed(a) ==
  a.kind # "idle" =>
    /\ Allowed(a.run, a.seen.node)
    /\ a.kind \in {"retry", "replay"} => Allowed(a.run, a.node)
    /\ \/ a.kind = "deploy"
       \/ a.kind = "approval" /\ a.stage = "deploy"
       => Allowed(a.run, "WaitDeployApproval")

ReqsAllowed == \A q \in Requests : ReqAllowed(reqs[q])

EventsAllowed == \A e \in approvals :
  /\ e.run <= latest
  /\ e.stage = "deploy" => Allowed(e.run, "WaitDeployApproval")

GateInv == /\ RowsAllowed /\ TrailAllowed /\ ArtifactsAllowed
           /\ ProcsAllowed /\ TodoAllowed /\ ReqsAllowed /\ EventsAllowed

-----------------------------------------------------------------------------
(* A gate once cleared stays cleared, for this run and for newer ones.     *)
LEMMA AllowedKept ==
  ASSUME NEW q \in Nat, NEW r \in Nat, q <= r, NEW n,
         approvals \subseteq approvals', Allowed(q, n)
  PROVE  Allowed(r, n) /\ Allowed(r, n)'
<1>1. \A s \in GateStages : ClearedBy(q, s) => ClearedBy(r, s) /\ ClearedBy(r, s)'
  BY DEF ClearedBy, Approved
<1>2. QED BY <1>1 DEF Allowed

(* Before a gate nothing has to be opened. *)
LEMMA NotBeyond ==
  ASSUME NEW r, NEW n \in {"none", "IngestPrompt", "GeneratePRD", "WaitPRDApproval",
                           "GenerateDesign", "WaitDesignApproval", "EndFailed"}
  PROVE  Allowed(r, n) /\ Allowed(r, n)'
BY DEF Allowed, Beyond, BeyondDesign, BeyondDeploy

(* The table leads beyond a gate only from beyond it or from its approval. *)
LEMMA TransitionGate ==
  ASSUME NEW n \in NodeName, NEW o, NEW m \in NodeName, Resolves(n, o, m),
         NEW s \in GateStages, m \in Beyond(s)
  PROVE  n \in Beyond(s) \/ (o = "approved" /\ n = STAGE_TO_WAIT_NODE[s])
<1>1. ASSUME NEW x, <<n, x, m>> \in TRANSITIONS
      PROVE  n \in Beyond(s) \/ (x = "approved" /\ n = STAGE_TO_WAIT_NODE[s])
  BY <1>1 DEF TRANSITIONS, GateStages, Beyond, BeyondDesign, BeyondDeploy, STAGE_TO_WAIT_NODE
<1>2. \A alias \in OutcomeAlias : alias[2] # "approved"
  BY DEF OutcomeAlias
<1>3. CASE <<n, o, m>> \in TRANSITIONS
  BY <1>1, <1>3
<1>4. CASE \E alias \in OutcomeAlias : <<n, alias[2], m>> \in TRANSITIONS
  <2>1. PICK alias \in OutcomeAlias : <<n, alias[2], m>> \in TRANSITIONS
    BY <1>4
  <2>2. n \in Beyond(s) \/ (alias[2] = "approved" /\ n = STAGE_TO_WAIT_NODE[s])
    BY <1>1, <2>1
  <2>3. QED BY <1>2, <2>2
<1>5. QED BY <1>3, <1>4 DEF Resolves

(* The stage whose decision the handler of a wait node reads.              *)
LEMMA StageOf ==
  ASSUME NEW s \in Stages
  PROVE  STAGE_TO_WAIT_NODE[s] \in WaitNodes /\ WAIT_NODE_TO_STAGE[STAGE_TO_WAIT_NODE[s]] = s
<1>1. \A t, u \in Stages : STAGE_TO_WAIT_NODE[t] = STAGE_TO_WAIT_NODE[u] => t = u
  BY DEF Stages, STAGE_TO_WAIT_NODE
<1>2. STAGE_TO_WAIT_NODE[s] \in WaitNodes
  BY DEF Stages, STAGE_TO_WAIT_NODE, WaitNodes
<1>3. (CHOOSE t \in Stages : STAGE_TO_WAIT_NODE[t] = STAGE_TO_WAIT_NODE[s]) = s
  BY <1>1
<1>4. QED BY <1>2, <1>3 DEF WAIT_NODE_TO_STAGE

(* A handler's outcome opens a gate only by an approval of the run.        *)
LEMMA OutcomeGate ==
  ASSUME NEW r \in RunIds, NEW n \in NodeName, NEW o, NEW made, NEW m \in NodeName,
         Resolves(n, o, m), HandlerResult(r, n, o, made), Allowed(r, n)
  PROVE  Allowed(r, m)
<1> SUFFICES ASSUME NEW s \in GateStages, m \in Beyond(s) PROVE ClearedBy(r, s)
  BY DEF Allowed
<1>1. CASE n \in Beyond(s)
  BY <1>1 DEF Allowed
<1>2. CASE o = "approved" /\ n = STAGE_TO_WAIT_NODE[s]
  <2>1. s \in Stages
    BY DEF GateStages, Stages
  <2>2. LatestDecision(r, s, "approved")
    BY <1>2, <2>1, StageOf DEF HandlerResult, WaitApprovalHandler, IngestPromptHandler,
       GeneratePRDHandler, GenerateDesignHandler, WriteCodeHandler,
       SecurityGateHandler, PreparePRHandler, DeployProductionHandler
  <2>3. Approved(r, s)
    BY <2>2 DEF LatestDecision, EventsOf, Approved
  <2>4. QED BY <2>3 DEF ClearedBy, RunIds
<1>3. QED BY <1>1, <1>2, TransitionGate

(* No run, no gate passed: the start satisfies GateInv. *)
LEMMA InitGates == SystemInit => GateInv
<1> SUFFICES ASSUME SystemInit PROVE GateInv
  OBVIOUS
<1>1. \A r \in RunIds : Allowed(r, "none")
  BY NotBeyond
<1>2. RowsAllowed /\ TrailAllowed /\ TodoAllowed
  BY <1>1 DEF SystemInit, Init, RowsAllowed, TrailAllowed, TodoAllowed, NoRow,
              NoAttempt, IdleTodo
<1>3. ArtifactsAllowed
  BY DEF SystemInit, Init, ArtifactsAllowed
<1>4. ProcsAllowed /\ ReqsAllowed /\ EventsAllowed
  BY DEF SystemInit, Init, ProcsAllowed, ReqsAllowed, ReqAllowed, EventsAllowed,
         IdleProc, IdleRequest
<1>5. QED BY <1>2, <1>3, <1>4 DEF GateInv

(* Steps that record no new approval keep what is allowed.                 *)
LEMMA SameApprovals ==
  ASSUME approvals' = approvals
  PROVE  \A r, n : Allowed(r, n)' = Allowed(r, n)
BY DEF Allowed, ClearedBy, Approved

-----------------------------------------------------------------------------
(* Invocations. *)

(* The row of a run after a session flushed a node that is allowed.        *)
LEMMA WriteGates ==
  ASSUME TypeInv, GateInv, NEW p \in Procs, proc[p].pc # "idle",
         NEW new \in Row, Write(p, new), approvals' = approvals,
         Allowed(proc[p].run, new.node)
  PROVE  RowsAllowed'
<1> DEFINE r == proc[p].run
           row == Flush(r, proc[p].cache, new)
<1>1. row.node = new.node \/ row.node = rows[r].node
  BY FlushType, ProcTypes DEF TypeInv, TypeOK
<1>2. r \in RunIds /\ rows' = [rows EXCEPT ![r] = row]
  BY ProcTypes DEF Write
<1> HIDE DEF row
<1>3. \A x \in RunIds : Allowed(x, rows'[x].node)
  BY <1>1, <1>2 DEF TypeInv, TypeOK, GateInv, RowsAllowed
<1>4. QED BY <1>3, SameApprovals DEF RowsAllowed

(* Audit events that name allowed nodes keep TrailAllowed. *)
LEMMA AuditGates ==
  ASSUME TypeInv, GateInv, NEW r \in RunIds, NEW nodes, Audit(r, nodes),
         approvals' = approvals, \A n \in nodes : Allowed(r, n)
  PROVE  \A x \in RunIds : \A n \in reached'[x] : Allowed(x, n)'
<1>1. \A x \in RunIds : \A n \in reached'[x] : Allowed(x, n)
  BY DEF Audit, TypeInv, TypeOK, GateInv, TrailAllowed
<1>2. QED BY <1>1, SameApprovals

(* An invocation that ends.                                                *)
LEMMA ReturnGates ==
  ASSUME TypeInv, GateInv, NEW p \in Procs, Return(p), approvals' = approvals
  PROVE  ProcsAllowed'
<1>1. \A x \in Procs : proc'[x] = proc[x] \/ proc'[x] = IdleProc
  BY DEF TypeInv, TypeOK, Return
<1>2. QED BY <1>1, IdleTypes, SameApprovals DEF GateInv, ProcsAllowed

(* The parts of the invariant a step leaves alone.                         *)
LEMMA OtherGates ==
  ASSUME GateInv, approvals' = approvals, latest' = latest
  PROVE  /\ rows' = rows => RowsAllowed'
         /\ UNCHANGED <<reached, timeline>> => TrailAllowed'
         /\ artifacts' = artifacts => ArtifactsAllowed'
         /\ proc' = proc => ProcsAllowed'
         /\ todo' = todo => TodoAllowed'
         /\ reqs' = reqs => ReqsAllowed'
         /\ EventsAllowed'
<1>1. \A r, n : Allowed(r, n)' = Allowed(r, n)
  BY SameApprovals
<1>2. reqs' = reqs => ReqsAllowed'
  BY <1>1 DEF GateInv, ReqsAllowed, ReqAllowed
<1>3. QED BY <1>1, <1>2 DEF GateInv, RowsAllowed, TrailAllowed, ArtifactsAllowed, ProcsAllowed,
                            TodoAllowed, EventsAllowed

(* An invocation that advances to an allowed node keeps GateInv. *)
LEMMA AdvanceGates ==
  ASSUME TypeInv, GateInv, NEW p \in Procs, proc[p].pc # "idle",
         NEW m \in NodeName, NEW o, NEW retry \in Nat,
         proc[p].cache.node \in NodeName, Allowed(proc[p].run, m),
         Advance(p, o, m, retry),
         UNCHANGED <<latest, approvals, todo, reqs>>
  PROVE  RowsAllowed' /\ TrailAllowed' /\ ProcsAllowed'
<1> DEFINE r == proc[p].run
           n == proc[p].cache.node
           new == [RowAt(m) EXCEPT !.retry = retry]
<1>1. new \in Row /\ new.node = m /\ r \in RunIds
  BY RowAtType, ProcTypes DEF Row
<1>2. Allowed(r, n)
  BY DEF GateInv, ProcsAllowed
<1>3. /\ Write(p, new) /\ Audit(r, {n, m})
      /\ proc' = [proc EXCEPT ![p].pc = IF m \in WaitNodes THEN "parked" ELSE "lock",
                              ![p].cache = new]
      /\ timeline' = [timeline EXCEPT ![r].last = n,
           ![r].moved = IF m = "EndFailed" /\ o \in {"failure", "failed"} THEN n ELSE @]
  BY DEF Advance
<1> HIDE DEF new
<1>4. RowsAllowed'
  BY <1>1, <1>3, WriteGates
<1>5. \A x \in RunIds : \A k \in reached'[x] : Allowed(x, k)'
  BY <1>1, <1>2, <1>3, AuditGates
<1>6. \A x \in RunIds : Allowed(x, timeline'[x].moved) /\ Allowed(x, timeline'[x].last)
  BY <1>1, <1>2, <1>3 DEF TypeInv, TypeOK, Attempt, GateInv, TrailAllowed
<1>7. TrailAllowed'
  BY <1>5, <1>6, SameApprovals DEF TrailAllowed
<1>8. proc'[p].run = r /\ proc'[p].cache.node = m
  BY <1>1, <1>3 DEF TypeInv, TypeOK, ProcState
<1>9. \A x \in Procs \ {p} : proc'[x] = proc[x]
  BY <1>3 DEF TypeInv, TypeOK
<1>10. ProcsAllowed'
  BY <1>8, <1>9, SameApprovals DEF GateInv, ProcsAllowed
<1>11. QED BY <1>4, <1>7, <1>10

(* Failing a run keeps GateInv. *)
LEMMA ToFailedGates ==
  ASSUME TypeInv, GateInv, NEW p \in Procs, proc[p].pc # "idle",
         proc[p].cache.node \in NodeName, NEW retry \in Nat,
         ToFailed(p, retry), approvals' = approvals
  PROVE  RowsAllowed' /\ TrailAllowed'
<1> DEFINE r == proc[p].run
           n == proc[p].cache.node
           new == [RowAt("EndFailed") EXCEPT !.retry = retry]
<1>1. "EndFailed" \in NodeName /\ r \in RunIds
  BY ProcTypes DEF NodeName
<1>2. new \in Row /\ new.node = "EndFailed"
  BY <1>1, RowAtType DEF Row
<1>3. Allowed(r, n) /\ Allowed(r, "EndFailed")
  BY NotBeyond DEF GateInv, ProcsAllowed
<1>4. /\ Write(p, new) /\ Audit(r, {n, "EndFailed"})
      /\ timeline' = [timeline EXCEPT ![r].last = n]
  BY DEF ToFailed
<1> HIDE DEF new
<1>5. RowsAllowed'
  BY <1>2, <1>3, <1>4, WriteGates
<1>6. \A x \in RunIds : \A k \in reached'[x] : Allowed(x, k)'
  BY <1>1, <1>3, <1>4, AuditGates
<1>7. \A x \in RunIds : Allowed(x, timeline'[x].moved) /\ Allowed(x, timeline'[x].last)
  BY <1>1, <1>3, <1>4 DEF TypeInv, TypeOK, Attempt, GateInv, TrailAllowed
<1>8. TrailAllowed'
  BY <1>6, <1>7, SameApprovals DEF TrailAllowed
<1>9. QED BY <1>5, <1>8

(* StartTask keeps GateInv. *)
LEMMA StartTaskGates ==
  ASSUME TypeInv, GateInv, NEW t \in Tasks, NEW r \in RunIds, StartTask(t, r)
  PROVE  GateInv'
<1>1. /\ proc' = [proc EXCEPT ![t] = [IdleProc EXCEPT !.pc = "lock", !.run = r]]
      /\ UNCHANGED <<tables, todo, reqs>>
  BY DEF StartTask
<1>2. /\ proc'[t].cache = NoRow
      /\ \A x \in Procs \ {t} : proc'[x] = proc[x]
  BY <1>1 DEF TypeInv, TypeOK, IdleProc, Procs
<1>3. \A x : Allowed(x, NoRow.node)
  BY NotBeyond DEF NoRow
<1>4. ProcsAllowed'
  BY <1>1, <1>2, <1>3, SameApprovals DEF GateInv, ProcsAllowed, tables
<1>5. QED BY <1>1, <1>4, OtherGates DEF GateInv, tables, evidence

(* Lock keeps GateInv. *)
LEMMA LockGates ==
  ASSUME TypeInv, GateInv, NEW p \in Procs, Lock(p) \/ LockMiss(p)
  PROVE  GateInv'
<1> DEFINE r == proc[p].run
<1>1. proc[p].pc = "lock" /\ UNCHANGED <<tables, tasks, todo, reqs>>
  BY DEF Lock, LockMiss
<1>2. r \in RunIds /\ proc[p] \in ProcState
  BY <1>1, ProcTypes
<1>3. /\ proc'[p].run = r
      /\ proc'[p].cache = proc[p].cache \/ proc'[p].cache = rows[r]
      /\ \A x \in Procs \ {p} : proc'[x] = proc[x]
  BY <1>2 DEF Lock, LockMiss, TypeInv, TypeOK, ProcState
<1>4. Allowed(r, proc[p].cache.node) /\ Allowed(r, rows[r].node)
  BY <1>1, <1>2 DEF GateInv, ProcsAllowed, RowsAllowed
<1>5. ProcsAllowed'
  BY <1>1, <1>3, <1>4, SameApprovals DEF GateInv, ProcsAllowed, tables
<1>6. QED BY <1>1, <1>5, OtherGates DEF GateInv, tables, evidence

(* An artifact tells of the node that makes its type, and of no other.     *)
LEMMA ArtifactNode ==
  ASSUME NEW n \in NodeName, NEW m \in NodeName, NEW a,
         a \in ArtifactsOf(n), a \in ArtifactsOf(m)
  PROVE  n = m
BY DEF ArtifactsOf

(* Execute keeps GateInv. *)
LEMMA ExecuteGates ==
  ASSUME TypeInv, GateInv, NEW p \in Procs, Execute(p)
  PROVE  GateInv'
<1> DEFINE r == proc[p].run
           n == proc[p].cache.node
<1>1. /\ proc[p].pc # "idle"
      /\ UNCHANGED <<latest, approvals, jobs, tasks, todo, reqs>>
  BY DEF Execute
<1>2. PICK o \in Outcome, m \in NodeName, made \in Products(n) :
        /\ Resolves(n, o, m)
        /\ HandlerResult(r, n, o, made)
        /\ Advance(p, o, m, 0)
        /\ Persist(r, o, made)
  BY DEF Execute
<1>3. n \in NodeName /\ r \in RunIds /\ Allowed(r, n)
  BY <1>1, <1>2, HandlerTypes, ProcTypes DEF GateInv, ProcsAllowed
<1>4. Allowed(r, m)
  BY <1>2, <1>3, OutcomeGate
<1>5. RowsAllowed' /\ TrailAllowed' /\ ProcsAllowed'
  BY <1>1, <1>2, <1>3, <1>4, AdvanceGates
<1>6. ASSUME NEW x \in RunIds, NEW k \in NodeName,
             ArtifactsOf(k) \cap artifacts'[x] # {}
      PROVE  Allowed(x, k)
  <2>1. CASE ArtifactsOf(k) \cap artifacts[x] # {}
    BY <2>1 DEF GateInv, ArtifactsAllowed
  <2>2. CASE x = r /\ ArtifactsOf(k) \cap made # {}
    <3>1. PICK a : a \in ArtifactsOf(k) /\ a \in made
      BY <2>2
    <3>2. a \in ArtifactsOf(n)
      BY <3>1 DEF Products
    <3>3. k = n
      BY <1>3, <3>1, <3>2, ArtifactNode
    <3>4. QED BY <1>3, <2>2, <3>3
  <2>3. artifacts'[x] \subseteq artifacts[x] \cup made
    BY <1>2 DEF Persist, TypeInv, TypeOK
  <2>4. x # r => artifacts'[x] = artifacts[x]
    BY <1>2 DEF Persist, TypeInv, TypeOK
  <2>5. QED BY <1>6, <2>1, <2>2, <2>3, <2>4
<1>7. ArtifactsAllowed'
  BY <1>1, <1>6, SameApprovals DEF ArtifactsAllowed
<1>8. QED BY <1>1, <1>5, <1>7, OtherGates DEF GateInv

(* Skip keeps GateInv. *)
LEMMA SkipGates ==
  ASSUME TypeInv, GateInv, NEW p \in Procs, Skip(p)
  PROVE  GateInv'
<1> DEFINE r == proc[p].run
           n == proc[p].cache.node
<1>1. /\ proc[p].pc # "idle" /\ n \in NodeName
      /\ UNCHANGED <<latest, approvals, evidence, jobs, tasks, todo, reqs>>
  BY DEF Skip, MaySkip, IdempotentNodes, NodeName
<1>2. PICK m \in NodeName :
        Resolves(n, "passed", m) /\ Advance(p, "passed", m, proc[p].cache.retry)
  BY DEF Skip
<1>3. Allowed(r, n) /\ proc[p].cache.retry \in Nat
  BY <1>1, ProcTypes DEF GateInv, ProcsAllowed, Row
<1>4. Allowed(r, m)
  <2>1. \A s \in GateStages : m \in Beyond(s) => n \in Beyond(s)
    BY <1>1, <1>2, TransitionGate
  <2>2. QED BY <1>3, <2>1 DEF Allowed
<1>5. RowsAllowed' /\ TrailAllowed' /\ ProcsAllowed'
  BY <1>1, <1>2, <1>3, <1>4, AdvanceGates
<1>6. QED BY <1>1, <1>5, OtherGates DEF GateInv, evidence

(* ParkWaiting keeps GateInv. *)
LEMMA ParkWaitingGates ==
  ASSUME TypeInv, GateInv, NEW p \in Procs, ParkWaiting(p)
  PROVE  GateInv'
<1>1. /\ proc[p].pc # "idle" /\ Return(p)
      /\ Audit(proc[p].run, {proc[p].cache.node})
      /\ UNCHANGED <<latest, rows, approvals, timeline, evidence, tasks, todo, reqs>>
  BY DEF ParkWaiting
<1>2. proc[p].run \in RunIds /\ Allowed(proc[p].run, proc[p].cache.node)
  BY <1>1, ProcTypes DEF GateInv, ProcsAllowed
<1>3. \A x \in RunIds : \A k \in reached'[x] : Allowed(x, k)'
  BY <1>1, <1>2, AuditGates
<1>4. TrailAllowed'
  BY <1>1, <1>3, SameApprovals DEF GateInv, TrailAllowed
<1>5. ProcsAllowed'
  BY <1>1, ReturnGates
<1>6. QED BY <1>1, <1>4, <1>5, OtherGates DEF GateInv, evidence

(* Terminal keeps GateInv. *)
LEMMA TerminalGates ==
  ASSUME TypeInv, GateInv, NEW p \in Procs, Terminal(p)
  PROVE  GateInv'
<1> DEFINE n == proc[p].cache.node
           new == [proc[p].cache EXCEPT !.status = NODE_TO_PROJECT_STATUS[n]]
<1>1. /\ proc[p].pc # "idle" /\ n \in NodeName /\ Return(p)
      /\ Write(p, new) /\ Audit(proc[p].run, {n})
      /\ UNCHANGED <<latest, approvals, timeline, evidence, tasks, todo, reqs>>
  BY DEF Terminal, TerminalNodes, NodeName
<1>2. proc[p].run \in RunIds /\ Allowed(proc[p].run, n)
  BY <1>1, ProcTypes DEF GateInv, ProcsAllowed
<1>3. new \in Row /\ new.node = n
  <2>1. NODE_TO_PROJECT_STATUS[n] \in ProjectStatus
    BY <1>1 DEF NODE_TO_PROJECT_STATUS, ProjectStatus, NodeName
  <2>2. QED BY <1>1, <2>1, ProcTypes DEF Row
<1> HIDE DEF new
<1>4. RowsAllowed'
  BY <1>1, <1>2, <1>3, WriteGates
<1>5. \A x \in RunIds : \A k \in reached'[x] : Allowed(x, k)'
  BY <1>1, <1>2, AuditGates
<1>6. TrailAllowed'
  BY <1>1, <1>5, SameApprovals DEF GateInv, TrailAllowed
<1>7. ProcsAllowed'
  BY <1>1, ReturnGates
<1>8. QED BY <1>1, <1>4, <1>6, <1>7, OtherGates DEF GateInv, evidence

(* Fail keeps GateInv. *)
LEMMA FailGates ==
  ASSUME TypeInv, GateInv, NEW p \in Procs, Fail(p)
  PROVE  GateInv'
<1>1. /\ proc[p].pc # "idle" /\ proc[p].cache.node \in NodeName /\ Return(p)
      /\ ToFailed(p, proc[p].cache.retry)
      /\ UNCHANGED <<latest, approvals, evidence, tasks, todo, reqs>>
  BY UnreliableAssumption DEF Fail
<1>2. proc[p].cache.retry \in Nat
  BY <1>1, ProcTypes DEF Row
<1>3. RowsAllowed' /\ TrailAllowed' /\ ProcsAllowed'
  BY <1>1, <1>2, ToFailedGates, ReturnGates
<1>4. QED BY <1>1, <1>3, OtherGates DEF GateInv, evidence

(* RetryLater keeps GateInv. *)
LEMMA RetryLaterGates ==
  ASSUME TypeInv, GateInv, NEW p \in Procs, RetryLater(p)
  PROVE  GateInv'
<1> DEFINE attempt == proc[p].cache.retry + 1
           new == [proc[p].cache EXCEPT !.retry = attempt]
<1>1. /\ proc[p].pc # "idle" /\ proc[p].cache.node \in NodeName /\ Return(p)
      /\ UNCHANGED <<latest, approvals, evidence, tasks, todo, reqs>>
  BY UnreliableAssumption DEF RetryLater
<1>2. attempt \in Nat /\ new \in Row /\ new.node = proc[p].cache.node
  BY <1>1, ProcTypes DEF Row
<1>3. RowsAllowed' /\ TrailAllowed'
  <2>1. CASE attempt > MaxRetries
    BY <1>1, <1>2, <2>1, ToFailedGates DEF RetryLater
  <2>2. CASE ~(attempt > MaxRetries)
    <3>1. /\ Write(p, new) /\ UNCHANGED timeline
          /\ Audit(proc[p].run, {proc[p].cache.node})
      BY <2>2 DEF RetryLater
    <3>2. proc[p].run \in RunIds /\ Allowed(proc[p].run, proc[p].cache.node)
      BY <1>1, ProcTypes DEF GateInv, ProcsAllowed
    <3> HIDE DEF new
    <3>3. RowsAllowed'
      BY <1>1, <1>2, <3>1, <3>2, WriteGates
    <3>4. \A x \in RunIds : \A k \in reached'[x] : Allowed(x, k)'
      BY <1>1, <3>1, <3>2, AuditGates
    <3>5. TrailAllowed'
      BY <1>1, <3>1, <3>4, SameApprovals DEF GateInv, TrailAllowed
    <3>6. QED BY <3>3, <3>5
  <2>3. QED BY <2>1, <2>2
<1>4. ProcsAllowed'
  BY <1>1, ReturnGates
<1>5. QED BY <1>1, <1>3, <1>4, OtherGates DEF GateInv, evidence

(* Close keeps GateInv. *)
LEMMA CloseGates ==
  ASSUME TypeInv, GateInv, NEW p \in Procs, Close(p)
  PROVE  GateInv'
<1>1. /\ Return(p)
      /\ UNCHANGED <<latest, rows, project, approvals, reached, timeline,
                     evidence, tasks, todo, reqs>>
  BY DEF Close
<1>2. ProcsAllowed'
  BY <1>1, ReturnGates
<1>3. QED BY <1>1, <1>2, OtherGates DEF GateInv, evidence

-----------------------------------------------------------------------------
(* The worker. *)

(* A list of rows of the table, or of ones listed before, keeps GateInv. *)
LEMMA TodoGates ==
  ASSUME TypeInv, GateInv, UNCHANGED <<tables, tasks, proc, reqs>>,
         \A r \in RunIds : todo'.runs[r] \in {rows[r], todo.runs[r], NoRow}
  PROVE  GateInv'
<1>1. \A r \in RunIds : Allowed(r, NoRow.node)
  BY NotBeyond DEF NoRow
<1>2. TodoAllowed'
  BY <1>1, SameApprovals DEF GateInv, TodoAllowed, RowsAllowed, tables
<1>3. QED BY <1>2, OtherGates DEF GateInv, tables, evidence

(* So do the worker's reads of its lists, *)
LEMMA ListGates ==
  ASSUME TypeInv, GateInv, (\E due : PollJobs(due)) \/ LoadPending \/ EndCycle
  PROVE  GateInv'
<1>1. UNCHANGED <<tables, tasks, proc, reqs>>
  BY DEF PollJobs, LoadPending, EndCycle
<1>2. ASSUME NEW r \in RunIds PROVE todo'.runs[r] \in {rows[r], NoRow}
  <2>1. CASE \E due : PollJobs(due)
    <3>1. PICK due : PollJobs(due)
      BY <2>1
    <3>2. todo'.runs = IdleTodo.runs
      BY <3>1 DEF PollJobs, IdleTodo
    <3>3. QED BY <3>2 DEF IdleTodo
  <2>2. CASE LoadPending
    BY <2>2 DEF LoadPending, IdleTodo
  <2>3. CASE EndCycle
    BY <2>3 DEF EndCycle, IdleTodo
  <2>4. QED BY <2>1, <2>2, <2>3
<1>3. QED BY <1>1, <1>2, TodoGates

(* The worker takes a run from one of its lists, with the copy it has.     *)
LEMMA NextGates ==
  ASSUME TypeInv, GateInv, NEW r \in RunIds, NextJob(r) \/ NextRun(r)
  PROVE  GateInv'
<1>1. UNCHANGED <<tables, tasks, reqs>>
  BY DEF NextJob, NextRun
<1>2. /\ proc'[Worker].run = r
      /\ proc'[Worker].cache = NoRow \/ proc'[Worker].cache = todo.runs[r]
      /\ \A x \in Procs \ {Worker} : proc'[x] = proc[x]
  BY DEF NextJob, NextRun, TypeInv, TypeOK, Procs
<1>3. Allowed(r, NoRow.node) /\ Allowed(r, todo.runs[r].node)
  BY NotBeyond DEF NoRow, GateInv, TodoAllowed
<1>4. ProcsAllowed'
  BY <1>1, <1>2, <1>3, SameApprovals DEF GateInv, ProcsAllowed, tables
<1>5. \A x \in RunIds : todo'.runs[x] \in {todo.runs[x], NoRow}
  BY DEF NextJob, NextRun, TypeInv, TypeOK, TodoState
<1>6. TodoAllowed'
  BY <1>1, <1>5, NotBeyond, SameApprovals DEF GateInv, TodoAllowed, NoRow, tables
<1>7. QED BY <1>1, <1>4, <1>6, OtherGates DEF GateInv, tables, evidence

(* The ways an invocation ends early keep GateInv. *)
LEMMA EndsGates ==
  ASSUME TypeInv, GateInv, NEW p \in Procs, Miss(p) \/ Abort(p) \/ WorkerCrash
  PROVE  GateInv'
<1>1. \E x \in Procs : Return(x)
  BY DEF Miss, Abort, WorkerCrash, Procs
<1>2. todo' \in {todo, IdleTodo} /\ UNCHANGED <<tables, tasks, reqs>>
  BY DEF Miss, Abort, WorkerCrash, AfterRollback
<1>3. ProcsAllowed'
  BY <1>1, <1>2, ReturnGates DEF tables
<1>4. TodoAllowed'
  BY <1>2, NotBeyond, SameApprovals DEF GateInv, TodoAllowed, IdleTodo, NoRow, tables
<1>5. QED BY <1>2, <1>3, <1>4, OtherGates DEF GateInv, tables, evidence

(* ApiCrash keeps GateInv. *)
LEMMA ApiCrashGates ==
  ASSUME TypeInv, GateInv, ApiCrash
  PROVE  GateInv'
<1>1. /\ \A x \in Procs : proc'[x] = proc[x] \/ proc'[x] = IdleProc
      /\ \A q \in Requests : reqs'[q] = IdleRequest
      /\ UNCHANGED <<tables, todo>>
  BY DEF ApiCrash
<1>2. ProcsAllowed'
  BY <1>1, IdleTypes, SameApprovals DEF GateInv, ProcsAllowed, tables
<1>3. ReqsAllowed'
  BY <1>1, IdleTypes DEF ReqsAllowed, ReqAllowed
<1>4. QED BY <1>1, <1>2, <1>3, OtherGates DEF GateInv, tables, evidence

-----------------------------------------------------------------------------
(* Requests. *)

(* The newest run is where it may be. *)
LEMMA LatestAllowed ==
  ASSUME TypeInv, GateInv, latest # 0
  PROVE  latest \in RunIds /\ Allowed(latest, rows[latest].node)
BY DEF TypeInv, TypeOK, RunIds, GateInv, RowsAllowed

(* A request that has read and goes in flight.                             *)
LEMMA BeginGates ==
  ASSUME TypeInv, GateInv, NEW q \in Requests, NEW request, ReqAllowed(request),
         Begin(q, request), UNCHANGED <<tables, tasks, proc, todo>>
  PROVE  GateInv'
<1>1. \A x \in Requests : reqs'[x] = reqs[x] \/ reqs'[x] = request
  BY DEF TypeInv, TypeOK, Begin
<1>2. ReqsAllowed'
  BY <1>1, SameApprovals DEF GateInv, ReqsAllowed, ReqAllowed, tables
<1>3. QED BY <1>2, OtherGates DEF GateInv, tables, evidence

(* BeginApproval keeps GateInv. *)
LEMMA BeginApprovalGates ==
  ASSUME TypeInv, GateInv, NEW q \in Requests, NEW s \in Stages, NEW d \in Decisions,
         BeginApproval(q, s, d)
  PROVE  GateInv'
<1>1. PICK k \in 1..MaxEvents :
        Begin(q, [ReadLatest("approval") EXCEPT !.stage = s, !.decision = d, !.at = k])
  BY DEF BeginApproval
<1>2. /\ latest # 0 /\ rows[latest].node = STAGE_TO_WAIT_NODE[s]
      /\ UNCHANGED <<tables, tasks, proc, todo>>
  BY DEF BeginApproval
<1> DEFINE read == ReadLatest("approval")
           request == [read EXCEPT !.stage = s, !.decision = d, !.at = k]
<1>3. /\ read \in RequestState /\ read.kind = "approval" /\ read.run = latest
      /\ read.seen = rows[latest]
  BY <1>2, ReadLatestType DEF Kinds
<1>4. Begin(q, request)
  BY <1>1
<1> HIDE DEF read
<1>5. /\ request.kind = "approval" /\ request.run = latest /\ request.stage = s
      /\ request.seen = rows[latest]
  BY <1>3 DEF RequestState
<1>6. s = "deploy" => rows[latest].node = "WaitDeployApproval"
  BY <1>2 DEF STAGE_TO_WAIT_NODE
<1> HIDE DEF request
<1>7. ReqAllowed(request)
  BY <1>2, <1>5, <1>6, LatestAllowed DEF ReqAllowed
<1>8. QED BY <1>2, <1>4, <1>7, BeginGates

(* BeginRetry keeps GateInv. *)
LEMMA BeginRetryGates ==
  ASSUME TypeInv, GateInv, NEW q \in Requests, BeginRetry(q)
  PROVE  GateInv'
<1> DEFINE n == FailedNode(latest)
           read == ReadLatest("retry")
           request == [read EXCEPT !.node = n]
<1>1. /\ latest # 0 /\ Begin(q, request) /\ UNCHANGED <<tables, tasks, proc, todo>>
  BY DEF BeginRetry
<1>2. /\ read \in RequestState /\ read.kind = "retry" /\ read.run = latest
      /\ read.seen = rows[latest] /\ latest \in RunIds
  BY <1>1, ReadLatestType DEF Kinds
<1>3. Allowed(latest, n)
  BY <1>1, <1>2, LatestAllowed DEF FailedNode, GateInv, TrailAllowed
<1> HIDE DEF read, n
<1>4. /\ request.kind = "retry" /\ request.run = latest /\ request.node = n
      /\ request.seen = rows[latest]
  BY <1>2 DEF RequestState
<1> HIDE DEF request
<1>5. ReqAllowed(request)
  BY <1>1, <1>3, <1>4, LatestAllowed DEF ReqAllowed
<1>6. QED BY <1>1, <1>5, BeginGates

(* What _was_node_previously_reached accepts is behind the cleared gates.  *)
LEMMA ReachedAllowed ==
  ASSUME TypeInv, GateInv, latest # 0, NEW n \in NodeName, WasReached(latest, n)
  PROVE  Allowed(latest, n)
<1> DEFINE here == rows[latest].node
<1>1. /\ latest \in RunIds /\ Allowed(latest, here) /\ here \in NodeName
  BY LatestAllowed, ReadLatestType DEF Kinds
<1>2. CASE n = "IngestPrompt" \/ n = here
  BY <1>1, <1>2, NotBeyond
<1>3. CASE here = "EndSuccess"
  BY <1>1, <1>3 DEF Allowed, GateStages, Beyond, BeyondDesign, BeyondDeploy, ClearedBy
<1>4. CASE here # "EndFailed" /\ NODE_PROGRESS_INDEX[here] >= NODE_PROGRESS_INDEX[n]
  <2>1. \A s \in GateStages : n \in Beyond(s) => here \in Beyond(s)
    BY <1>1, <1>4 DEF NODE_PROGRESS_INDEX, GateStages, Beyond, BeyondDesign,
                      BeyondDeploy, NodeName
  <2>2. QED BY <1>1, <2>1 DEF Allowed
<1>5. CASE n \in reached[latest] \/ ArtifactsOf(n) \cap artifacts[latest] # {}
  BY <1>1, <1>5 DEF GateInv, TrailAllowed, ArtifactsAllowed
<1>6. CASE \E s \in Stages : n = STAGE_TO_WAIT_NODE[s] /\ EventsOf(latest, s) # {}
  <2>1. PICK s \in Stages : n = STAGE_TO_WAIT_NODE[s] /\ EventsOf(latest, s) # {}
    BY <1>6
  <2>2. CASE s = "deploy"
    BY <2>1, <2>2 DEF STAGE_TO_WAIT_NODE, EventsOf, GateInv, EventsAllowed
  <2>3. CASE s # "deploy"
    BY <2>1, <2>3, NotBeyond DEF STAGE_TO_WAIT_NODE, Stages
  <2>4. QED BY <2>2, <2>3
<1>7. QED BY <1>2, <1>3, <1>4, <1>5, <1>6 DEF WasReached

(* BeginReplay keeps GateInv. *)
LEMMA BeginReplayGates ==
  ASSUME TypeInv, GateInv, NEW q \in Requests, NEW n \in NodeName, BeginReplay(q, n)
  PROVE  GateInv'
<1>1. PICK k \in RunIds : Begin(q, [ReadLatest("replay") EXCEPT !.node = n, !.at = k])
  BY DEF BeginReplay
<1>2. /\ latest # 0 /\ WasReached(latest, n) /\ UNCHANGED <<tables, tasks, proc, todo>>
  BY DEF BeginReplay
<1> DEFINE read == ReadLatest("replay")
           request == [read EXCEPT !.node = n, !.at = k]
<1>3. /\ read \in RequestState /\ read.kind = "replay" /\ read.run = latest
      /\ read.seen = rows[latest]
  BY <1>2, ReadLatestType DEF Kinds
<1>4. Begin(q, request)
  BY <1>1
<1> HIDE DEF read
<1>5. /\ request.kind = "replay" /\ request.run = latest /\ request.node = n
      /\ request.seen = rows[latest]
  BY <1>3 DEF RequestState
<1> HIDE DEF request
<1>6. ReqAllowed(request)
  BY <1>2, <1>5, LatestAllowed, ReachedAllowed DEF ReqAllowed
<1>7. QED BY <1>2, <1>4, <1>6, BeginGates

(* A deployment was approved for this run or an older one, so one of them  *)
(* had a design approved.                                                  *)
LEMMA BeginDeployGates ==
  ASSUME TypeInv, GateInv, NEW q \in Requests, BeginDeploy(q)
  PROVE  GateInv'
<1> DEFINE request == ReadLatest("deploy")
<1>1. /\ latest # 0 /\ Begin(q, request) /\ UNCHANGED <<tables, tasks, proc, todo>>
  BY DEF BeginDeploy
<1>2. PICK e \in DeployApprovals : DeployApprovals = {e}
  BY DEF BeginDeploy
<1>3. /\ e.run <= latest /\ Allowed(e.run, "WaitDeployApproval")
      /\ e.run \in Nat /\ latest \in Nat
  BY <1>2 DEF DeployApprovals, GateInv, EventsAllowed, TypeInv, TypeOK, Event, RunIds
<1>4. Allowed(latest, "WaitDeployApproval")
  BY <1>1, <1>3, AllowedKept DEF tables
<1>5. /\ request.kind = "deploy" /\ request.run = latest
      /\ request.seen = rows[latest]
  BY <1>1, ReadLatestType DEF Kinds
<1> HIDE DEF request
<1>6. ReqAllowed(request)
  BY <1>1, <1>4, <1>5, LatestAllowed DEF ReqAllowed
<1>7. QED BY <1>1, <1>6, BeginGates

(* BeginDesign keeps GateInv. *)
LEMMA BeginDesignGates ==
  ASSUME TypeInv, GateInv, NEW q \in Requests, BeginDesign(q)
  PROVE  GateInv'
<1> DEFINE request == ReadLatest("design")
<1>1. /\ latest # 0 /\ Begin(q, request) /\ UNCHANGED <<tables, tasks, proc, todo>>
  BY DEF BeginDesign
<1>2. /\ request.kind = "design" /\ request.run = latest
      /\ request.seen = rows[latest]
  BY <1>1, ReadLatestType DEF Kinds
<1> HIDE DEF request
<1>3. ReqAllowed(request)
  BY <1>1, <1>2, LatestAllowed DEF ReqAllowed
<1>4. QED BY <1>1, <1>3, BeginGates

(* A request that commits.                                                 *)
LEMMA DoneGates ==
  ASSUME TypeInv, GateInv, NEW q \in Requests, Done(q), approvals \subseteq approvals'
  PROVE  ReqsAllowed'
<1>1. \A x \in Requests : reqs'[x] = reqs[x] \/ reqs'[x] = IdleRequest
  BY DEF TypeInv, TypeOK, Done
<1>2. ASSUME NEW x \in Requests, reqs'[x] = reqs[x], reqs[x].kind # "idle"
      PROVE  ReqAllowed(reqs[x])'
  <2>1. ReqAllowed(reqs[x])
    BY DEF GateInv, ReqsAllowed
  <2>2. \A r, n : Allowed(r, n) => Allowed(r, n)'
    BY DEF Allowed, ClearedBy, Approved
  <2>3. QED BY <1>2, <2>1, <2>2 DEF ReqAllowed
<1>3. \A x \in Requests : reqs'[x].kind = "idle" => ReqAllowed(reqs[x])'
  BY DEF ReqAllowed
<1>4. QED BY <1>1, <1>2, <1>3, IdleTypes DEF ReqsAllowed

(* Old claims, after an approval and perhaps a new run were recorded.      *)
LEMMA KeptGates ==
  ASSUME TypeInv, GateInv, approvals \subseteq approvals'
  PROVE  /\ rows' = rows => RowsAllowed'
         /\ UNCHANGED timeline =>
              \A r \in RunIds : Allowed(r, timeline[r].moved)' /\ Allowed(r, timeline[r].last)'
         /\ artifacts' = artifacts => ArtifactsAllowed'
         /\ proc' = proc => ProcsAllowed'
         /\ todo' = todo => TodoAllowed'
<1>1. \A r, n : Allowed(r, n) => Allowed(r, n)'
  BY DEF Allowed, ClearedBy, Approved
<1>2. QED BY <1>1 DEF GateInv, RowsAllowed, TrailAllowed, ArtifactsAllowed, ProcsAllowed,
                      TodoAllowed

(* CreateRun keeps GateInv. *)
LEMMA CreateRunGates ==
  ASSUME TypeInv, GateInv, CreateRun
  PROVE  GateInv'
<1>1. PICK r \in RunIds :
        /\ NextRunId(r)
        /\ latest' = r
        /\ rows' = [rows EXCEPT ![r] = RowAt("IngestPrompt")]
        /\ reached' = [reached EXCEPT ![r] = {"IngestPrompt"}]
        /\ timeline' = [timeline EXCEPT ![r] = [moved |-> "none", last |-> "IngestPrompt"]]
        /\ UNCHANGED <<project, approvals, evidence, jobs, sessions>>
  BY DEF CreateRun
<1>2. latest < r
  BY <1>1 DEF NextRunId, Follows
<1>3. \A x, n : Allowed(x, n)' = Allowed(x, n)
  BY <1>1, SameApprovals
<1>4. Allowed(r, "IngestPrompt") /\ Allowed(r, "none")
  BY NotBeyond
<1>5. RowsAllowed'
  BY <1>1, <1>3, <1>4 DEF TypeInv, TypeOK, GateInv, RowsAllowed, RowAt
<1>6. TrailAllowed'
  BY <1>1, <1>3, <1>4 DEF TypeInv, TypeOK, GateInv, TrailAllowed
<1>7. ArtifactsAllowed' /\ ProcsAllowed' /\ TodoAllowed'
  BY <1>1, KeptGates DEF evidence, sessions
<1>8. ReqsAllowed'
  BY <1>1, <1>3 DEF GateInv, ReqsAllowed, ReqAllowed, sessions
<1>9. EventsAllowed'
  <2>1. \A e \in approvals : e.run \in Nat
    BY DEF TypeInv, TypeOK, Event, RunIds
  <2>2. latest \in Nat /\ latest' \in Nat
    BY <1>1 DEF TypeInv, TypeOK, RunIds
  <2>3. QED BY <1>1, <1>2, <1>3, <2>1, <2>2 DEF GateInv, EventsAllowed
<1>10. QED BY <1>5, <1>6, <1>7, <1>8, <1>9 DEF GateInv

(* CommitApproval keeps GateInv. *)
LEMMA CommitApprovalGates ==
  ASSUME TypeInv, GateInv, NEW q \in Requests, CommitApproval(q)
  PROVE  GateInv'
<1> DEFINE a == reqs[q]
           event == [run |-> a.run, stage |-> a.stage, decision |-> a.decision, at |-> a.at]
<1>1. /\ a.kind = "approval" /\ Done(q) /\ approvals' = approvals \cup {event}
      /\ reached' = [reached EXCEPT ![a.run] = @ \cup {a.seen.node}]
      /\ UNCHANGED <<latest, rows, timeline, evidence, jobs, proc, todo>>
  BY DEF CommitApproval
<1>2. \A r, n : Allowed(r, n) => Allowed(r, n)'
  BY <1>1 DEF Allowed, ClearedBy, Approved
<1>3. a.run \in RunIds /\ a.run <= latest /\ ReqAllowed(a)
  BY <1>1, InFlightTypes DEF ReqBacked, GateInv, ReqsAllowed
<1>4. /\ Allowed(a.run, a.seen.node)
      /\ a.stage = "deploy" => Allowed(a.run, "WaitDeployApproval")
  BY <1>1, <1>3 DEF ReqAllowed
<1>5. RowsAllowed' /\ ArtifactsAllowed' /\ ProcsAllowed' /\ TodoAllowed'
  BY <1>1, KeptGates DEF evidence
<1>6. \A r \in RunIds : \A n \in reached'[r] : Allowed(r, n)
  BY <1>1, <1>3, <1>4 DEF TypeInv, TypeOK, GateInv, TrailAllowed
<1>7. TrailAllowed'
  BY <1>1, <1>2, <1>6, KeptGates DEF TrailAllowed
<1>8. ReqsAllowed'
  BY <1>1, DoneGates
<1>9. event.run = a.run /\ event.stage = a.stage
  OBVIOUS
<1> HIDE DEF event
<1>10. EventsAllowed'
  BY <1>1, <1>2, <1>3, <1>4, <1>9 DEF GateInv, EventsAllowed
<1>11. QED BY <1>5, <1>7, <1>8, <1>10 DEF GateInv

(* What a request that moves a run writes.                                 *)
LEMMA MoveRowGates ==
  ASSUME TypeInv, GateInv, NEW r \in RunIds, NEW seen \in Row, NEW new \in Row,
         approvals' = approvals, Allowed(r, seen.node), Allowed(r, new.node),
         rows' = [rows EXCEPT ![r] = Flush(r, seen, new)],
         reached' = [reached EXCEPT ![r] = @ \cup {seen.node, new.node}],
         timeline' = [timeline EXCEPT ![r] =
           [moved |-> "none",
            last  |-> IF seen.node \in TerminalNodes THEN "none" ELSE seen.node]]
  PROVE  RowsAllowed' /\ TrailAllowed'
<1> DEFINE row == Flush(r, seen, new)
<1>1. row.node = new.node \/ row.node = rows[r].node
  BY FlushType DEF TypeInv, TypeOK
<1> HIDE DEF row
<1>2. rows' = [rows EXCEPT ![r] = row]
  BY DEF row
<1>3. \A x \in RunIds : Allowed(x, rows'[x].node)
  BY <1>1, <1>2 DEF TypeInv, TypeOK, GateInv, RowsAllowed
<1>4. \A x \in RunIds : \A n \in reached'[x] : Allowed(x, n)
  BY DEF TypeInv, TypeOK, GateInv, TrailAllowed
<1>5. Allowed(r, "none")
  BY NotBeyond
<1>6. \A x \in RunIds : Allowed(x, timeline'[x].moved) /\ Allowed(x, timeline'[x].last)
  BY <1>5 DEF TypeInv, TypeOK, GateInv, TrailAllowed
<1>7. QED BY <1>3, <1>4, <1>6, SameApprovals DEF RowsAllowed, TrailAllowed

(* CommitRetry keeps GateInv. *)
LEMMA CommitRetryGates ==
  ASSUME TypeInv, GateInv, NEW q \in Requests, CommitRetry(q)
  PROVE  GateInv'
<1> DEFINE a == reqs[q]
<1>1. /\ a.kind = "retry" /\ Done(q)
      /\ UNCHANGED <<latest, approvals, evidence, jobs, proc, todo>>
  BY DEF CommitRetry
<1>2. /\ a.run \in RunIds /\ a.seen \in Row /\ a.node \in NodeName /\ ReqAllowed(a)
  BY <1>1, InFlightTypes DEF ReqBacked, GateInv, ReqsAllowed
<1>3. Allowed(a.run, a.seen.node) /\ Allowed(a.run, a.node)
  BY <1>1, <1>2 DEF ReqAllowed
<1>4. RowAt(a.node) \in Row /\ RowAt(a.node).node = a.node
  BY <1>2, RowAtType
<1>5. RowsAllowed' /\ TrailAllowed'
  BY <1>1, <1>2, <1>3, <1>4, MoveRowGates DEF CommitRetry
<1>6. ReqsAllowed'
  BY <1>1, DoneGates
<1>7. QED BY <1>1, <1>5, <1>6, OtherGates DEF GateInv, evidence

(* CommitDeploy keeps GateInv. *)
LEMMA CommitDeployGates ==
  ASSUME TypeInv, GateInv, NEW q \in Requests, CommitDeploy(q)
  PROVE  GateInv'
<1> DEFINE a == reqs[q]
           forced == [a.seen EXCEPT !.node = "WaitDeployApproval", !.status = "deploy_ready"]
<1>1. /\ a.kind = "deploy" /\ Done(q)
      /\ UNCHANGED <<latest, approvals, evidence, jobs, proc, todo>>
  BY DEF CommitDeploy
<1>2. a.run \in RunIds /\ a.seen \in Row /\ ReqAllowed(a)
  BY <1>1, InFlightTypes DEF GateInv, ReqsAllowed
<1>3. Allowed(a.run, a.seen.node) /\ Allowed(a.run, "WaitDeployApproval")
  BY <1>1, <1>2 DEF ReqAllowed
<1>4. forced \in Row /\ forced.node = "WaitDeployApproval"
  BY <1>2 DEF Row, NodeName, ProjectStatus
<1>5. /\ rows' = [rows EXCEPT ![a.run] = Flush(a.run, a.seen, forced)]
      /\ reached' = [reached EXCEPT ![a.run] = @ \cup {a.seen.node, "WaitDeployApproval"}]
      /\ timeline' = [timeline EXCEPT ![a.run] =
           [moved |-> "none",
            last  |-> IF a.seen.node \in TerminalNodes THEN "none" ELSE a.seen.node]]
  BY DEF CommitDeploy
<1> HIDE DEF forced
<1>6. RowsAllowed' /\ TrailAllowed'
  BY <1>1, <1>2, <1>3, <1>4, <1>5, MoveRowGates
<1>7. ReqsAllowed'
  BY <1>1, DoneGates
<1>8. QED BY <1>1, <1>6, <1>7, OtherGates DEF GateInv, evidence

(* A replayed run takes nodes and artifacts over from an older run.        *)
LEMMA CommitReplayGates ==
  ASSUME TypeInv, GateInv, NEW q \in Requests, CommitReplay(q)
  PROVE  GateInv'
<1> DEFINE a == reqs[q]
<1>1. /\ a.kind = "replay" /\ Done(q)
      /\ latest' = IF a.at > latest THEN a.at ELSE latest
      /\ rows' = [rows EXCEPT ![a.at] = RowAt(a.node)]
      /\ artifacts' = [artifacts EXCEPT ![a.at] = artifacts[a.run] \cap ArtifactsBefore(a.node)]
      /\ reached' = [reached EXCEPT ![a.at] = {a.seen.node, a.node}]
      /\ timeline' = [timeline EXCEPT ![a.at] =
           [moved |-> "none",
            last  |-> IF a.seen.node \in TerminalNodes THEN "none" ELSE a.seen.node]]
      /\ UNCHANGED <<approvals, jobs, proc, todo>>
  BY DEF CommitReplay
<1>2. /\ a.run \in RunIds /\ a.at \in RunIds /\ a.run < a.at /\ a.node \in NodeName
      /\ ReqAllowed(a) /\ a.run \in Nat /\ a.at \in Nat /\ latest \in Nat
  BY <1>1, InFlightTypes DEF ReqBacked, GateInv, ReqsAllowed, RunIds
<1>3. \A x, n : Allowed(x, n)' = Allowed(x, n)
  BY <1>1, SameApprovals
<1>4. \A n : Allowed(a.run, n) => Allowed(a.at, n)
  BY <1>2, <1>1, AllowedKept
<1>5. Allowed(a.at, a.seen.node) /\ Allowed(a.at, a.node) /\ Allowed(a.at, "none")
  BY <1>1, <1>2, <1>4, NotBeyond DEF ReqAllowed
<1>6. RowsAllowed'
  BY <1>1, <1>2, <1>3, <1>5 DEF TypeInv, TypeOK, GateInv, RowsAllowed, RowAt
<1>7. TrailAllowed'
  BY <1>1, <1>2, <1>3, <1>5 DEF TypeInv, TypeOK, GateInv, TrailAllowed
<1>8. ASSUME NEW x \in RunIds, NEW n \in NodeName, ArtifactsOf(n) \cap artifacts'[x] # {}
      PROVE  Allowed(x, n)
  <2>1. CASE x = a.at
    <3>1. artifacts'[x] \subseteq artifacts[a.run]
      BY <1>1, <1>2, <2>1 DEF TypeInv, TypeOK
    <3>2. Allowed(a.run, n)
      BY <1>2, <1>8, <3>1 DEF GateInv, ArtifactsAllowed
    <3>3. QED BY <1>4, <2>1, <3>2
  <2>2. CASE x # a.at
    BY <1>1, <1>8, <2>2 DEF TypeInv, TypeOK, GateInv, ArtifactsAllowed
  <2>3. QED BY <2>1, <2>2
<1>9. ArtifactsAllowed'
  BY <1>3, <1>8 DEF ArtifactsAllowed
<1>10. ProcsAllowed' /\ TodoAllowed'
  BY <1>1, KeptGates
<1>11. ReqsAllowed'
  BY <1>1, DoneGates
<1>12. EventsAllowed'
  <2>1. \A e \in approvals : e.run \in Nat
    BY DEF TypeInv, TypeOK, Event, RunIds
  <2>2. QED BY <1>1, <1>2, <1>3, <2>1 DEF GateInv, EventsAllowed
<1>13. QED BY <1>6, <1>7, <1>9, <1>10, <1>11, <1>12 DEF GateInv

(* CommitDesign keeps GateInv. *)
LEMMA CommitDesignGates ==
  ASSUME TypeInv, GateInv, NEW q \in Requests, CommitDesign(q)
  PROVE  GateInv'
<1> DEFINE a == reqs[q]
<1>1. /\ a.kind = "design" /\ Done(q)
      /\ artifacts' = [artifacts EXCEPT ![a.run] = @ \cup {"design_spec"}]
      /\ UNCHANGED <<latest, rows, approvals, reached, timeline, scanned,
                     jobs, tasks, proc, todo>>
  BY DEF CommitDesign
<1>2. ASSUME NEW x \in RunIds, NEW n \in NodeName, ArtifactsOf(n) \cap artifacts'[x] # {}
      PROVE  Allowed(x, n)
  <2>1. artifacts'[x] \subseteq artifacts[x] \cup {"design_spec"}
    BY <1>1 DEF TypeInv, TypeOK
  <2>2. CASE ArtifactsOf(n) \cap artifacts[x] # {}
    BY <2>2 DEF GateInv, ArtifactsAllowed
  <2>3. CASE "design_spec" \in ArtifactsOf(n)
    <3>1. n = "GenerateDesign"
      BY <2>3 DEF ArtifactsOf
    <3>2. QED BY <3>1, NotBeyond
  <2>4. QED BY <1>2, <2>1, <2>2, <2>3
<1>3. ArtifactsAllowed'
  BY <1>1, <1>2, SameApprovals DEF ArtifactsAllowed
<1>4. ReqsAllowed'
  BY <1>1, DoneGates
<1>5. QED BY <1>1, <1>3, <1>4, OtherGates DEF GateInv

-----------------------------------------------------------------------------
(* Every step keeps the gates. *)

(* Every step of an invocation keeps GateInv. *)
LEMMA InvocationGates ==
  ASSUME TypeInv, GateInv, NEW p \in Procs, Invocation(p)
  PROVE  GateInv'
BY LockGates, ExecuteGates, SkipGates, ParkWaitingGates, TerminalGates, FailGates,
   RetryLaterGates, CloseGates, EndsGates DEF Invocation, Iterate

(* Every step keeps GateInv. *)
LEMMA StepGates ==
  ASSUME TypeInv, GateInv, [Next]_allVars
  PROVE  GateInv'
<1>1. CASE RequestStep
  BY <1>1, CreateRunGates, BeginApprovalGates, CommitApprovalGates, BeginRetryGates,
     CommitRetryGates, BeginReplayGates, CommitReplayGates, BeginDeployGates,
     CommitDeployGates, BeginDesignGates, CommitDesignGates DEF RequestStep
<1>2. CASE WorkerStep
  <2>1. Worker \in Procs
    BY DEF Procs
  <2>2. QED BY <1>2, <2>1, ListGates, NextGates, InvocationGates DEF WorkerStep
<1>3. ASSUME NEW t \in Tasks, TaskStep(t) PROVE GateInv'
  BY <1>3, StartTaskGates, InvocationGates DEF TaskStep, Procs
<1>4. CASE Fault
  <2>1. Worker \in Procs
    BY DEF Procs
  <2>2. QED BY <1>4, <2>1, ApiCrashGates, EndsGates DEF Fault
<1>5. CASE UNCHANGED allVars
  <2>1. /\ UNCHANGED <<approvals, latest, rows, reached, timeline>>
        /\ UNCHANGED <<artifacts, proc, todo, reqs>>
    BY <1>5 DEF allVars, vars, tables, sessions, evidence
  <2>2. QED BY <2>1, OtherGates DEF GateInv
<1>6. QED BY <1>1, <1>2, <1>3, <1>4, <1>5 DEF Next

(* GateInv is an invariant: rows, copies, lists, requests and audit events  *)
(* name only nodes whose gates a human has opened (approvals.py:42, runs.py:260).*)
THEOREM GateInvariance == Spec => []GateInv
<1>1. TypeInv /\ GateInv /\ [Next]_allVars => GateInv'
  BY StepGates
<1>2. QED BY InitGates, Invariance, <1>1, PTL DEF Spec

(* No run passes the design gate before a human approved a design, of this *)
(* run or of an older one, whatever requests, replays, stale copies and    *)
(* crashes it meets.                                                       *)
THEOREM DesignGateHolds == Spec => []DesignGate
<1>1. GateInv => DesignGate
  <2>1. \A r, n : Allowed(r, n) /\ n \in BeyondDesign => ClearedBy(r, "design")
    BY DEF Allowed, GateStages, Beyond
  <2>2. QED BY <2>1 DEF GateInv, RowsAllowed, ProcsAllowed, DesignGate
<1>2. QED BY GateInvariance, <1>1, PTL

(* Nor the deployment gate before a human approved a deployment.           *)
THEOREM DeployGateHolds == Spec => []DeployGate
<1>1. GateInv => DeployGate
  <2>1. \A r, n : Allowed(r, n) /\ n \in BeyondDeploy => ClearedBy(r, "deploy")
    BY DEF Allowed, GateStages, Beyond
  <2>2. QED BY <2>1 DEF GateInv, RowsAllowed, ProcsAllowed, DeployGate
<1>2. QED BY GateInvariance, <1>1, PTL
=============================================================================
