------------------------- MODULE OrchestratorTypes -------------------------
(***************************************************************************)
(* Proof that every variable of the orchestrator keeps its type, for any   *)
(* number of runs, tasks, requests, retries and faults.                    *)
(***************************************************************************)
EXTENDS Properties, TLAPS

(***************************************************************************)
(* TypeOK is not inductive: a retry job is consumed by an invocation that  *)
(* was started for it some steps earlier, and a request writes the rows it *)
(* read some steps earlier.                                                *)
(***************************************************************************)

(* The jobs of the worker's list and the one in its hands are in the table. *)
InHand(r) == IF proc[Worker].job /\ proc[Worker].run = r THEN 1 ELSE 0

JobsBacked ==
  /\ \A t \in Tasks : ~proc[t].job
  /\ \A r \in RunIds : todo.jobs[r] + InHand(r) <= jobs[r]

(* An invocation has a run; one that is over has no job.                   *)
ProcsBacked == \A p \in Procs :
  IF proc[p].pc = "idle" THEN proc[p] = IdleProc ELSE proc[p].run \in RunIds

(* A request in flight knows an existing run and has what it will insert.  *)
ReqBacked(a) ==
  a.kind # "idle" =>
    /\ a.run \in RunIds /\ a.run <= latest
    /\ a.seen.node \in NodeName
    /\ a.kind \in {"retry", "replay"} => a.node \in NodeName
    /\ a.kind = "approval" => a.stage \in Stages /\ a.decision \in Decisions
    /\ a.kind = "replay" => a.at \in RunIds /\ a.run < a.at

ReqsBacked == \A q \in Requests : ReqBacked(reqs[q])

(* The newest run exists.                                                  *)
LatestBacked == latest # 0 => rows[latest].node # "none"

TypeInv == TypeOK /\ JobsBacked /\ ProcsBacked /\ ReqsBacked /\ LatestBacked

-----------------------------------------------------------------------------
(* Rows. *)

(* A row that was reset is a row. *)
LEMMA RowAtType ==
  ASSUME NEW n \in NodeName
  PROVE  RowAt(n) \in Row /\ RowAt(n).node = n /\ RowAt(n).retry = 0
BY DEF RowAt, Row, NodeName, ProjectStatus, NODE_TO_PROJECT_STATUS

(* What a flush writes is a row. *)
LEMMA FlushType ==
  ASSUME rows \in [RunIds -> Row], NEW r \in RunIds,
         NEW seen \in Row, NEW new \in Row
  PROVE  /\ Flush(r, seen, new) \in Row
         /\ new.node = seen.node => Flush(r, seen, new).node = rows[r].node
         /\ new.node # seen.node => Flush(r, seen, new).node = new.node
BY DEF Flush, Row

(* What is empty has its type. *)
LEMMA IdleTypes ==
  /\ NoRow \in Row /\ IdleProc \in ProcState /\ IdleTodo \in TodoState
  /\ IdleRequest \in RequestState /\ NoAttempt \in Attempt
  /\ IdleProc.pc = "idle" /\ ~IdleProc.job /\ IdleRequest.kind = "idle"
  /\ \A r \in RunIds : IdleTodo.jobs[r] = 0
BY MaxRunAssumption DEF NoRow, Row, IdleProc, ProcState, IdleTodo, TodoState, IdleRequest,
   RequestState, NoAttempt, Attempt, ProjectStatus, RunIds

(* The start satisfies TypeInv. *)
LEMMA InitTypes == SystemInit => TypeInv
<1> SUFFICES ASSUME SystemInit PROVE TypeInv
  OBVIOUS
<1>1. TypeOK
  BY IdleTypes, MaxRunAssumption DEF SystemInit, Init, TypeOK, ProjectStatus, RunIds
<1>2. JobsBacked
  BY IdleTypes, WorkerAssumption DEF SystemInit, Init, JobsBacked, InHand, Procs
<1>3. ProcsBacked /\ ReqsBacked /\ LatestBacked
  BY IdleTypes DEF SystemInit, Init, ProcsBacked, ReqsBacked, ReqBacked, LatestBacked
<1>4. QED BY <1>1, <1>2, <1>3 DEF TypeInv

-----------------------------------------------------------------------------
(* Invocations. *)

(* What an invocation holds has its type. *)
LEMMA ProcTypes ==
  ASSUME TypeInv, NEW p \in Procs, proc[p].pc # "idle"
  PROVE  /\ proc[p] \in ProcState /\ proc[p].run \in RunIds
         /\ proc[p].cache \in Row /\ rows[proc[p].run] \in Row
BY DEF TypeInv, TypeOK, ProcsBacked, ProcState

(* Columns that an invocation flushes keep the table typed. *)
LEMMA WriteTypes ==
  ASSUME TypeInv, NEW p \in Procs, proc[p].pc # "idle",
         NEW new \in Row, Write(p, new),
         new.node \in NodeName \/ new.node = proc[p].cache.node,
         latest' = latest
  PROVE  rows' \in [RunIds -> Row] /\ LatestBacked'
<1> DEFINE r == proc[p].run
           row == Flush(r, proc[p].cache, new)
<1>1. row \in Row /\ r \in RunIds
  BY FlushType, ProcTypes DEF TypeInv, TypeOK
<1>2. row.node # "none" \/ row.node = rows[r].node
  BY FlushType, ProcTypes DEF TypeInv, TypeOK, NodeName
<1>3. rows' = [rows EXCEPT ![r] = row]
  BY DEF Write
<1> HIDE DEF row, r
<1>4. rows' \in [RunIds -> Row]
  BY <1>1, <1>3 DEF TypeInv, TypeOK
<1>5. LatestBacked'
  BY <1>1, <1>2, <1>3 DEF TypeInv, TypeOK, LatestBacked
<1>6. QED BY <1>4, <1>5

(* An invocation that ends, with or without the retry job it was started   *)
(* for, leaves the worker's list backed by the table.                      *)
LEMMA ReturnTypes ==
  ASSUME TypeInv, NEW p \in Procs, proc[p].pc # "idle",
         NEW new \in Nat, Return(p), todo' = todo,
         jobs' = JobsAfter(p, new)
  PROVE  /\ jobs' \in [RunIds -> Nat] /\ JobsBacked'
         /\ proc' \in [Procs -> ProcState] /\ ProcsBacked'
<1> DEFINE r == proc[p].run
<1>1. r \in RunIds /\ \A x \in RunIds : jobs[x] \in Nat /\ todo.jobs[x] \in Nat
  BY ProcTypes DEF TypeInv, TypeOK, TodoState
<1>2. proc' \in [Procs -> ProcState] /\ ProcsBacked'
  BY IdleTypes DEF TypeInv, TypeOK, Return, ProcsBacked
<1>3. \A x \in Procs \ {p} : proc'[x] = proc[x]
  BY DEF TypeInv, TypeOK, Return
<1>4. proc'[p] = IdleProc
  BY DEF TypeInv, TypeOK, Return
<1>5. CASE proc[p].job
  <2>1. p = Worker
    BY <1>5 DEF TypeInv, JobsBacked, Procs
  <2>2. jobs' = [jobs EXCEPT ![r] = @ + new - 1]
    BY <1>5 DEF JobsAfter
  <2>3. todo.jobs[r] + 1 <= jobs[r]
    BY <1>1, <1>5, <2>1 DEF TypeInv, JobsBacked, InHand
  <2>4. \A x \in RunIds : jobs'[x] \in Nat /\ todo.jobs[x] <= jobs'[x]
    BY <1>1, <2>1, <2>2, <2>3 DEF TypeInv, TypeOK, JobsBacked, InHand
  <2>5. \A x \in RunIds : InHand(x)' = 0
    BY <1>4, <2>1, IdleTypes DEF InHand
  <2>6. jobs' \in [RunIds -> Nat]
    BY <2>2, <2>4 DEF TypeInv, TypeOK
  <2>7. \A t \in Tasks : ~proc'[t].job
    BY <1>3, <1>4, IdleTypes DEF TypeInv, JobsBacked, Procs
  <2>8. JobsBacked'
    BY <1>1, <2>4, <2>5, <2>7 DEF JobsBacked
  <2>9. QED BY <1>2, <2>6, <2>8
<1>6. CASE ~proc[p].job
  <2>1. jobs' = [jobs EXCEPT ![r] = @ + new]
    BY <1>1, <1>6 DEF JobsAfter, TypeInv, TypeOK
  <2>2. \A x \in RunIds : jobs'[x] \in Nat /\ jobs[x] <= jobs'[x]
    BY <1>1, <2>1 DEF TypeInv, TypeOK
  <2>3. \A x \in RunIds : InHand(x) \in {0, 1} /\ InHand(x)' = InHand(x)
    BY <1>3, <1>4, <1>6, IdleTypes DEF InHand, Procs
  <2>4. jobs' \in [RunIds -> Nat]
    BY <2>1, <2>2 DEF TypeInv, TypeOK
  <2>5. \A t \in Tasks : ~proc'[t].job
    BY <1>3, <1>4, IdleTypes DEF TypeInv, JobsBacked, Procs
  <2>6. \A x \in RunIds : todo.jobs[x] + InHand(x) <= jobs[x]
    BY DEF TypeInv, JobsBacked
  <2>7. JobsBacked'
    BY <1>1, <2>2, <2>3, <2>5, <2>6 DEF JobsBacked
  <2>8. QED BY <1>2, <2>4, <2>7
<1>7. QED BY <1>5, <1>6

(* An invocation that changes neither its run nor its job.                 *)
LEMMA KeepTypes ==
  ASSUME TypeInv, NEW p \in Procs, proc[p].pc # "idle",
         NEW pc \in {"lock", "execute", "parked", "missed"}, NEW copy \in Row,
         proc' = [proc EXCEPT ![p].pc = pc, ![p].cache = copy],
         todo' = todo, jobs' = jobs
  PROVE  proc' \in [Procs -> ProcState] /\ ProcsBacked' /\ JobsBacked'
<1> DEFINE moved == [proc[p] EXCEPT !.pc = pc, !.cache = copy]
<1>1. proc' = [proc EXCEPT ![p] = moved]
  BY DEF TypeInv, TypeOK
<1>2. /\ moved \in ProcState /\ moved.job = proc[p].job
      /\ moved.run = proc[p].run /\ moved.pc # "idle"
  BY ProcTypes DEF ProcState
<1> HIDE DEF moved
<1>3. proc' \in [Procs -> ProcState] /\ ProcsBacked'
  BY <1>1, <1>2, ProcTypes DEF TypeInv, TypeOK, ProcsBacked
<1>4. \A x \in Procs : proc'[x].job = proc[x].job /\ proc'[x].run = proc[x].run
  BY <1>1, <1>2 DEF TypeInv, TypeOK
<1>5. \A x \in RunIds : InHand(x)' = InHand(x)
  BY <1>4 DEF InHand, Procs
<1>6. JobsBacked'
  BY <1>4, <1>5 DEF TypeInv, JobsBacked, Procs
<1>7. QED BY <1>3, <1>6

(* Advancing keeps TypeInv. *)
LEMMA AdvanceTypes ==
  ASSUME TypeInv, NEW p \in Procs, proc[p].pc # "idle",
         NEW m \in NodeName, NEW o, NEW retry \in Nat,
         proc[p].cache.node \in NodeName,
         Advance(p, o, m, retry),
         latest' = latest, todo' = todo, jobs' = jobs
  PROVE  /\ rows' \in [RunIds -> Row] /\ LatestBacked'
         /\ reached' \in [RunIds -> SUBSET NodeName]
         /\ timeline' \in [RunIds -> Attempt]
         /\ proc' \in [Procs -> ProcState] /\ ProcsBacked' /\ JobsBacked'
<1> DEFINE new == [RowAt(m) EXCEPT !.retry = retry]
           pc == IF m \in WaitNodes THEN "parked" ELSE "lock"
<1>1. new \in Row /\ new.node = m
  BY RowAtType DEF Row
<1>2. /\ Write(p, new) /\ Audit(proc[p].run, {proc[p].cache.node, m})
      /\ proc' = [proc EXCEPT ![p].pc = pc, ![p].cache = new]
  BY DEF Advance
<1>3. reached' \in [RunIds -> SUBSET NodeName]
  BY <1>2 DEF Audit, TypeInv, TypeOK
<1>4. timeline' \in [RunIds -> Attempt]
  BY DEF Advance, TypeInv, TypeOK, Attempt
<1>5. pc \in {"lock", "execute", "parked", "missed"}
  OBVIOUS
<1> HIDE DEF new, pc
<1>6. rows' \in [RunIds -> Row] /\ LatestBacked'
  BY <1>1, <1>2, WriteTypes
<1>7. proc' \in [Procs -> ProcState] /\ ProcsBacked' /\ JobsBacked'
  BY <1>1, <1>2, <1>5, KeepTypes
<1>8. QED BY <1>3, <1>4, <1>6, <1>7

(* Failing a run keeps TypeInv. *)
LEMMA ToFailedTypes ==
  ASSUME TypeInv, NEW p \in Procs, proc[p].pc # "idle",
         proc[p].cache.node \in NodeName, NEW retry \in Nat,
         ToFailed(p, retry), latest' = latest
  PROVE  /\ rows' \in [RunIds -> Row] /\ LatestBacked'
         /\ project' \in ProjectStatus
         /\ reached' \in [RunIds -> SUBSET NodeName]
         /\ timeline' \in [RunIds -> Attempt]
<1> DEFINE new == [RowAt("EndFailed") EXCEPT !.retry = retry]
<1>1. "EndFailed" \in NodeName
  BY DEF NodeName
<1>2. new \in Row /\ new.node = "EndFailed"
  BY <1>1, RowAtType DEF Row
<1>3. Write(p, new)
  BY DEF ToFailed
<1>4. project' \in ProjectStatus
  BY DEF ToFailed, ProjectFor, NODE_TO_PROJECT_STATUS, ProjectStatus, TypeInv, TypeOK
<1>5. reached' \in [RunIds -> SUBSET NodeName]
  BY <1>1 DEF ToFailed, Audit, TypeInv, TypeOK
<1>6. timeline' \in [RunIds -> Attempt]
  BY DEF ToFailed, TypeInv, TypeOK, Attempt
<1> HIDE DEF new
<1>7. rows' \in [RunIds -> Row] /\ LatestBacked'
  BY <1>1, <1>2, <1>3, WriteTypes
<1>8. QED BY <1>4, <1>5, <1>6, <1>7

(* StartTask keeps TypeInv. *)
LEMMA StartTaskType ==
  ASSUME TypeInv, NEW t \in Tasks, NEW r \in RunIds, StartTask(t, r)
  PROVE  TypeInv'
<1> DEFINE new == [IdleProc EXCEPT !.pc = "lock", !.run = r]
<1>1. /\ proc' = [proc EXCEPT ![t] = new] /\ proc[t].pc = "idle"
      /\ UNCHANGED <<tables, todo, reqs>>
      /\ tasks' = [tasks EXCEPT ![r] = @ - 1] /\ tasks[r] > 0
  BY DEF StartTask
<1>2. /\ new \in ProcState /\ ~new.job
      /\ new.run = r /\ new.pc = "lock"
  <2>1. r \in 0..MaxRun
    BY MaxRunAssumption DEF RunIds
  <2>2. IdleProc \in ProcState /\ ~IdleProc.job
    BY IdleTypes
  <2>3. QED BY <2>1, <2>2 DEF ProcState
<1> HIDE DEF new
<1>3. tasks' \in [RunIds -> Nat]
  BY <1>1 DEF TypeInv, TypeOK
<1>4. proc' \in [Procs -> ProcState] /\ ProcsBacked'
  BY <1>1, <1>2 DEF TypeInv, TypeOK, ProcsBacked
<1>5. proc'[Worker] = proc[Worker]
  BY <1>1, WorkerAssumption DEF TypeInv, TypeOK, Procs
<1>6. JobsBacked'
  BY <1>1, <1>2, <1>5 DEF TypeInv, TypeOK, JobsBacked, InHand, Procs, tables
<1>7. TypeOK'
  BY <1>1, <1>3, <1>4 DEF TypeInv, TypeOK, tables, evidence
<1>8. ReqsBacked' /\ LatestBacked'
  BY <1>1 DEF TypeInv, ReqsBacked, ReqBacked, LatestBacked, tables
<1>9. QED BY <1>4, <1>6, <1>7, <1>8 DEF TypeInv

(* Lock keeps TypeInv. *)
LEMMA LockType ==
  ASSUME TypeInv, NEW p \in Procs, Lock(p) \/ LockMiss(p)
  PROVE  TypeInv'
<1>1. proc[p].pc = "lock" /\ UNCHANGED <<tables, tasks, todo, reqs>>
  BY DEF Lock, LockMiss
<1>2. \E pc \in {"execute", "missed"}, copy \in Row :
        proc' = [proc EXCEPT ![p].pc = pc, ![p].cache = copy]
  <2>1. CASE Lock(p)
    BY <1>1, <2>1, ProcTypes DEF Lock
  <2>2. CASE LockMiss(p)
    <3>1. [proc[p] EXCEPT !.pc = "missed"] =
          [proc[p] EXCEPT !.pc = "missed", !.cache = proc[p].cache]
      BY <1>1, ProcTypes DEF ProcState
    <3>2. proc' = [proc EXCEPT ![p].pc = "missed", ![p].cache = proc[p].cache]
      BY <2>2, <3>1 DEF LockMiss, TypeInv, TypeOK
    <3>3. QED BY <1>1, <3>2, ProcTypes
  <2>3. QED BY <2>1, <2>2
<1>3. proc' \in [Procs -> ProcState] /\ ProcsBacked' /\ JobsBacked'
  <2>1. PICK pc \in {"execute", "missed"}, copy \in Row :
          proc' = [proc EXCEPT ![p].pc = pc, ![p].cache = copy]
    BY <1>2
  <2>2. todo' = todo /\ jobs' = jobs
    BY <1>1 DEF tables
  <2>3. QED BY <1>1, <2>1, <2>2, KeepTypes
<1>4. TypeOK' /\ ReqsBacked' /\ LatestBacked'
  BY <1>1, <1>3 DEF TypeInv, TypeOK, ReqsBacked, ReqBacked, LatestBacked, tables, evidence
<1>5. QED BY <1>3, <1>4 DEF TypeInv

(* Handlers run at nodes and leave artifacts of their node.                *)
LEMMA HandlerTypes ==
  ASSUME NEW r, NEW n, NEW o, NEW made \in Products(n), HandlerResult(r, n, o, made)
  PROVE  n \in NodeName /\ made \subseteq ArtifactType
<1>1. n \in NodeName
  BY DEF HandlerResult, NodeName, WaitNodes
<1>2. ArtifactsOf(n) \subseteq ArtifactType
  BY DEF ArtifactsOf, ArtifactType
<1>3. QED BY <1>1, <1>2 DEF Products

(* The status a node asks for is one. *)
LEMMA ProjectForType ==
  ASSUME TypeInv, NEW r, NEW n \in NodeName
  PROVE  ProjectFor(r, n) \in ProjectStatus
BY DEF TypeInv, TypeOK, ProjectFor, NODE_TO_PROJECT_STATUS, ProjectStatus, NodeName

(* Execute keeps TypeInv. *)
LEMMA ExecuteType ==
  ASSUME TypeInv, NEW p \in Procs, Execute(p)
  PROVE  TypeInv'
<1> DEFINE r == proc[p].run
           n == proc[p].cache.node
<1>1. /\ proc[p].pc # "idle"
      /\ UNCHANGED <<latest, approvals, jobs, tasks, todo, reqs>>
  BY DEF Execute
<1>2. PICK o \in Outcome, m \in NodeName, made \in Products(n) :
        /\ HandlerResult(r, n, o, made)
        /\ Advance(p, o, m, 0)
        /\ Persist(r, o, made)
        /\ project' = IF r # latest /\ n = "IngestPrompt" /\ o = "success"
                      THEN "prd_draft" ELSE ProjectFor(r, m)
  BY DEF Execute
<1>3. n \in NodeName /\ made \subseteq ArtifactType
  BY <1>2, HandlerTypes
<1>4. /\ rows' \in [RunIds -> Row] /\ LatestBacked'
      /\ reached' \in [RunIds -> SUBSET NodeName]
      /\ timeline' \in [RunIds -> Attempt]
      /\ proc' \in [Procs -> ProcState] /\ ProcsBacked' /\ JobsBacked'
  BY <1>1, <1>2, <1>3, AdvanceTypes
<1>5. project' \in ProjectStatus
  BY <1>2, ProjectForType DEF ProjectStatus
<1>6. artifacts' \in [RunIds -> SUBSET ArtifactType] /\ scanned' \in [RunIds -> BOOLEAN]
  BY <1>1, <1>2, <1>3, ProcTypes DEF Persist, TypeInv, TypeOK
<1>7. TypeOK'
  BY <1>1, <1>4, <1>5, <1>6 DEF TypeInv, TypeOK
<1>8. ReqsBacked'
  BY <1>1 DEF TypeInv, ReqsBacked, ReqBacked
<1>9. QED BY <1>4, <1>7, <1>8 DEF TypeInv

(* Skip keeps TypeInv. *)
LEMMA SkipType ==
  ASSUME TypeInv, NEW p \in Procs, Skip(p)
  PROVE  TypeInv'
<1>1. /\ proc[p].pc # "idle" /\ proc[p].cache.node \in NodeName
      /\ UNCHANGED <<latest, approvals, evidence, jobs, tasks, todo, reqs>>
  BY DEF Skip, MaySkip, IdempotentNodes, NodeName
<1>2. PICK m \in NodeName :
        /\ Advance(p, "passed", m, proc[p].cache.retry)
        /\ project' = ProjectFor(proc[p].run, m)
  BY DEF Skip
<1>3. proc[p].cache.retry \in Nat
  BY <1>1, ProcTypes DEF Row
<1>4. /\ rows' \in [RunIds -> Row] /\ LatestBacked'
      /\ reached' \in [RunIds -> SUBSET NodeName]
      /\ timeline' \in [RunIds -> Attempt]
      /\ proc' \in [Procs -> ProcState] /\ ProcsBacked' /\ JobsBacked'
  BY <1>1, <1>2, <1>3, AdvanceTypes
<1>5. project' \in ProjectStatus
  BY <1>2, ProjectForType
<1>6. TypeOK' /\ ReqsBacked'
  BY <1>1, <1>4, <1>5 DEF TypeInv, TypeOK, ReqsBacked, ReqBacked, evidence
<1>7. QED BY <1>4, <1>6 DEF TypeInv

(* ParkWaiting keeps TypeInv. *)
LEMMA ParkWaitingType ==
  ASSUME TypeInv, NEW p \in Procs, ParkWaiting(p)
  PROVE  TypeInv'
<1>1. /\ proc[p].pc # "idle" /\ proc[p].cache.node \in NodeName
      /\ Return(p) /\ jobs' = JobsAfter(p, 0)
      /\ UNCHANGED <<latest, rows, approvals, timeline, evidence, tasks, todo, reqs>>
  BY DEF ParkWaiting, WaitNodes, NodeName
<1>2. project' \in ProjectStatus
  BY <1>1, ProjectForType DEF ParkWaiting
<1>3. reached' \in [RunIds -> SUBSET NodeName]
  BY <1>1, ProcTypes DEF ParkWaiting, Audit, TypeInv, TypeOK
<1>4. /\ jobs' \in [RunIds -> Nat] /\ JobsBacked'
      /\ proc' \in [Procs -> ProcState] /\ ProcsBacked'
  BY <1>1, ReturnTypes
<1>5. TypeOK' /\ ReqsBacked' /\ LatestBacked'
  BY <1>1, <1>2, <1>3, <1>4
     DEF TypeInv, TypeOK, ReqsBacked, ReqBacked, LatestBacked, evidence
<1>6. QED BY <1>4, <1>5 DEF TypeInv

(* Terminal keeps TypeInv. *)
LEMMA TerminalType ==
  ASSUME TypeInv, NEW p \in Procs, Terminal(p)
  PROVE  TypeInv'
<1> DEFINE n == proc[p].cache.node
           new == [proc[p].cache EXCEPT !.status = NODE_TO_PROJECT_STATUS[n]]
<1>1. /\ proc[p].pc # "idle" /\ n \in NodeName /\ Write(p, new)
      /\ Return(p) /\ jobs' = JobsAfter(p, 0)
      /\ UNCHANGED <<latest, approvals, timeline, evidence, tasks, todo, reqs>>
  BY DEF Terminal, TerminalNodes, NodeName
<1>2. new \in Row /\ new.node = n
  <2>1. NODE_TO_PROJECT_STATUS[n] \in ProjectStatus
    BY <1>1 DEF NODE_TO_PROJECT_STATUS, ProjectStatus, NodeName
  <2>2. proc[p].cache \in Row
    BY <1>1, ProcTypes
  <2>3. QED BY <2>1, <2>2 DEF Row
<1>3. project' \in ProjectStatus
  BY <1>1, ProjectForType DEF Terminal
<1>4. reached' \in [RunIds -> SUBSET NodeName]
  BY <1>1, ProcTypes DEF Terminal, Audit, TypeInv, TypeOK
<1>5. rows' \in [RunIds -> Row] /\ LatestBacked'
  <2> HIDE DEF new
  <2>1. QED BY <1>1, <1>2, WriteTypes
<1>6. /\ jobs' \in [RunIds -> Nat] /\ JobsBacked'
      /\ proc' \in [Procs -> ProcState] /\ ProcsBacked'
  BY <1>1, ReturnTypes
<1>7. TypeOK' /\ ReqsBacked'
  BY <1>1, <1>3, <1>4, <1>5, <1>6 DEF TypeInv, TypeOK, ReqsBacked, ReqBacked, evidence
<1>8. QED BY <1>5, <1>6, <1>7 DEF TypeInv

(* Fail keeps TypeInv. *)
LEMMA FailType ==
  ASSUME TypeInv, NEW p \in Procs, Fail(p)
  PROVE  TypeInv'
<1>1. /\ proc[p].pc # "idle" /\ proc[p].cache.node \in NodeName
      /\ ToFailed(p, proc[p].cache.retry)
      /\ Return(p) /\ jobs' = JobsAfter(p, 0)
      /\ UNCHANGED <<latest, approvals, evidence, tasks, todo, reqs>>
  BY UnreliableAssumption DEF Fail
<1>2. proc[p].cache.retry \in Nat
  BY <1>1, ProcTypes DEF Row
<1>3. /\ rows' \in [RunIds -> Row] /\ LatestBacked'
      /\ project' \in ProjectStatus
      /\ reached' \in [RunIds -> SUBSET NodeName]
      /\ timeline' \in [RunIds -> Attempt]
  BY <1>1, <1>2, ToFailedTypes
<1>4. /\ jobs' \in [RunIds -> Nat] /\ JobsBacked'
      /\ proc' \in [Procs -> ProcState] /\ ProcsBacked'
  BY <1>1, ReturnTypes
<1>5. TypeOK' /\ ReqsBacked'
  BY <1>1, <1>3, <1>4 DEF TypeInv, TypeOK, ReqsBacked, ReqBacked, evidence
<1>6. QED BY <1>3, <1>4, <1>5 DEF TypeInv

(* RetryLater keeps TypeInv. *)
LEMMA RetryLaterType ==
  ASSUME TypeInv, NEW p \in Procs, RetryLater(p)
  PROVE  TypeInv'
<1> DEFINE attempt == proc[p].cache.retry + 1
           new == [proc[p].cache EXCEPT !.retry = attempt]
<1>1. /\ proc[p].pc # "idle" /\ proc[p].cache.node \in NodeName /\ Return(p)
      /\ UNCHANGED <<latest, approvals, evidence, tasks, todo, reqs>>
  BY UnreliableAssumption DEF RetryLater
<1>2. attempt \in Nat /\ new \in Row /\ new.node = proc[p].cache.node
  BY <1>1, ProcTypes DEF Row
<1>3. CASE attempt > MaxRetries
  <2>1. ToFailed(p, attempt) /\ jobs' = JobsAfter(p, 0)
    BY <1>3 DEF RetryLater
  <2>2. /\ rows' \in [RunIds -> Row] /\ LatestBacked'
        /\ project' \in ProjectStatus
        /\ reached' \in [RunIds -> SUBSET NodeName]
        /\ timeline' \in [RunIds -> Attempt]
    BY <1>1, <1>2, <2>1, ToFailedTypes
  <2>3. /\ jobs' \in [RunIds -> Nat] /\ JobsBacked'
        /\ proc' \in [Procs -> ProcState] /\ ProcsBacked'
    BY <1>1, <2>1, ReturnTypes
  <2>4. TypeOK' /\ ReqsBacked'
    BY <1>1, <2>2, <2>3 DEF TypeInv, TypeOK, ReqsBacked, ReqBacked, evidence
  <2>5. QED BY <2>2, <2>3, <2>4 DEF TypeInv
<1>4. CASE ~(attempt > MaxRetries)
  <2>1. /\ Write(p, new) /\ jobs' = JobsAfter(p, 1) /\ UNCHANGED <<project, timeline>>
        /\ Audit(proc[p].run, {proc[p].cache.node})
    BY <1>4 DEF RetryLater
  <2>2. rows' \in [RunIds -> Row] /\ LatestBacked'
    <3> HIDE DEF new
    <3>1. QED BY <1>1, <1>2, <2>1, WriteTypes
  <2>3. reached' \in [RunIds -> SUBSET NodeName]
    BY <1>1, <2>1, ProcTypes DEF Audit, TypeInv, TypeOK
  <2>4. /\ jobs' \in [RunIds -> Nat] /\ JobsBacked'
        /\ proc' \in [Procs -> ProcState] /\ ProcsBacked'
    BY <1>1, <2>1, ReturnTypes
  <2>5. TypeOK' /\ ReqsBacked'
    BY <1>1, <2>1, <2>2, <2>3, <2>4 DEF TypeInv, TypeOK, ReqsBacked, ReqBacked, evidence
  <2>6. QED BY <2>2, <2>4, <2>5 DEF TypeInv
<1>5. QED BY <1>3, <1>4

(* Close keeps TypeInv. *)
LEMMA CloseType ==
  ASSUME TypeInv, NEW p \in Procs, Close(p)
  PROVE  TypeInv'
<1>1. /\ proc[p].pc # "idle" /\ Return(p) /\ jobs' = JobsAfter(p, 0)
      /\ UNCHANGED <<latest, rows, project, approvals, reached, timeline,
                     evidence, tasks, todo, reqs>>
  BY DEF Close
<1>2. /\ jobs' \in [RunIds -> Nat] /\ JobsBacked'
      /\ proc' \in [Procs -> ProcState] /\ ProcsBacked'
  BY <1>1, ReturnTypes
<1>3. TypeOK' /\ ReqsBacked' /\ LatestBacked'
  BY <1>1, <1>2 DEF TypeInv, TypeOK, ReqsBacked, ReqBacked, LatestBacked, evidence
<1>4. QED BY <1>2, <1>3 DEF TypeInv

-----------------------------------------------------------------------------
(* The worker. *)

(* Its list after a step that leaves the table of jobs alone.              *)
LEMMA TodoTypes ==
  ASSUME TypeInv, proc' = proc, jobs' = jobs, todo' \in TodoState,
         \A r \in RunIds : \/ todo'.jobs[r] <= todo.jobs[r]
                           \/ Free /\ todo'.jobs[r] <= jobs[r]
  PROVE  JobsBacked' /\ ProcsBacked'
<1>1. ProcsBacked' /\ \A t \in Tasks : ~proc'[t].job
  BY DEF TypeInv, ProcsBacked, JobsBacked
<1>2. \A r \in RunIds : /\ InHand(r)' = InHand(r) /\ InHand(r) \in {0, 1}
                        /\ Free => InHand(r) = 0
  BY IdleTypes DEF TypeInv, ProcsBacked, Procs, InHand, Free
<1>3. \A r \in RunIds : todo'.jobs[r] + InHand(r) <= jobs[r]
  BY <1>2 DEF TypeInv, TypeOK, TodoState, JobsBacked
<1>4. QED BY <1>1, <1>2, <1>3 DEF JobsBacked

(* Listing the due jobs keeps TypeInv. *)
LEMMA PollJobsType ==
  ASSUME TypeInv, NEW due \in [RunIds -> 0..MaxJobs], PollJobs(due)
  PROVE  TypeInv'
<1>1. /\ Free /\ UNCHANGED <<tables, tasks, proc, reqs>>
      /\ \A r \in RunIds : due[r] <= jobs[r]
      /\ todo' = [IdleTodo EXCEPT !.phase = "jobs", !.jobs = due]
  BY DEF PollJobs
<1>2. due \in [RunIds -> Nat]
  BY MaxJobsAssumption
<1>3. todo' \in TodoState /\ todo'.jobs = due
  BY <1>1, <1>2, IdleTypes DEF TodoState
<1>4. JobsBacked' /\ ProcsBacked'
  BY <1>1, <1>3, TodoTypes DEF tables
<1>5. TypeOK' /\ ReqsBacked' /\ LatestBacked'
  BY <1>1, <1>3
     DEF TypeInv, TypeOK, ReqsBacked, ReqBacked, LatestBacked, tables, evidence
<1>6. QED BY <1>4, <1>5 DEF TypeInv

(* LoadPending keeps TypeInv. *)
LEMMA LoadPendingType ==
  ASSUME TypeInv, LoadPending
  PROVE  TypeInv'
<1> DEFINE list == [r \in RunIds |-> IF PendingRun(r) THEN rows[r] ELSE NoRow]
<1>1. /\ Free /\ UNCHANGED <<tables, tasks, proc, reqs>>
      /\ todo' = [IdleTodo EXCEPT !.phase = "runs", !.runs = list]
  BY DEF LoadPending
<1>2. list \in [RunIds -> Row]
  BY IdleTypes DEF TypeInv, TypeOK
<1> HIDE DEF list
<1>3. todo' \in TodoState /\ todo'.jobs = IdleTodo.jobs
  BY <1>1, <1>2, IdleTypes DEF TodoState
<1>4. \A r \in RunIds : todo'.jobs[r] <= todo.jobs[r]
  BY <1>3, IdleTypes DEF TypeInv, TypeOK, TodoState
<1>5. JobsBacked' /\ ProcsBacked'
  BY <1>1, <1>3, <1>4, TodoTypes DEF tables
<1>6. TypeOK' /\ ReqsBacked' /\ LatestBacked'
  BY <1>1, <1>3
     DEF TypeInv, TypeOK, ReqsBacked, ReqBacked, LatestBacked, tables, evidence
<1>7. QED BY <1>5, <1>6 DEF TypeInv

(* EndCycle keeps TypeInv. *)
LEMMA EndCycleType ==
  ASSUME TypeInv, EndCycle
  PROVE  TypeInv'
<1>1. Free /\ UNCHANGED <<tables, tasks, proc, reqs>> /\ todo' = IdleTodo
  BY DEF EndCycle
<1>2. \A r \in RunIds : todo'.jobs[r] <= todo.jobs[r]
  BY <1>1, IdleTypes DEF TypeInv, TypeOK, TodoState
<1>3. JobsBacked' /\ ProcsBacked'
  BY <1>1, <1>2, IdleTypes, TodoTypes DEF tables
<1>4. TypeOK' /\ ReqsBacked' /\ LatestBacked'
  BY <1>1, IdleTypes
     DEF TypeInv, TypeOK, ReqsBacked, ReqBacked, LatestBacked, tables, evidence
<1>5. QED BY <1>3, <1>4 DEF TypeInv

(* The worker takes the next retry job: it leaves the list for its hands.  *)
LEMMA NextJobType ==
  ASSUME TypeInv, NEW r \in RunIds, NextJob(r)
  PROVE  TypeInv'
<1> DEFINE new == [pc |-> "lock", run |-> r, cache |-> NoRow, job |-> TRUE]
<1>1. /\ Free /\ todo.jobs[r] > 0 /\ UNCHANGED <<tables, tasks, reqs>>
      /\ todo' = [todo EXCEPT !.jobs[r] = @ - 1]
      /\ proc' = [proc EXCEPT ![Worker] = new]
  BY DEF NextJob
<1>2. new \in ProcState /\ new.pc = "lock" /\ new.run = r /\ new.job
  BY IdleTypes, MaxRunAssumption DEF ProcState, RunIds
<1> HIDE DEF new
<1>3. todo.jobs \in [RunIds -> Nat] /\ todo \in TodoState
  BY DEF TypeInv, TypeOK, TodoState
<1>4. /\ todo' \in TodoState
      /\ todo'.jobs = [todo.jobs EXCEPT ![r] = @ - 1]
  BY <1>1, <1>3 DEF TodoState
<1>5. proc' \in [Procs -> ProcState] /\ ProcsBacked'
  BY <1>1, <1>2 DEF TypeInv, TypeOK, ProcsBacked
<1>6. \A x \in RunIds : InHand(x) = 0 /\ InHand(x)' = IF x = r THEN 1 ELSE 0
  BY <1>1, <1>2, IdleTypes DEF InHand, Free, TypeInv, TypeOK, ProcsBacked, Procs
<1>7. \A t \in Tasks : ~proc'[t].job
  BY <1>1, WorkerAssumption DEF TypeInv, TypeOK, JobsBacked, Procs
<1>8. JobsBacked'
  BY <1>1, <1>3, <1>4, <1>6, <1>7 DEF TypeInv, TypeOK, JobsBacked, tables
<1>9. TypeOK' /\ ReqsBacked' /\ LatestBacked'
  BY <1>1, <1>4, <1>5
     DEF TypeInv, TypeOK, ReqsBacked, ReqBacked, LatestBacked, tables, evidence
<1>10. QED BY <1>5, <1>8, <1>9 DEF TypeInv

(* NextRun keeps TypeInv. *)
LEMMA NextRunType ==
  ASSUME TypeInv, NEW r \in RunIds, NextRun(r)
  PROVE  TypeInv'
<1> DEFINE new == [pc |-> "lock", run |-> r, cache |-> todo.runs[r], job |-> FALSE]
<1>1. /\ Free /\ UNCHANGED <<tables, tasks, reqs>>
      /\ todo' = [todo EXCEPT !.runs[r] = NoRow]
      /\ proc' = [proc EXCEPT ![Worker] = new]
  BY DEF NextRun
<1>2. new \in ProcState /\ new.pc = "lock" /\ new.run = r /\ ~new.job
  BY MaxRunAssumption DEF ProcState, RunIds, TypeInv, TypeOK, TodoState
<1> HIDE DEF new
<1>3. todo' \in TodoState /\ todo'.jobs = todo.jobs
  BY <1>1, IdleTypes DEF TypeInv, TypeOK, TodoState
<1>4. proc' \in [Procs -> ProcState] /\ ProcsBacked'
  BY <1>1, <1>2 DEF TypeInv, TypeOK, ProcsBacked
<1>5. \A x \in RunIds : InHand(x) = 0 /\ InHand(x)' = 0
  BY <1>1, <1>2, IdleTypes DEF InHand, Free, TypeInv, TypeOK, ProcsBacked, Procs
<1>6. \A t \in Tasks : ~proc'[t].job
  BY <1>1, WorkerAssumption DEF TypeInv, TypeOK, JobsBacked, Procs
<1>7. JobsBacked'
  BY <1>1, <1>3, <1>5, <1>6 DEF TypeInv, TypeOK, JobsBacked, tables
<1>8. TypeOK' /\ ReqsBacked' /\ LatestBacked'
  BY <1>1, <1>3, <1>4
     DEF TypeInv, TypeOK, ReqsBacked, ReqBacked, LatestBacked, tables, evidence
<1>9. QED BY <1>4, <1>7, <1>8 DEF TypeInv

(* Steps that end an invocation and may drop the worker's lists.           *)
LEMMA DropTypes ==
  ASSUME TypeInv, NEW p \in Procs, Return(p), todo' \in {todo, IdleTodo},
         UNCHANGED <<tables, tasks, reqs>>
  PROVE  TypeInv'
<1>1. proc' \in [Procs -> ProcState] /\ ProcsBacked'
  BY IdleTypes DEF TypeInv, TypeOK, Return, ProcsBacked
<1>2. \A x \in Procs : proc'[x] = proc[x] \/ proc'[x] = IdleProc
  BY DEF TypeInv, TypeOK, Return
<1>3. \A r \in RunIds : /\ todo'.jobs[r] \in Nat /\ todo'.jobs[r] <= todo.jobs[r]
                        /\ todo.jobs[r] \in Nat /\ jobs[r] \in Nat
  BY IdleTypes DEF TypeInv, TypeOK, TodoState
<1>4. \A r \in RunIds : InHand(r) \in {0, 1} /\ InHand(r)' \in {0, InHand(r)}
  BY <1>2, IdleTypes DEF InHand, Procs
<1>5. JobsBacked'
  BY <1>2, <1>3, <1>4, IdleTypes DEF TypeInv, JobsBacked, Procs, tables
<1>6. TypeOK' /\ ReqsBacked' /\ LatestBacked'
  BY <1>1, IdleTypes
     DEF TypeInv, TypeOK, ReqsBacked, ReqBacked, LatestBacked, tables, evidence
<1>7. QED BY <1>1, <1>5, <1>6 DEF TypeInv

(* The ways an invocation ends early keep TypeInv. *)
LEMMA EndsType ==
  ASSUME TypeInv, NEW p \in Procs, Miss(p) \/ Abort(p) \/ WorkerCrash
  PROVE  TypeInv'
<1>1. \E x \in Procs : Return(x)
  BY DEF Miss, Abort, WorkerCrash, Procs
<1>2. todo' \in {todo, IdleTodo} /\ UNCHANGED <<tables, tasks, reqs>>
  BY DEF Miss, Abort, WorkerCrash, AfterRollback
<1>3. QED BY <1>1, <1>2, DropTypes

-----------------------------------------------------------------------------
(* Requests. *)

Kinds == {"approval", "retry", "replay", "deploy", "design"}

(* A request that read the newest run is a request. *)
LEMMA ReadLatestType ==
  ASSUME TypeInv, latest # 0, NEW kind \in Kinds
  PROVE  /\ ReadLatest(kind) \in RequestState
         /\ ReadLatest(kind).kind = kind /\ ReadLatest(kind).run = latest
         /\ ReadLatest(kind).seen = rows[latest]
         /\ latest \in RunIds /\ rows[latest].node \in NodeName
<1>1. latest \in RunIds
  BY DEF TypeInv, TypeOK, RunIds
<1>2. rows[latest] \in Row /\ project \in ProjectStatus /\ latest \in 0..MaxRun
  BY <1>1 DEF TypeInv, TypeOK
<1>3. rows[latest].node \in NodeName
  BY <1>2 DEF TypeInv, LatestBacked, Row
<1>4. IdleRequest \in RequestState
  BY IdleTypes
<1>5. QED BY <1>1, <1>2, <1>3, <1>4 DEF ReadLatest, RequestState, Kinds

(* A request that has read and goes in flight.                             *)
LEMMA BeginTypes ==
  ASSUME TypeInv, NEW q \in Requests, NEW request \in RequestState,
         ReqBacked(request), Begin(q, request),
         UNCHANGED <<tables, tasks, proc, todo>>
  PROVE  TypeInv'
<1>1. reqs' \in [Requests -> RequestState] /\ ReqsBacked'
  BY DEF TypeInv, TypeOK, Begin, ReqsBacked, ReqBacked, tables
<1>2. TypeOK' /\ JobsBacked' /\ ProcsBacked' /\ LatestBacked'
  BY <1>1 DEF TypeInv, TypeOK, JobsBacked, InHand, ProcsBacked, LatestBacked,
              tables, evidence
<1>3. QED BY <1>1, <1>2 DEF TypeInv

(* BeginApproval keeps TypeInv. *)
LEMMA BeginApprovalType ==
  ASSUME TypeInv, NEW q \in Requests, NEW s \in Stages, NEW d \in Decisions,
         BeginApproval(q, s, d)
  PROVE  TypeInv'
<1>1. PICK k \in 1..MaxEvents :
        Begin(q, [ReadLatest("approval") EXCEPT !.stage = s, !.decision = d, !.at = k])
  BY DEF BeginApproval
<1>2. latest # 0 /\ UNCHANGED <<tables, tasks, proc, todo>>
  BY DEF BeginApproval
<1> DEFINE read == ReadLatest("approval")
           request == [read EXCEPT !.stage = s, !.decision = d, !.at = k]
<1>3. /\ read \in RequestState /\ read.kind = "approval" /\ read.run = latest
      /\ latest \in RunIds /\ read.seen.node \in NodeName
  BY <1>2, ReadLatestType DEF Kinds
<1>4. k \in Nat
  BY MaxEventsAssumption
<1> HIDE DEF read
<1>5. request \in RequestState
  BY <1>3, <1>4 DEF RequestState
<1>6. ReqBacked(request)
  BY <1>3, <1>5 DEF ReqBacked, RequestState, RunIds
<1>7. Begin(q, request)
  BY <1>1 DEF read
<1> HIDE DEF request
<1>8. QED BY <1>2, <1>5, <1>6, <1>7, BeginTypes

(* BeginRetry keeps TypeInv. *)
LEMMA BeginRetryType ==
  ASSUME TypeInv, NEW q \in Requests, BeginRetry(q)
  PROVE  TypeInv'
<1> DEFINE n == FailedNode(latest)
           read == ReadLatest("retry")
           request == [read EXCEPT !.node = n]
<1>1. /\ latest # 0 /\ UNCHANGED <<tables, tasks, proc, todo>>
      /\ n # "none" /\ Begin(q, request)
  BY DEF BeginRetry
<1>2. /\ read \in RequestState /\ read.kind = "retry" /\ read.run = latest
      /\ latest \in RunIds /\ read.seen.node \in NodeName
      /\ rows[latest].node \in NodeName
  BY <1>1, ReadLatestType DEF Kinds
<1>3. timeline[latest].moved \in NodeName \cup {"none"} /\ timeline[latest].last \in NodeName \cup {"none"}
  BY <1>2 DEF TypeInv, TypeOK, Attempt
<1>4. n \in NodeName
  BY <1>1, <1>2, <1>3 DEF FailedNode
<1> HIDE DEF read, n
<1>5. request \in RequestState
  BY <1>2, <1>4 DEF RequestState
<1>6. ReqBacked(request)
  BY <1>2, <1>4 DEF ReqBacked, RequestState, RunIds
<1> HIDE DEF request
<1>7. QED BY <1>1, <1>5, <1>6, BeginTypes

(* BeginReplay keeps TypeInv. *)
LEMMA BeginReplayType ==
  ASSUME TypeInv, NEW q \in Requests, NEW n \in NodeName, BeginReplay(q, n)
  PROVE  TypeInv'
<1>1. PICK k \in RunIds :
        NextRunId(k) /\ Begin(q, [ReadLatest("replay") EXCEPT !.node = n, !.at = k])
  BY DEF BeginReplay
<1>2. latest # 0 /\ UNCHANGED <<tables, tasks, proc, todo>>
  BY DEF BeginReplay
<1> DEFINE read == ReadLatest("replay")
           request == [read EXCEPT !.node = n, !.at = k]
<1>3. /\ read \in RequestState /\ read.kind = "replay" /\ read.run = latest
      /\ latest \in RunIds /\ read.seen.node \in NodeName
  BY <1>2, ReadLatestType DEF Kinds
<1>4. k \in Nat /\ latest < k
  BY <1>1, MaxRunAssumption DEF RunIds, NextRunId, Follows
<1> HIDE DEF read
<1>5. request \in RequestState
  BY <1>3, <1>4 DEF RequestState
<1>6. ReqBacked(request)
  BY <1>3, <1>4, <1>5 DEF ReqBacked, RequestState, RunIds
<1>7. Begin(q, request)
  BY <1>1 DEF read
<1> HIDE DEF request
<1>8. QED BY <1>2, <1>5, <1>6, <1>7, BeginTypes

(* BeginDeploy and BeginDesign keep TypeInv. *)
LEMMA BeginOtherType ==
  ASSUME TypeInv, NEW q \in Requests, BeginDeploy(q) \/ BeginDesign(q)
  PROVE  TypeInv'
<1>1. PICK kind \in {"deploy", "design"} : Begin(q, ReadLatest(kind))
  BY DEF BeginDeploy, BeginDesign
<1>2. latest # 0 /\ UNCHANGED <<tables, tasks, proc, todo>>
  BY DEF BeginDeploy, BeginDesign
<1> DEFINE request == ReadLatest(kind)
<1>3. /\ request \in RequestState /\ request.kind = kind /\ request.run = latest
      /\ latest \in RunIds /\ request.seen.node \in NodeName
  BY <1>2, ReadLatestType DEF Kinds
<1> HIDE DEF request
<1>4. ReqBacked(request)
  BY <1>3 DEF ReqBacked, RunIds
<1>5. QED BY <1>1, <1>2, <1>3, <1>4, BeginTypes DEF request

(* A request that commits.                                                 *)
LEMMA DoneTypes ==
  ASSUME TypeInv, NEW q \in Requests, Done(q), latest' \in Nat, latest <= latest'
  PROVE  reqs' \in [Requests -> RequestState] /\ ReqsBacked'
<1>1. reqs' \in [Requests -> RequestState]
  BY IdleTypes DEF TypeInv, TypeOK, Done
<1>2. \A x \in Requests : reqs'[x] = reqs[x] \/ reqs'[x] = IdleRequest
  BY DEF TypeInv, TypeOK, Done
<1>3. latest \in Nat
  BY DEF TypeInv, TypeOK
<1>4. ASSUME NEW x \in Requests, reqs'[x] = reqs[x]
      PROVE  ReqBacked(reqs[x])'
  BY <1>3, <1>4 DEF TypeInv, ReqsBacked, ReqBacked, RunIds
<1>5. ASSUME NEW x \in Requests, reqs'[x] = IdleRequest
      PROVE  ReqBacked(reqs[x])'
  BY <1>5, IdleTypes DEF ReqBacked
<1>6. QED BY <1>1, <1>2, <1>4, <1>5 DEF ReqsBacked

(* The invocations and the worker's list while jobs stay where they are.   *)
LEMMA SameJobs ==
  ASSUME TypeInv, UNCHANGED <<jobs, proc, todo>>
  PROVE  JobsBacked' /\ ProcsBacked'
BY DEF TypeInv, JobsBacked, InHand, ProcsBacked

(* The queue counts tasks. *)
LEMMA EnqueueType ==
  ASSUME TypeInv, NEW r \in RunIds, Enqueue(r)
  PROVE  tasks' \in [RunIds -> Nat]
BY DEF TypeInv, TypeOK, Enqueue

(* CreateRun keeps TypeInv. *)
LEMMA CreateRunType ==
  ASSUME TypeInv, CreateRun
  PROVE  TypeInv'
<1>1. PICK r \in RunIds :
        /\ NextRunId(r)
        /\ latest' = r
        /\ rows' = [rows EXCEPT ![r] = RowAt("IngestPrompt")]
        /\ reached' = [reached EXCEPT ![r] = {"IngestPrompt"}]
        /\ timeline' = [timeline EXCEPT ![r] = [moved |-> "none", last |-> "IngestPrompt"]]
        /\ Enqueue(r)
        /\ UNCHANGED <<project, approvals, evidence, jobs, sessions>>
  BY DEF CreateRun
<1>2. "IngestPrompt" \in NodeName
  BY DEF NodeName
<1>3. r \in 0..MaxRun /\ latest < r /\ r # 0
  <2>1. r \in 0..MaxRun /\ r # 0
    BY MaxRunAssumption DEF RunIds
  <2>2. latest < r
    BY <1>1 DEF NextRunId, Follows
  <2>3. QED BY <2>1, <2>2
<1>4. rows' \in [RunIds -> Row] /\ LatestBacked'
  BY <1>1, <1>2, RowAtType DEF TypeInv, TypeOK, LatestBacked, NodeName
<1>5. reached' \in [RunIds -> SUBSET NodeName] /\ timeline' \in [RunIds -> Attempt]
  BY <1>1, <1>2 DEF TypeInv, TypeOK, Attempt
<1>6. tasks' \in [RunIds -> Nat]
  BY <1>1, EnqueueType
<1>7. JobsBacked' /\ ProcsBacked'
  BY <1>1, SameJobs DEF sessions
<1>8. ReqsBacked'
  BY <1>1, <1>3 DEF TypeInv, TypeOK, ReqsBacked, ReqBacked, RunIds, sessions
<1>9. TypeOK'
  BY <1>1, <1>3, <1>4, <1>5, <1>6 DEF TypeInv, TypeOK, evidence, sessions
<1>10. QED BY <1>4, <1>7, <1>8, <1>9 DEF TypeInv

(* What a request has in its hands.                                        *)
LEMMA InFlightTypes ==
  ASSUME TypeInv, NEW q \in Requests, reqs[q].kind # "idle"
  PROVE  /\ reqs[q] \in RequestState /\ ReqBacked(reqs[q])
         /\ reqs[q].run \in RunIds /\ reqs[q].seen \in Row
         /\ reqs[q].seen.node \in NodeName /\ reqs[q].project \in ProjectStatus
         /\ latest \in Nat
BY DEF TypeInv, TypeOK, ReqsBacked, ReqBacked, RequestState

(* CommitApproval keeps TypeInv. *)
LEMMA CommitApprovalType ==
  ASSUME TypeInv, NEW q \in Requests, CommitApproval(q)
  PROVE  TypeInv'
<1> DEFINE a == reqs[q]
<1>1. /\ a.kind = "approval" /\ Enqueue(a.run) /\ Done(q)
      /\ approvals' = approvals \cup
           {[run |-> a.run, stage |-> a.stage, decision |-> a.decision, at |-> a.at]}
      /\ reached' = [reached EXCEPT ![a.run] = @ \cup {a.seen.node}]
      /\ UNCHANGED <<latest, rows, timeline, evidence, jobs, proc, todo>>
  BY DEF CommitApproval
<1>2. /\ a.run \in RunIds /\ a.seen.node \in NodeName /\ a.stage \in Stages
      /\ a.decision \in Decisions /\ a.at \in Nat /\ latest \in Nat
  BY <1>1, InFlightTypes DEF ReqBacked, RequestState
<1>3. approvals' \subseteq Event
  BY <1>1, <1>2 DEF TypeInv, TypeOK, Event
<1>4. reached' \in [RunIds -> SUBSET NodeName]
  BY <1>1, <1>2 DEF TypeInv, TypeOK
<1>5. project' \in ProjectStatus
  BY <1>2 DEF CommitApproval, FlushProject, STAGE_TO_APPROVED_STATUS, ProjectStatus,
              Stages, TypeInv, TypeOK
<1>6. tasks' \in [RunIds -> Nat]
  BY <1>1, <1>2, EnqueueType
<1>7. reqs' \in [Requests -> RequestState] /\ ReqsBacked'
  BY <1>1, <1>2, DoneTypes
<1>8. JobsBacked' /\ ProcsBacked' /\ LatestBacked'
  BY <1>1, SameJobs DEF TypeInv, LatestBacked
<1>9. TypeOK'
  BY <1>1, <1>3, <1>4, <1>5, <1>6, <1>7 DEF TypeInv, TypeOK, evidence
<1>10. QED BY <1>7, <1>8, <1>9 DEF TypeInv

(* What a request that moves a run writes to its row and its timeline.     *)
LEMMA MoveRowTypes ==
  ASSUME TypeInv, NEW r \in RunIds, NEW seen \in Row, seen.node \in NodeName,
         NEW new \in Row, new.node \in NodeName, latest' = latest,
         rows' = [rows EXCEPT ![r] = Flush(r, seen, new)],
         reached' = [reached EXCEPT ![r] = @ \cup {seen.node, new.node}],
         timeline' = [timeline EXCEPT ![r] =
           [moved |-> "none",
            last  |-> IF seen.node \in TerminalNodes THEN "none" ELSE seen.node]]
  PROVE  /\ rows' \in [RunIds -> Row] /\ LatestBacked'
         /\ reached' \in [RunIds -> SUBSET NodeName]
         /\ timeline' \in [RunIds -> Attempt]
<1> DEFINE row == Flush(r, seen, new)
<1>1. row \in Row /\ (row.node = new.node \/ row.node = rows[r].node)
  BY FlushType DEF TypeInv, TypeOK
<1> HIDE DEF row
<1>2. rows' = [rows EXCEPT ![r] = row]
  BY DEF row
<1>3. rows' \in [RunIds -> Row] /\ LatestBacked'
  BY <1>1, <1>2 DEF TypeInv, TypeOK, LatestBacked, NodeName
<1>4. reached' \in [RunIds -> SUBSET NodeName] /\ timeline' \in [RunIds -> Attempt]
  BY DEF TypeInv, TypeOK, Attempt
<1>5. QED BY <1>3, <1>4

(* CommitRetry keeps TypeInv. *)
LEMMA CommitRetryType ==
  ASSUME TypeInv, NEW q \in Requests, CommitRetry(q)
  PROVE  TypeInv'
<1> DEFINE a == reqs[q]
<1>1. /\ a.kind = "retry" /\ Enqueue(a.run) /\ Done(q)
      /\ UNCHANGED <<latest, approvals, evidence, jobs, proc, todo>>
  BY DEF CommitRetry
<1>2. /\ a.run \in RunIds /\ a.seen.node \in NodeName /\ a.node \in NodeName
      /\ a.seen \in Row /\ latest \in Nat
  BY <1>1, InFlightTypes DEF ReqBacked
<1>3. RowAt(a.node) \in Row /\ RowAt(a.node).node = a.node
  BY <1>2, RowAtType
<1>4. /\ rows' \in [RunIds -> Row] /\ LatestBacked'
      /\ reached' \in [RunIds -> SUBSET NodeName]
      /\ timeline' \in [RunIds -> Attempt]
  BY <1>1, <1>2, <1>3, MoveRowTypes DEF CommitRetry
<1>5. project' \in ProjectStatus
  BY <1>2 DEF CommitRetry, FlushProject, NODE_TO_PROJECT_STATUS, ProjectStatus,
              NodeName, TypeInv, TypeOK
<1>6. tasks' \in [RunIds -> Nat]
  BY <1>1, <1>2, EnqueueType
<1>7. reqs' \in [Requests -> RequestState] /\ ReqsBacked'
  BY <1>1, <1>2, DoneTypes
<1>8. JobsBacked' /\ ProcsBacked'
  BY <1>1, SameJobs
<1>9. TypeOK'
  BY <1>1, <1>4, <1>5, <1>6, <1>7 DEF TypeInv, TypeOK, evidence
<1>10. QED BY <1>4, <1>7, <1>8, <1>9 DEF TypeInv

(* CommitDeploy keeps TypeInv. *)
LEMMA CommitDeployType ==
  ASSUME TypeInv, NEW q \in Requests, CommitDeploy(q)
  PROVE  TypeInv'
<1> DEFINE a == reqs[q]
           forced == [a.seen EXCEPT !.node = "WaitDeployApproval", !.status = "deploy_ready"]
<1>1. /\ a.kind = "deploy" /\ Enqueue(a.run) /\ Done(q)
      /\ UNCHANGED <<latest, approvals, evidence, jobs, proc, todo>>
  BY DEF CommitDeploy
<1>2. a.run \in RunIds /\ a.seen.node \in NodeName /\ a.seen \in Row /\ latest \in Nat
  BY <1>1, InFlightTypes DEF ReqBacked
<1>3. /\ forced \in Row /\ forced.node = "WaitDeployApproval"
      /\ "WaitDeployApproval" \in NodeName
  BY <1>2 DEF Row, NodeName, ProjectStatus
<1>4. /\ rows' = [rows EXCEPT ![a.run] = Flush(a.run, a.seen, forced)]
      /\ reached' = [reached EXCEPT ![a.run] = @ \cup {a.seen.node, "WaitDeployApproval"}]
      /\ timeline' = [timeline EXCEPT ![a.run] =
           [moved |-> "none",
            last  |-> IF a.seen.node \in TerminalNodes THEN "none" ELSE a.seen.node]]
  BY DEF CommitDeploy
<1> HIDE DEF forced
<1>5. /\ rows' \in [RunIds -> Row] /\ LatestBacked'
      /\ reached' \in [RunIds -> SUBSET NodeName]
      /\ timeline' \in [RunIds -> Attempt]
  BY <1>1, <1>2, <1>3, <1>4, MoveRowTypes
<1>6. project' \in ProjectStatus
  BY DEF CommitDeploy, FlushProject, ProjectStatus, TypeInv, TypeOK
<1>7. tasks' \in [RunIds -> Nat]
  BY <1>1, <1>2, EnqueueType
<1>8. reqs' \in [Requests -> RequestState] /\ ReqsBacked'
  BY <1>1, <1>2, DoneTypes
<1>9. JobsBacked' /\ ProcsBacked'
  BY <1>1, SameJobs
<1>10. TypeOK'
  BY <1>1, <1>5, <1>6, <1>7, <1>8 DEF TypeInv, TypeOK, evidence
<1>11. QED BY <1>5, <1>8, <1>9, <1>10 DEF TypeInv

(* CommitReplay keeps TypeInv. *)
LEMMA CommitReplayType ==
  ASSUME TypeInv, NEW q \in Requests, CommitReplay(q)
  PROVE  TypeInv'
<1> DEFINE a == reqs[q]
<1>1. /\ a.kind = "replay" /\ Enqueue(a.at) /\ Done(q)
      /\ latest' = IF a.at > latest THEN a.at ELSE latest
      /\ rows' = [rows EXCEPT ![a.at] = RowAt(a.node)]
      /\ UNCHANGED <<approvals, jobs, proc, todo>>
  BY DEF CommitReplay
<1>2. /\ a.run \in RunIds /\ a.seen.node \in NodeName /\ a.node \in NodeName
      /\ a.at \in RunIds /\ a.seen \in Row /\ latest \in 0..MaxRun
  BY <1>1, InFlightTypes DEF ReqBacked, TypeInv, TypeOK
<1>3. RowAt(a.node) \in Row /\ RowAt(a.node).node # "none"
  BY <1>2, RowAtType DEF NodeName
<1>4. rows' \in [RunIds -> Row]
  BY <1>1, <1>2, <1>3 DEF TypeInv, TypeOK
<1>5. latest' \in 0..MaxRun /\ latest <= latest'
  BY <1>1, <1>2, MaxRunAssumption DEF RunIds
<1>6. LatestBacked'
  BY <1>1, <1>2, <1>3 DEF TypeInv, TypeOK, LatestBacked
<1>7. reached' \in [RunIds -> SUBSET NodeName] /\ timeline' \in [RunIds -> Attempt]
  BY <1>2 DEF CommitReplay, TypeInv, TypeOK, Attempt
<1>8. project' \in ProjectStatus
  BY <1>2 DEF CommitReplay, FlushProject, NODE_TO_PROJECT_STATUS, ProjectStatus,
              NodeName, TypeInv, TypeOK
<1>9. artifacts' \in [RunIds -> SUBSET ArtifactType] /\ scanned' \in [RunIds -> BOOLEAN]
  BY <1>2 DEF CommitReplay, TypeInv, TypeOK
<1>10. tasks' \in [RunIds -> Nat]
  BY <1>1, <1>2, EnqueueType
<1>11. reqs' \in [Requests -> RequestState] /\ ReqsBacked'
  BY <1>1, <1>5, DoneTypes, MaxRunAssumption
<1>12. JobsBacked' /\ ProcsBacked'
  BY <1>1, SameJobs
<1>13. TypeOK'
  BY <1>1, <1>4, <1>5, <1>7, <1>8, <1>9, <1>10, <1>11 DEF TypeInv, TypeOK
<1>14. QED BY <1>6, <1>11, <1>12, <1>13 DEF TypeInv

(* CommitDesign keeps TypeInv. *)
LEMMA CommitDesignType ==
  ASSUME TypeInv, NEW q \in Requests, CommitDesign(q)
  PROVE  TypeInv'
<1> DEFINE a == reqs[q]
<1>1. /\ a.kind = "design" /\ Done(q)
      /\ artifacts' = [artifacts EXCEPT ![a.run] = @ \cup {"design_spec"}]
      /\ UNCHANGED <<latest, rows, approvals, reached, timeline, scanned,
                     jobs, tasks, proc, todo>>
  BY DEF CommitDesign
<1>2. a.run \in RunIds /\ latest \in Nat
  BY <1>1, InFlightTypes
<1>3. artifacts' \in [RunIds -> SUBSET ArtifactType]
  BY <1>1, <1>2 DEF TypeInv, TypeOK, ArtifactType
<1>4. project' \in ProjectStatus
  BY DEF CommitDesign, FlushProject, ProjectStatus, TypeInv, TypeOK
<1>5. reqs' \in [Requests -> RequestState] /\ ReqsBacked'
  BY <1>1, <1>2, DoneTypes
<1>6. JobsBacked' /\ ProcsBacked' /\ LatestBacked'
  BY <1>1, SameJobs DEF TypeInv, LatestBacked
<1>7. TypeOK'
  BY <1>1, <1>3, <1>4, <1>5 DEF TypeInv, TypeOK
<1>8. QED BY <1>5, <1>6, <1>7 DEF TypeInv

-----------------------------------------------------------------------------
(* A crash of the API process.                                             *)
LEMMA ApiCrashType ==
  ASSUME TypeInv, ApiCrash
  PROVE  TypeInv'
<1>1. /\ tasks' = [r \in RunIds |-> 0]
      /\ proc' = [p \in Procs |-> IF p \in Tasks THEN IdleProc ELSE proc[p]]
      /\ reqs' = [q \in Requests |-> IdleRequest]
      /\ UNCHANGED <<tables, todo>>
  BY DEF ApiCrash
<1>2. proc' \in [Procs -> ProcState] /\ ProcsBacked'
  BY <1>1, IdleTypes DEF TypeInv, TypeOK, ProcsBacked
<1>3. proc'[Worker] = proc[Worker] /\ \A t \in Tasks : proc'[t] = IdleProc
  BY <1>1, WorkerAssumption DEF Procs
<1>4. JobsBacked'
  BY <1>1, <1>3, IdleTypes DEF TypeInv, JobsBacked, InHand, tables
<1>5. ReqsBacked' /\ LatestBacked'
  BY <1>1, IdleTypes DEF TypeInv, ReqsBacked, ReqBacked, LatestBacked, tables
<1>6. TypeOK'
  BY <1>1, <1>2, IdleTypes DEF TypeInv, TypeOK, tables, evidence
<1>7. QED BY <1>2, <1>4, <1>5, <1>6 DEF TypeInv

-----------------------------------------------------------------------------
(* Every step keeps the types. *)

(* Every step of an invocation keeps TypeInv. *)
LEMMA InvocationType ==
  ASSUME TypeInv, NEW p \in Procs, Invocation(p)
  PROVE  TypeInv'
BY LockType, ExecuteType, SkipType, ParkWaitingType, TerminalType, FailType,
   RetryLaterType, CloseType, EndsType DEF Invocation, Iterate

(* Every step keeps TypeInv. *)
LEMMA StepTypes ==
  ASSUME TypeInv, [Next]_allVars
  PROVE  TypeInv'
<1>1. CASE RequestStep
  BY <1>1, CreateRunType, BeginApprovalType, CommitApprovalType, BeginRetryType,
     CommitRetryType, BeginReplayType, CommitReplayType, BeginOtherType,
     CommitDeployType, CommitDesignType DEF RequestStep
<1>2. CASE WorkerStep
  <2>1. Worker \in Procs
    BY DEF Procs
  <2>2. QED BY <1>2, <2>1, PollJobsType, NextJobType, NextRunType, LoadPendingType,
               EndCycleType, InvocationType DEF WorkerStep
<1>3. ASSUME NEW t \in Tasks, TaskStep(t) PROVE TypeInv'
  BY <1>3, StartTaskType, InvocationType DEF TaskStep, Procs
<1>4. CASE Fault
  <2>1. Worker \in Procs
    BY DEF Procs
  <2>2. QED BY <1>4, <2>1, ApiCrashType, EndsType DEF Fault
<1>5. CASE UNCHANGED allVars
  BY <1>5 DEF allVars, vars, tables, sessions, evidence, TypeInv, TypeOK, JobsBacked,
     InHand, ProcsBacked, ReqsBacked, ReqBacked, LatestBacked
<1>6. QED BY <1>1, <1>2, <1>3, <1>4, <1>5 DEF Next

(* TypeInv is an invariant: types, and jobs, invocations and requests of    *)
(* runs that exist (engine.py, worker.py, routes).                          *)
THEOREM Invariance == Spec => []TypeInv
<1>1. TypeInv /\ [Next]_allVars => TypeInv'
  BY StepTypes
<1>2. QED BY InitTypes, <1>1, PTL DEF Spec

(* Every variable keeps its type; in particular no step consumes a retry   *)
(* job that is not in the table (_process_retry_jobs).                     *)
THEOREM Typing == Spec => []TypeOK
<1>1. TypeInv => TypeOK
  BY DEF TypeInv
<1>2. QED BY Invariance, <1>1, PTL

=============================================================================
