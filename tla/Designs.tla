------------------------------- MODULE Designs ------------------------------
(***************************************************************************)
(* The design_spec artifacts of one project: who writes a version, what a  *)
(* design request leaves for GenerateDesign, and which design the code is  *)
(* written from.  It opens up the steps of GenerateDesign and WriteCode,   *)
(* which Engine takes whole, and the artifact, which is one for Routes.  A *)
(* run has one invocation at a time, on a current copy of its row.         *)
(***************************************************************************)
EXTENDS Integers, Sequences, FiniteSets

CONSTANTS
  Requests,    \* slots for HTTP requests in flight
  Operations,  \* which requests clients send
  Naming,      \* approvals name the artifact they approve, as the pages do
  MaxRun, MaxRows, MaxTx, MaxDecisions, MaxFaults  \* bounds

ASSUME OperationsAssumption ==
  Operations \subseteq {"generate", "feedback", "reject", "retry", "replay"}
ASSUME NamingAssumption == Naming \in BOOLEAN
ASSUME BoundsAssumption ==
  /\ MaxRun \in Nat \ {0}
  /\ {MaxRows, MaxTx, MaxDecisions, MaxFaults} \subseteq Nat

VARIABLES
  arts,       \* design_spec rows of project_artifacts, in the order of commit
  node,       \* node[r]: current_node of run r; "none" while there is no run r
  status,     \* projects.status
  decisions,  \* approval_events of the design stage
  task,       \* task[r]: the invocation of run r
  req,        \* req[q]: a request in flight
  tx,         \* transactions begun: created_at is now(), the start of one
  snaps,      \* history: code delivered, with the design it was written from
  faults      \* faults so far

vars == <<arts, node, status, decisions, task, req, tx, snaps, faults>>

Run == 1..MaxRun

(* current_node; a failed run is told apart by the node a retry would infer *)
(* as the one that failed.                                                  *)
Failed == {"GenerateDesign failed", "WriteCode failed", "failed later"}
Nodes == {"GenerateDesign", "WaitDesignApproval", "WriteCode", "SecurityGate"} \cup Failed

(* The content of a row: a request not yet served, the payload of a         *)
(* StitchAuthError, or a design.  id tells designs apart: it is the number  *)
(* of the transaction that asked for it.                                    *)
Content == [kind : {"pending", "error", "design"}, id : Nat]
Pending == [kind |-> "pending", id |-> 0]
AuthError == [kind |-> "error", id |-> 0]
Design(i) == [kind |-> "design", id |-> i]

Row == [run : Run, version : Nat, at : Nat, content : Content]

(***************************************************************************)
(* What an invocation or a request holds: the start of its transaction,    *)
(* the row it found (0: none), the version it will use, the design on its  *)
(* way, and whether the project was in design_draft when it was read.      *)
(* WriteCode has the design it read, its version, and in row the version   *)
(* it is traced to; a replay has the contents it copies.                   *)
(***************************************************************************)
Held == [pc : {"idle", "calling", "answered", "found", "numbered",
               "reading", "coding"},
         op : {"none", "generate", "feedback", "replay"}, draft : BOOLEAN,
         run : 0..MaxRun, at : Nat, row : Nat, version : Nat, content : Content,
         copies : Seq(Content)]
Nothing == [pc |-> "idle", op |-> "none", draft |-> FALSE, run |-> 0, at |-> 0,
            row |-> 0, version |-> 0, content |-> Pending, copies |-> <<>>]

TypeOK ==
  /\ arts \in Seq(Row)
  /\ node \in [Run -> Nodes \cup {"none"}]
  /\ status \in {"prd_approved", "design_draft", "codegen", "security_gate", "failed"}
  /\ decisions \in Seq([run : Run, decision : {"approved", "rejected"},
                        artifact : Nat, shown : Nat])
  /\ task \in [Run -> Held]
  /\ req \in [Requests -> Held]
  /\ tx \in 0..MaxTx
  /\ snaps \subseteq [run : Run, content : Content, version : Nat, traced : Nat]
  /\ faults \in 0..MaxFaults

(* A mutant of NODE_TO_PROJECT_STATUS: the table lacks an entry. *)
NodeStatusPartial ==
  [n \in Nodes |-> IF n \in Failed THEN "failed" ELSE
                   IF n = "WriteCode" THEN "none" ELSE "design_draft"]

NODE_TO_PROJECT_STATUS ==
  [n \in Nodes |->
     CASE n \in {"GenerateDesign", "WaitDesignApproval"} -> "design_draft"
       [] n = "WriteCode" -> "codegen"
       [] n = "SecurityGate" -> "security_gate"
       [] OTHER -> "failed"]

Init ==
  /\ arts = <<>>
  /\ node = [r \in Run |-> IF r = 1 THEN "GenerateDesign" ELSE "none"]
  /\ status = "prd_approved"
  /\ decisions = <<>>
  /\ task = [r \in Run |-> Nothing]
  /\ req = [q \in Requests |-> Nothing]
  /\ tx = 0 /\ snaps = {} /\ faults = 0

-----------------------------------------------------------------------------
(* Queries. *)

RowsOf(r) == {i \in DOMAIN arts : arts[i].run = r}
Latest == CHOOSE r \in Run : node[r] # "none" /\ \A q \in Run : q > r => node[q] = "none"

(* ORDER BY created_at DESC: among rows of one transaction any may be first. *)
NewestAmong(I) == {i \in I : \A j \in I : arts[i].at >= arts[j].at}

(* ORDER BY version DESC LIMIT 1; 0 when there is no row. *)
HighestAmong(I) ==
  IF I = {} THEN 0 ELSE CHOOSE i \in I : \A j \in I : arts[i].version >= arts[j].version

(* A mutant of PendingRow: the newest row of the run, whatever its content. *)
PendingRowAny(r) == HighestAmong(RowsOf(r))

PendingRow(r) == HighestAmong({i \in RowsOf(r) : arts[i].content.kind = "pending"})

(* The design a regeneration revises; a StitchAuthError counts as one. *)
CompletedRow == HighestAmong({i \in DOMAIN arts : arts[i].content.kind # "pending"})

NextVersion ==
  LET top == HighestAmong(DOMAIN arts) IN IF top = 0 THEN 1 ELSE arts[top].version + 1

(* A mutant of Taken: the table without its UNIQUE constraint. *)
NeverTaken(v) == FALSE

(* UNIQUE (project_id, artifact_type, version). *)
Taken(v) == \E i \in DOMAIN arts : arts[i].version = v

SelectedRow(r) ==
  LET K == {k \in DOMAIN decisions :
              decisions[k].run = r /\ decisions[k].artifact # 0}
  IN  IF K = {} THEN 0
      ELSE decisions[CHOOSE k \in K : \A j \in K : j <= k].artifact

(* A mutant of PreviousDesign: the selection is not looked at. *)
PreviousDesignNewest(r) == NewestAmong(RowsOf(r))

(* The rows previous_artifacts["design_spec"] may come from. *)
PreviousDesign(r) ==
  IF SelectedRow(r) # 0 THEN {SelectedRow(r)} ELSE NewestAmong(RowsOf(r))

-----------------------------------------------------------------------------
(* Steps of transactions. *)

NewTx == tx < MaxTx /\ tx' = tx + 1

(* Insert a row, which fails when another transaction took the version. *)
Insert(r, v, at, content) ==
  /\ Len(arts) < MaxRows
  /\ ~Taken(v)
  /\ arts' = Append(arts, [run |-> r, version |-> v, at |-> at, content |-> content])

(* The engine's commit: the run moves on, and the project if the run is its newest. *)
MoveTo(r, n) ==
  /\ node' = [node EXCEPT ![r] = n]
  /\ status' = IF r = Latest THEN NODE_TO_PROJECT_STATUS[n] ELSE status
  /\ task' = [task EXCEPT ![r] = Nothing]

-----------------------------------------------------------------------------
(* GenerateDesign. *)

StartDesign(r) ==
  /\ node[r] = "GenerateDesign" /\ task[r].pc = "idle"
  /\ NewTx
  /\ task' = [task EXCEPT ![r] = [Nothing EXCEPT !.pc = "calling", !.at = tx + 1,
                                   !.content = Design(tx + 1)]]
  /\ UNCHANGED <<arts, node, status, decisions, req, snaps, faults>>

(* Stitch answers, or refuses the credentials: that payload is persisted too. *)
Answered(r) ==
  /\ task[r].pc = "calling"
  /\ \E c \in {task[r].content, AuthError} :
       task' = [task EXCEPT ![r].pc = "answered", ![r].content = c]
  /\ UNCHANGED <<arts, node, status, decisions, req, tx, snaps, faults>>

(* Any other error of the provider fails the run and leaves nothing. *)
ProviderFails(r) ==
  /\ task[r].pc = "calling"
  /\ MoveTo(r, "GenerateDesign failed")
  /\ UNCHANGED <<arts, decisions, req, tx, snaps, faults>>

FindPending(r) ==
  /\ task[r].pc = "answered"
  /\ task' = [task EXCEPT ![r].pc = "found", ![r].row = PendingRow(r)]
  /\ UNCHANGED <<arts, node, status, decisions, req, tx, snaps, faults>>

NumberDesign(r) ==
  /\ task[r].pc = "found" /\ task[r].row = 0
  /\ task' = [task EXCEPT ![r].pc = "numbered", ![r].version = NextVersion]
  /\ UNCHANGED <<arts, node, status, decisions, req, tx, snaps, faults>>

PersistDesign(r) ==
  LET t == task[r] IN
  /\ \/ t.pc = "found" /\ t.row # 0 /\ arts' = [arts EXCEPT ![t.row].content = t.content]
     \/ t.pc = "numbered" /\ Insert(r, t.version, t.at, t.content)
  /\ MoveTo(r, IF t.content.kind = "design" THEN "WaitDesignApproval"
               ELSE "GenerateDesign failed")
  /\ UNCHANGED <<decisions, req, tx, snaps, faults>>

(* The IntegrityError ends the invocation; a later one executes the node anew. *)
CollideDesign(r) ==
  /\ task[r].pc = "numbered" /\ Taken(task[r].version)
  /\ task' = [task EXCEPT ![r] = Nothing]
  /\ UNCHANGED <<arts, node, status, decisions, req, tx, snaps, faults>>

-----------------------------------------------------------------------------
(* The gate, and WriteCode. *)

(***************************************************************************)
(* A decision and the move it causes, as one step: how the two come apart  *)
(* is the subject of Orchestrator.  People approve a design; with Naming   *)
(* they name the one they looked at, of any run of the project.            *)
(***************************************************************************)
Decide(r, decision, artifact, shown) ==
  /\ Len(decisions) < MaxDecisions
  /\ status = "design_draft" /\ r = Latest /\ node[r] = "WaitDesignApproval"
  /\ decisions' = Append(decisions, [run |-> r, decision |-> decision,
                                     artifact |-> artifact, shown |-> shown])
  /\ MoveTo(r, IF decision = "approved" THEN "WriteCode" ELSE "GenerateDesign")
  /\ UNCHANGED <<arts, req, tx, snaps, faults>>

Approve(r) ==
  \E i \in DOMAIN arts :
    /\ arts[i].content.kind = "design"
    /\ Naming \/ i = CompletedRow
    /\ Decide(r, "approved", IF Naming THEN i ELSE 0, arts[i].content.id)

Reject(r) == "reject" \in Operations /\ Decide(r, "rejected", 0, 0)

ReadDesign(r) ==
  /\ node[r] = "WriteCode" /\ task[r].pc = "idle"
  /\ NewTx
  /\ \E i \in PreviousDesign(r) :
       task' = [task EXCEPT ![r] = [Nothing EXCEPT !.pc = "reading", !.at = tx + 1,
                  !.version = arts[i].version, !.content = arts[i].content]]
  /\ UNCHANGED <<arts, node, status, decisions, req, snaps, faults>>

(* _load_source_artifact_references: the newest version of the run. *)
TraceDesign(r) ==
  LET i == HighestAmong(RowsOf(r)) IN
  /\ task[r].pc = "reading"
  /\ task' = [task EXCEPT ![r].pc = "coding", ![r].row = IF i = 0 THEN 0 ELSE arts[i].version]
  /\ UNCHANGED <<arts, node, status, decisions, req, tx, snaps, faults>>

(* Code that passes its checks is persisted with the references; a failure     *)
(* records none.                                                               *)
Code(r) ==
  LET t == task[r] IN
  /\ t.pc = "coding"
  /\ \/ /\ snaps' = snaps \cup {[run |-> r, content |-> t.content,
                                   version |-> t.version, traced |-> t.row]}
        /\ MoveTo(r, "SecurityGate")
     \/ MoveTo(r, "WriteCode failed") /\ UNCHANGED snaps
  /\ UNCHANGED <<arts, decisions, req, tx, faults>>

(* What comes after ends badly; a run that is deployed can be replayed alike. *)
FailLater(r) ==
  /\ node[r] = "SecurityGate" /\ task[r].pc = "idle"
  /\ MoveTo(r, "failed later")
  /\ UNCHANGED <<arts, decisions, req, tx, snaps, faults>>

-----------------------------------------------------------------------------
(* Requests. *)

Hold(q, h) ==
  /\ req[q].pc = "idle"
  /\ NewTx
  /\ req' = [req EXCEPT ![q] = [h EXCEPT !.at = tx + 1]]
  /\ UNCHANGED <<arts, node, status, decisions, task, snaps, faults>>

Release(q) == req' = [req EXCEPT ![q] = Nothing]

BeginGenerate(q) ==
  /\ "generate" \in Operations
  /\ status \in {"prd_approved", "design_draft", "failed"}
  /\ Hold(q, [Nothing EXCEPT !.pc = "found", !.op = "generate", !.run = Latest,
              !.draft = (status = "design_draft"), !.row = PendingRow(Latest)])

(* POST /design/feedback calls Stitch itself, between its reads and its write. *)
BeginFeedback(q) ==
  /\ "feedback" \in Operations
  /\ status = "design_draft" /\ CompletedRow # 0
  /\ Hold(q, [Nothing EXCEPT !.pc = "calling", !.op = "feedback", !.run = Latest,
              !.content = Design(tx + 1)])

NumberRequest(q) ==
  /\ \/ req[q].pc = "calling"
     \/ req[q].pc = "found" /\ req[q].row = 0
  /\ req' = [req EXCEPT ![q].pc = "numbered", ![q].version = NextVersion]
  /\ UNCHANGED <<arts, node, status, decisions, task, tx, snaps, faults>>

(***************************************************************************)
(* A pending row found earlier is overwritten, whatever it holds by now.   *)
(* The flush leaves a row alone whose content is set to what was loaded:   *)
(* the same request again.  So does a request with the Idempotency-Key of  *)
(* a pending row, which it is answered with: such a request is no action.  *)
(***************************************************************************)
CommitGenerate(q) ==
  LET h == req[q] IN
  /\ h.op = "generate"
  /\ \/ /\ h.pc = "found" /\ h.row # 0
        /\ arts' \in {arts, [arts EXCEPT ![h.row].content = Pending]}
     \/ h.pc = "numbered" /\ Insert(h.run, h.version, h.at, Pending)
  /\ status' = IF h.draft THEN status ELSE "design_draft"
  /\ Release(q)
  /\ UNCHANGED <<node, decisions, task, tx, snaps, faults>>

CommitFeedback(q) ==
  LET h == req[q] IN
  /\ h.op = "feedback" /\ h.pc = "numbered"
  /\ Insert(h.run, h.version, h.at, h.content)
  /\ Release(q)
  /\ UNCHANGED <<node, status, decisions, task, tx, snaps, faults>>

(* The unique index refuses the row, or the provider the feedback. *)
RefuseRequest(q) ==
  /\ \/ req[q].pc = "calling"
     \/ req[q].pc = "numbered" /\ Taken(req[q].version)
  /\ Release(q)
  /\ UNCHANGED <<arts, node, status, decisions, task, tx, snaps, faults>>

(* retry_failed: the run goes back to the node that failed. *)
Retry(r) ==
  /\ "retry" \in Operations
  /\ r = Latest /\ node[r] \in {"GenerateDesign failed", "WriteCode failed"}
  /\ MoveTo(r, IF node[r] = "WriteCode failed" THEN "WriteCode" ELSE "GenerateDesign")
  /\ UNCHANGED <<arts, decisions, req, tx, snaps, faults>>

(* The contents of a run's rows, of every state, in the order of their versions. *)
Contents(r) ==
  LET I == RowsOf(r)
      rank(i) == Cardinality({j \in I : arts[j].version < arts[i].version})
  IN  [k \in 1..Cardinality(I) |-> arts[CHOOSE i \in I : rank(i) = k - 1].content]

(* replay_from_node at WriteCode, once the run before it reached it. *)
BeginReplay(q) ==
  /\ "replay" \in Operations
  /\ node[Latest] \in Failed \ {"GenerateDesign failed"}
  /\ Hold(q, [Nothing EXCEPT !.pc = "numbered", !.op = "replay", !.run = Latest,
              !.version = NextVersion, !.copies = Contents(Latest)])

(* The new run, with copies that have new versions and one created_at. *)
CommitReplay(q) ==
  LET h == req[q]
      run == Latest + 1
      rows == [k \in DOMAIN h.copies |->
                 [run |-> run, version |-> h.version + k - 1, at |-> h.at,
                  content |-> h.copies[k]]]
  IN
  /\ h.op = "replay" /\ run <= MaxRun
  /\ Len(arts) + Len(rows) <= MaxRows
  /\ \A k \in DOMAIN rows : ~Taken(rows[k].version)
  /\ arts' = arts \o rows
  /\ node' = [node EXCEPT ![run] = "WriteCode"]
  /\ status' = "codegen"
  /\ Release(q)
  /\ UNCHANGED <<decisions, task, tx, snaps, faults>>

(* A crash of the process, or of its connection, before the commit. *)
Fault ==
  /\ faults < MaxFaults /\ faults' = faults + 1
  /\ \/ \E r \in Run : /\ task[r].pc # "idle"
                       /\ task' = [task EXCEPT ![r] = Nothing] /\ UNCHANGED req
     \/ \E q \in Requests : req[q].pc # "idle" /\ Release(q) /\ UNCHANGED task
  /\ UNCHANGED <<arts, node, status, decisions, tx, snaps>>

Invocation(r) ==
  \/ StartDesign(r) \/ Answered(r) \/ ProviderFails(r) \/ FindPending(r)
  \/ NumberDesign(r) \/ PersistDesign(r) \/ CollideDesign(r)
  \/ ReadDesign(r) \/ TraceDesign(r) \/ Code(r) \/ FailLater(r)

Request(q) ==
  \/ BeginGenerate(q) \/ BeginFeedback(q) \/ NumberRequest(q) \/ CommitGenerate(q)
  \/ CommitFeedback(q) \/ RefuseRequest(q) \/ BeginReplay(q) \/ CommitReplay(q)

People(r) == Approve(r) \/ Reject(r) \/ Retry(r)

Next ==
  \/ \E r \in Run : Invocation(r) \/ People(r)
  \/ \E q \in Requests : Request(q)
  \/ Fault

Spec == Init /\ [][Next]_vars

-----------------------------------------------------------------------------
(* The versions of a project's designs are 1, 2, ..., each given once, though *)
(* nodes, requests and replays number them without a lock: what collides is   *)
(* not written (routes/design.py:51, engine.py:678, routes/runs.py:329).      *)
VersionsDense ==
  /\ {arts[i].version : i \in DOMAIN arts} = 1..Len(arts)

(* A design that is stored, a reviewed one too, never becomes another design, *)
(* or an error, although a node fills in the row it found two awaits before   *)
(* (engine.py:664).  What it can give way to is a request for a new one that  *)
(* found the row while it was pending (routes/design.py:200).                 *)
DesignsKept ==
  [][\A i \in DOMAIN arts :
       arts[i].content.kind = "design" =>
         arts'[i] \in {arts[i], [arts[i] EXCEPT !.content = Pending]}]_vars

Shown(r) == {decisions[k].shown : k \in {j \in DOMAIN decisions :
               decisions[j].run = r /\ decisions[j].decision = "approved"}}

(* A design that code of a run whose own gate was opened is written from is   *)
(* the one that was looked at, whatever feedback, requests and faults came in *)
(* between (_selected_artifact_ids_for_run, engine.py:760).  The code may be  *)
(* written from no design at all: see CodeFromApproved.                       *)
SelectionHonoured ==
  \A s \in snaps :
    s.content.kind = "design" /\ Shown(s.run) # {} => s.content.id \in Shown(s.run)

(***************************************************************************)
(* What the repository says and TLC refutes.                               *)
(***************************************************************************)

(* "WriteCode ... generates a full merged code snapshot from approved         *)
(* artifacts" (write_code.py:1): from a design some approval was given to.    *)
CodeFromApproved ==
  \A s \in snaps : s.content.kind = "design" /\ \E r \in Run : s.content.id \in Shown(r)

(* "Return artifact references used in this run for traceability"             *)
(* (write_code.py:616): the version recorded is the version used.             *)
LineageTrue == \A s \in snaps : s.traced = s.version

=============================================================================
