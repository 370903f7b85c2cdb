---------------------------- MODULE DesignsProofs ----------------------------
(***************************************************************************)
(* Proofs about Designs, for any number of runs, requests, rows, decisions *)
(* and faults: versions are dense, no design becomes another, and the code *)
(* of a run is written from no design but one shown to who approved it.    *)
(***************************************************************************)
EXTENDS Designs, FiniteSetTheorems, WellFoundedInduction, TLAPS

Below == OpToRel(<, Nat)

(* Among natural numbers there is a least one. *)
LEMMA Least ==
  ASSUME NEW S, S \subseteq Nat, S # {}
  PROVE  \E m \in S : \A j \in S : m <= j
<1>1. IsWellFoundedOn(Below, Nat)
  BY NatLessThanWellFounded DEF Below
<1>2. PICK m \in S : \A y \in S : ~ (<<y, m>> \in Below)
  BY <1>1, WFMin
<1>3. ASSUME NEW j \in S PROVE m <= j
  <2>1. j < m => <<j, m>> \in Below
    BY DEF Below, OpToRel
  <2>2. j \in Nat /\ m \in Nat
    OBVIOUS
  <2> QED
    BY <1>2, <2>1, <2>2
<1> QED
  BY <1>3

(* Among the positions up to n there is a greatest one. *)
LEMMA Greatest ==
  ASSUME NEW n \in Nat, NEW S, S \subseteq 1..n, S # {}
  PROVE  \E m \in S : \A j \in S : j <= m
<1> DEFINE T == {n - i : i \in S}
<1>1. T \subseteq Nat /\ T # {}
  <2>1. \A i \in S : i \in Nat /\ i <= n /\ n - i \in Nat
    OBVIOUS
  <2> QED
    BY <2>1
<1> HIDE DEF T
<1>2. PICK t \in T : \A u \in T : t <= u
  BY <1>1, Least
<1>3. PICK m \in S : t = n - m
  BY DEF T
<1>4. ASSUME NEW j \in S PROVE j <= m
  <2>1. n - j \in T
    BY DEF T
  <2> QED
    BY <1>2, <1>3, <2>1
<1> QED
  BY <1>4

(* The members of a set of positions below one of them. *)
Rank(I, i) == Cardinality({j \in I : j < i})

(* The members of a set of positions up to m. *)
Upto(I, m) == {j \in I : j <= m}

(* Counting up to m: the set grows by m, or not at all. *)
LEMMA UptoStep ==
  ASSUME NEW n \in Nat, NEW I, I \subseteq 1..n, NEW m \in Nat, m # 0
  PROVE  /\ Upto(I, m) = IF m \in I THEN Upto(I, m - 1) \cup {m} ELSE Upto(I, m - 1)
         /\ m \notin Upto(I, m - 1)
         /\ Upto(I, m - 1) = {j \in I : j < m}
<1>1. \A j \in I : j \in Int /\ 1 <= j /\ j <= n
  OBVIOUS
<1>2. \A j \in I : /\ j <= m <=> j = m \/ j <= m - 1
                   /\ j <= m - 1 <=> j < m
  BY <1>1
<1>3. ~ (m <= m - 1)
  OBVIOUS
<1> QED
  BY <1>1, <1>2, <1>3, Zenon DEF Upto

(* Up to 0 there is no position, up to n all are there. *)
LEMMA UptoEnds ==
  ASSUME NEW n \in Nat, NEW I, I \subseteq 1..n
  PROVE  Upto(I, 0) = {} /\ Upto(I, n) = I
<1>1. \A j \in I : j <= n /\ ~ (j <= 0)
  OBVIOUS
<1> QED
  BY <1>1, Zenon DEF Upto

(* A set of positions has a member of every rank. *)
LEMMA Ranked ==
  ASSUME NEW n \in Nat, NEW I, I \subseteq 1..n, NEW k \in 1..Cardinality(I)
  PROVE  \E i \in I : Rank(I, i) = k - 1
<1> DEFINE c(m) == Cardinality(Upto(I, m))
           S == {m \in 0..n : c(m) >= k}
<1>1. IsFiniteSet(I) /\ Cardinality(I) \in Nat
  <2>1. IsFiniteSet(1..n)
    BY FS_Interval
  <2> QED
    BY <2>1, FS_Subset, FS_CardinalityType
<1>2. ASSUME NEW m \in Int PROVE IsFiniteSet(Upto(I, m)) /\ c(m) \in Nat
  <2>1. Upto(I, m) \in SUBSET I
    BY DEF Upto
  <2> QED
    BY <1>1, <2>1, FS_Subset, FS_CardinalityType
<1>3. k \in Nat /\ k >= 1 /\ k <= Cardinality(I)
  BY <1>1
<1>4. Upto(I, 0) = {} /\ Upto(I, n) = I
  BY UptoEnds
<1>5. c(0) = 0 /\ c(n) >= k
  BY <1>1, <1>3, <1>4, FS_EmptySet
<1>6. PICK m \in S : \A j \in S : m <= j
  <2>1. S \subseteq Nat /\ n \in S
    BY <1>5
  <2> HIDE DEF S
  <2> QED
    BY <2>1, Least
<1>7. m \in Nat /\ m <= n /\ c(m) >= k
  OBVIOUS
<1>8. m # 0
  BY <1>3, <1>5, <1>7
<1>9. c(m - 1) < k
  <2>1. m - 1 \in 0..n /\ m - 1 \in Int
    BY <1>7, <1>8
  <2>2. c(m - 1) \in Nat
    BY <1>2, <2>1
  <2>3. ~ (m <= m - 1)
    BY <1>7
  <2>4. m - 1 \notin S
    BY <1>6, <2>3
  <2> QED
    BY <1>3, <2>1, <2>2, <2>4
<1>10. m \in I /\ c(m - 1) = k - 1
  <2>1. /\ IsFiniteSet(Upto(I, m - 1)) /\ c(m - 1) \in Nat /\ c(m) \in Nat
    BY <1>2, <1>7
  <2>2. c(m) = IF m \in I THEN c(m - 1) + 1 ELSE c(m - 1)
    <3>1. /\ Upto(I, m) = IF m \in I THEN Upto(I, m - 1) \cup {m} ELSE Upto(I, m - 1)
          /\ m \notin Upto(I, m - 1)
      BY <1>7, <1>8, UptoStep
    <3> QED
      BY <2>1, <3>1, FS_AddElement
  <2> HIDE DEF c
  <2> QED
    BY <1>3, <1>7, <1>9, <2>1, <2>2
<1>11. Upto(I, m - 1) = {j \in I : j < m}
  BY <1>7, <1>8, UptoStep
<1> QED
  BY <1>10, <1>11, Zenon DEF Rank

-----------------------------------------------------------------------------
(* The row at position i has version i. *)
Numbered == \A i \in DOMAIN arts : arts[i].version = i

(* The runs there are: the first ones. *)
Begun == \E l \in Run : \A r \in Run : node[r] = "none" <=> r > l

(* An invocation is at its node, with a version that fitted when it was read  *)
(* and a row of its own run that is still pending: nobody else completes it.  *)
TaskOK(r, t) ==
  /\ t.pc \in {"calling", "answered", "found", "numbered"} => node[r] = "GenerateDesign"
  /\ t.pc \in {"reading", "coding"} => node[r] = "WriteCode"
  /\ t.pc = "numbered" => t.version \in 1..Len(arts) + 1
  /\ t.pc = "found" /\ t.row # 0 =>
       /\ t.row \in DOMAIN arts /\ arts[t.row].run = r
       /\ arts[t.row].content.kind = "pending"

(* A request is about a run there is. *)
ReqOK(h) ==
  /\ h.pc # "idle" => h.run \in Run /\ node[h.run] # "none"
  /\ h.pc = "numbered" => h.version \in 1..Len(arts) + 1
  /\ h.op = "generate" /\ h.pc = "found" /\ h.row # 0 => h.row \in DOMAIN arts
  /\ h.op = "replay" => h.pc = "numbered"

(* A decision names a row there is. *)
NamesRows == \A k \in DOMAIN decisions : decisions[k].artifact \in 0..Len(arts)

IInv ==
  /\ TypeOK
  /\ Numbered
  /\ NamesRows
  /\ Begun
  /\ \A r \in Run : TaskOK(r, task[r])
  /\ \A q \in Requests : ReqOK(req[q])

(* The facts about constants that the steps use. *)
LEMMA Constants ==
  /\ MaxRun \in Nat /\ MaxRun >= 1 /\ Run = 1..MaxRun
  /\ MaxRows \in Nat /\ MaxTx \in Nat /\ MaxDecisions \in Nat /\ MaxFaults \in Nat
  /\ Nothing \in Held
  /\ Pending \in Content /\ AuthError \in Content /\ \A i \in Nat : Design(i) \in Content
  /\ \A n \in Nodes : NODE_TO_PROJECT_STATUS[n] \in
       {"prd_approved", "design_draft", "codegen", "security_gate", "failed"}
<1>1. MaxRun \in Nat /\ MaxRun >= 1 /\ Run = 1..MaxRun
  BY BoundsAssumption DEF Run
<1>2. Pending \in Content /\ AuthError \in Content /\ \A i \in Nat : Design(i) \in Content
  BY DEF Content, Pending, AuthError, Design
<1>3. Nothing \in Held
  BY <1>1, <1>2 DEF Held, Nothing
<1>4. \A n \in Nodes : NODE_TO_PROJECT_STATUS[n] \in
       {"prd_approved", "design_draft", "codegen", "security_gate", "failed"}
  BY DEF Nodes, Failed, NODE_TO_PROJECT_STATUS
<1> QED
  BY <1>1, <1>2, <1>3, <1>4, BoundsAssumption

(* Idle invocations and requests are in order. *)
LEMMA NothingOK == \A r : TaskOK(r, Nothing) /\ ReqOK(Nothing)
  BY DEF TaskOK, ReqOK, Nothing

(* The latest run is the last there is. *)
LEMMA LatestRun ==
  ASSUME IInv
  PROVE  Latest \in Run /\ node[Latest] # "none" /\ \A q \in Run : q > Latest => node[q] = "none"
<1>1. PICK l \in Run : \A r \in Run : node[r] = "none" <=> r > l
  BY DEF IInv, Begun
<1>2. node[l] # "none" /\ \A q \in Run : q > l => node[q] = "none"
  BY <1>1, Constants
<1> QED
  BY <1>2 DEF Latest

(* The row with the highest version is one of those looked at. *)
LEMMA Highest ==
  ASSUME IInv, NEW I, I \subseteq DOMAIN arts
  PROVE  /\ HighestAmong(I) = 0 <=> I = {}
         /\ HighestAmong(I) # 0 => HighestAmong(I) \in I /\ \A j \in I : j <= HighestAmong(I)
         /\ HighestAmong(I) \in Nat
<1>1. Len(arts) \in Nat /\ DOMAIN arts = 1..Len(arts)
  BY DEF IInv, TypeOK
<1>2. CASE I = {}
  BY <1>2 DEF HighestAmong
<1>3. CASE I # {}
  <2>1. PICK m \in I : \A j \in I : j <= m
    BY <1>1, <1>3, Greatest
  <2>2. \A i \in I : arts[i].version = i /\ i \in Nat /\ i # 0
    BY <1>1 DEF IInv, Numbered
  <2>3. \A j \in I : arts[m].version >= arts[j].version
    BY <2>1, <2>2
  <2>4. /\ HighestAmong(I) \in I
        /\ \A j \in I : arts[HighestAmong(I)].version >= arts[j].version
    BY <1>3, <2>3 DEF HighestAmong
  <2> QED
    BY <1>3, <2>2, <2>4
<1> QED
  BY <1>2, <1>3

(* What the queries return. *)
LEMMA Queries ==
  ASSUME IInv
  PROVE  /\ NextVersion \in 1..Len(arts) + 1
         /\ \A r \in Run : /\ PendingRow(r) \in Nat
                           /\ PendingRow(r) # 0 =>
                                /\ PendingRow(r) \in DOMAIN arts
                                /\ arts[PendingRow(r)].run = r
                                /\ arts[PendingRow(r)].content.kind = "pending"
         /\ \A v \in 1..Len(arts) + 1 : ~Taken(v) => v = Len(arts) + 1
<1>1. Len(arts) \in Nat /\ DOMAIN arts = 1..Len(arts) /\ Numbered
  BY DEF IInv, TypeOK
<1>2. NextVersion \in 1..Len(arts) + 1
  <2> DEFINE top == HighestAmong(DOMAIN arts)
  <2>1. top \in Nat /\ (top # 0 => top \in DOMAIN arts)
    BY Highest
  <2>2. NextVersion = IF top = 0 THEN 1 ELSE arts[top].version + 1
    BY DEF NextVersion
  <2> HIDE DEF top
  <2> QED
    BY <1>1, <2>1, <2>2 DEF Numbered
<1>3. ASSUME NEW r \in Run
      PROVE  /\ PendingRow(r) \in Nat
             /\ PendingRow(r) # 0 =>
                  /\ PendingRow(r) \in DOMAIN arts
                  /\ arts[PendingRow(r)].run = r
                  /\ arts[PendingRow(r)].content.kind = "pending"
  <2> DEFINE I == {i \in RowsOf(r) : arts[i].content.kind = "pending"}
  <2>1. /\ I \subseteq DOMAIN arts
        /\ \A i \in I : arts[i].run = r /\ arts[i].content.kind = "pending"
    BY DEF RowsOf
  <2>2. PendingRow(r) = HighestAmong(I)
    BY DEF PendingRow
  <2> HIDE DEF I
  <2> QED
    BY <2>1, <2>2, Highest
<1>4. ASSUME NEW v \in 1..Len(arts) + 1, ~Taken(v) PROVE v = Len(arts) + 1
  <2>1. v \in DOMAIN arts => Taken(v)
    BY <1>1 DEF Taken, Numbered
  <2>2. v \in DOMAIN arts \/ v = Len(arts) + 1
    BY <1>1
  <2> QED
    BY <1>4, <2>1, <2>2
<1> QED
  BY <1>2, <1>3, <1>4

(* The decision a selection comes from: the last one of the run with a row. *)
LEMMA Selected ==
  ASSUME IInv, NEW r \in Run
  PROVE  /\ SelectedRow(r) = 0 =>
              \A k \in DOMAIN decisions : decisions[k].run = r => decisions[k].artifact = 0
         /\ SelectedRow(r) # 0 =>
              /\ SelectedRow(r) \in DOMAIN arts
              /\ \E k \in DOMAIN decisions :
                   decisions[k].run = r /\ decisions[k].artifact = SelectedRow(r)
<1> DEFINE K == {k \in DOMAIN decisions : decisions[k].run = r /\ decisions[k].artifact # 0}
           last == CHOOSE k \in K : \A j \in K : j <= k
<1>1. /\ Len(decisions) \in Nat /\ K \subseteq 1..Len(decisions)
      /\ Len(arts) \in Nat /\ DOMAIN arts = 1..Len(arts)
  BY DEF IInv, TypeOK
<1>2. SelectedRow(r) = IF K = {} THEN 0 ELSE decisions[last].artifact
  BY DEF SelectedRow
<1>3. K # {} => last \in K
  <2> HIDE DEF K
  <2>1. ASSUME K # {} PROVE \E m \in K : \A j \in K : j <= m
    BY <1>1, <2>1, Greatest
  <2> QED
    BY <2>1
<1> HIDE DEF last
<1>4. \A k \in K : /\ decisions[k].artifact \in DOMAIN arts /\ decisions[k].artifact # 0
                   /\ decisions[k].run = r /\ k \in DOMAIN decisions
  BY <1>1 DEF IInv, NamesRows
<1>5. K = {} => \A k \in DOMAIN decisions : decisions[k].run = r => decisions[k].artifact = 0
  OBVIOUS
<1> HIDE DEF K
<1> QED
  BY <1>2, <1>3, <1>4, <1>5

-----------------------------------------------------------------------------
(* Steps that leave the rows alone. *)

(* The system starts in the invariant. *)
LEMMA InitIInv == Init => IInv
<1> SUFFICES ASSUME Init PROVE IInv
  OBVIOUS
<1>1. TypeOK
  <2>1. node \in [Run -> Nodes \cup {"none"}]
    BY DEF Init, Nodes
  <2>2. task \in [Run -> Held] /\ req \in [Requests -> Held]
    BY Constants DEF Init
  <2> QED
    BY <2>1, <2>2, Constants DEF Init, TypeOK
<1>2. Begun
  <2>1. 1 \in Run /\ \A r \in Run : node[r] = "none" <=> r > 1
    BY Constants DEF Init
  <2> QED
    BY <2>1 DEF Begun
<1>3. Numbered /\ NamesRows
  BY DEF Init, Numbered, NamesRows
<1>4. \A r \in Run : task[r] = Nothing
  BY DEF Init
<1>5. \A q \in Requests : req[q] = Nothing
  BY DEF Init
<1> QED
  BY <1>1, <1>2, <1>3, <1>4, <1>5, NothingOK DEF IInv

(* An invocation takes a step of its own. *)
LEMMA TaskStep ==
  ASSUME IInv, NEW r \in Run, NEW t \in Held, TaskOK(r, t), task' = [task EXCEPT ![r] = t],
         UNCHANGED <<arts, node, status, decisions, req, snaps>>,
         tx' \in 0..MaxTx, faults' \in 0..MaxFaults
  PROVE  IInv'
<1>1. TypeOK'
  BY DEF IInv, TypeOK
<1>2. Numbered' /\ Begun' /\ NamesRows'
  BY DEF IInv, Numbered, Begun, NamesRows
<1>3. \A q \in Run : TaskOK(q, task[q])'
  BY DEF IInv, TypeOK, TaskOK
<1>4. \A q \in Requests : ReqOK(req[q])'
  BY DEF IInv, ReqOK
<1> QED
  BY <1>1, <1>2, <1>3, <1>4 DEF IInv

(* A request takes a step of its own. *)
LEMMA ReqStep ==
  ASSUME IInv, NEW q \in Requests, NEW h \in Held, ReqOK(h), req' = [req EXCEPT ![q] = h],
         UNCHANGED <<arts, node, status, decisions, task, snaps>>,
         tx' \in 0..MaxTx, faults' \in 0..MaxFaults
  PROVE  IInv'
<1>1. TypeOK'
  BY DEF IInv, TypeOK
<1>2. Numbered' /\ Begun' /\ NamesRows'
  BY DEF IInv, Numbered, Begun, NamesRows
<1>3. \A r \in Run : TaskOK(r, task[r])'
  BY DEF IInv, TaskOK
<1>4. \A o \in Requests : ReqOK(req[o])'
  BY DEF IInv, TypeOK, ReqOK
<1> QED
  BY <1>1, <1>2, <1>3, <1>4 DEF IInv

(* A run moves; no rows are written. *)
LEMMA MoveStep ==
  ASSUME IInv, NEW r \in Run, node[r] # "none", NEW n \in Nodes, MoveTo(r, n),
         UNCHANGED <<arts, req, tx, faults>>,
         decisions' \in Seq([run : Run, decision : {"approved", "rejected"},
                             artifact : Nat, shown : Nat]),
         snaps' \subseteq [run : Run, content : Content, version : Nat, traced : Nat],
         NamesRows'
  PROVE  IInv'
<1>1. /\ node' = [node EXCEPT ![r] = n] /\ task' = [task EXCEPT ![r] = Nothing]
      /\ status' \in {"prd_approved", "design_draft", "codegen", "security_gate", "failed"}
  BY Constants DEF MoveTo, IInv, TypeOK
<1>2. n # "none"
  BY DEF Nodes, Failed
<1>3. TypeOK'
  BY <1>1, Constants DEF IInv, TypeOK
<1>4. Numbered' /\ Begun'
  <2>1. \A q \in Run : node'[q] = "none" <=> node[q] = "none"
    BY <1>1, <1>2 DEF IInv, TypeOK
  <2> QED
    BY <2>1 DEF IInv, Numbered, Begun
<1>5. \A q \in Run : TaskOK(q, task[q])'
  <2>1. TaskOK(r, task[r])'
    BY <1>1 DEF TaskOK, Nothing, IInv, TypeOK
  <2>2. ASSUME NEW q \in Run, q # r PROVE TaskOK(q, task[q])'
    BY <1>1, <2>2 DEF TaskOK, IInv, TypeOK
  <2> QED
    BY <2>1, <2>2
<1>6. \A q \in Requests : ReqOK(req[q])'
  BY <1>1, <1>2 DEF IInv, TypeOK, ReqOK
<1> QED
  BY <1>3, <1>4, <1>5, <1>6 DEF IInv

-----------------------------------------------------------------------------
(* Steps that write rows. *)

(* No row is lost, none changes its run, and a pending row of another run than *)
(* r stays pending.                                                            *)
Grows(r) ==
  /\ arts' \in Seq(Row) /\ Numbered'
  /\ Len(arts') >= Len(arts)
  /\ \A i \in DOMAIN arts :
       /\ arts'[i].run = arts[i].run
       /\ arts[i].content.kind = "pending" /\ arts[i].run # r
            => arts'[i].content.kind = "pending"

(* What the step does not touch stays in order. *)
LEMMA GrowsOK ==
  ASSUME IInv, NEW r, Grows(r)
  PROVE  /\ \A q \in Run : q # r /\ node'[q] = node[q] /\ task'[q] = task[q]
              => TaskOK(q, task[q])'
         /\ \A q \in Requests :
              /\ req'[q] = req[q]
              /\ \A p \in Run : node[p] # "none" => node'[p] # "none"
              => ReqOK(req[q])'
         /\ decisions' = decisions => NamesRows'
<1>1. /\ Len(arts) \in Nat /\ DOMAIN arts = 1..Len(arts)
      /\ Len(arts') \in Nat /\ DOMAIN arts' = 1..Len(arts')
  BY DEF IInv, TypeOK, Grows
<1>2. /\ \A i \in DOMAIN arts : i \in DOMAIN arts'
      /\ \A v \in 1..Len(arts) + 1 : v \in 1..Len(arts') + 1
  BY <1>1 DEF Grows
<1>3. ASSUME NEW q \in Run, q # r, node'[q] = node[q], task'[q] = task[q]
      PROVE  TaskOK(q, task[q])'
  <2>1. TaskOK(q, task[q])
    BY DEF IInv
  <2> QED
    BY <1>2, <1>3, <2>1 DEF TaskOK, Grows
<1>4. ASSUME NEW q \in Requests, req'[q] = req[q],
             \A p \in Run : node[p] # "none" => node'[p] # "none"
      PROVE  ReqOK(req[q])'
  <2>1. ReqOK(req[q])
    BY DEF IInv
  <2> QED
    BY <1>2, <1>4, <2>1 DEF ReqOK
<1>5. decisions' = decisions => NamesRows'
  BY <1>1 DEF IInv, NamesRows, Grows
<1> QED
  BY <1>3, <1>4, <1>5

(* A row is added with the next version, which nobody took. *)
LEMMA InsertGrows ==
  ASSUME IInv, NEW r \in Run, NEW v \in 1..Len(arts) + 1, NEW at \in Nat,
         NEW content \in Content, Insert(r, v, at, content)
  PROVE  /\ \A q : Grows(q)
         /\ \A i \in DOMAIN arts : arts'[i] = arts[i]
<1> DEFINE row == [run |-> r, version |-> v, at |-> at, content |-> content]
<1>1. /\ v = Len(arts) + 1 /\ arts' = Append(arts, row)
      /\ arts \in Seq(Row) /\ Len(arts) \in Nat
  BY Queries DEF Insert, IInv, TypeOK
<1>2. row \in Row /\ row.version = Len(arts) + 1
  BY <1>1 DEF Row
<1> HIDE DEF row
<1>3. /\ arts' \in Seq(Row) /\ Len(arts') = Len(arts) + 1
      /\ \A i \in DOMAIN arts : arts'[i] = arts[i]
      /\ arts'[Len(arts) + 1] = row
  BY <1>1, <1>2
<1>4. Numbered'
  <2>1. ASSUME NEW i \in DOMAIN arts' PROVE arts'[i].version = i
    <3>1. i \in DOMAIN arts \/ i = Len(arts) + 1
      BY <1>1, <1>3
    <3> QED
      BY <1>2, <1>3, <3>1 DEF IInv, Numbered
  <2> QED
    BY <2>1 DEF Numbered
<1> QED
  BY <1>1, <1>3, <1>4 DEF Grows

(* The rows stay as they are. *)
LEMMA StayGrows ==
  ASSUME IInv, arts' = arts
  PROVE  \A r : Grows(r)
<1>1. arts \in Seq(Row) /\ Numbered /\ Numbered' /\ Len(arts) \in Nat
  BY DEF IInv, TypeOK, Numbered
<1> QED
  BY <1>1 DEF Grows

(* A row is filled in. *)
LEMMA FillGrows ==
  ASSUME IInv, NEW i \in DOMAIN arts, NEW c \in Content,
         arts' = [arts EXCEPT ![i].content = c]
  PROVE  /\ Grows(arts[i].run)
         /\ c.kind = "pending" => \A q : Grows(q)
         /\ \A j \in DOMAIN arts : j # i => arts'[j] = arts[j]
<1>1. arts \in Seq(Row) /\ arts[i] \in Row
  BY DEF IInv, TypeOK
<1> DEFINE row == [arts[i] EXCEPT !.content = c]
<1>2. /\ row \in Row /\ row.version = arts[i].version /\ row.run = arts[i].run
      /\ row.content = c
  BY <1>1 DEF Row
<1>3. arts' = [arts EXCEPT ![i] = row]
  OBVIOUS
<1> HIDE DEF row
<1>4. /\ arts' \in Seq(Row) /\ Len(arts') = Len(arts) /\ DOMAIN arts' = DOMAIN arts
      /\ arts'[i] = row /\ \A j \in DOMAIN arts : j # i => arts'[j] = arts[j]
  BY <1>1, <1>2, <1>3
<1>5. Numbered'
  BY <1>2, <1>4 DEF IInv, Numbered
<1>6. Len(arts) \in Nat
  BY <1>1
<1> QED
  BY <1>2, <1>4, <1>5, <1>6 DEF Grows

(* The design of a run is stored, and the run moves. *)
LEMMA PersistIInv ==
  ASSUME IInv, NEW r \in Run, PersistDesign(r)
  PROVE  IInv'
<1> DEFINE t == task[r]
           n == IF t.content.kind = "design" THEN "WaitDesignApproval"
                ELSE "GenerateDesign failed"
<1>1. /\ t \in Held /\ TaskOK(r, t) /\ MoveTo(r, n) /\ n \in Nodes
      /\ UNCHANGED <<decisions, req, tx, snaps, faults>>
  BY DEF PersistDesign, IInv, TypeOK, Nodes, Failed
<1>2. \/ t.pc = "found" /\ t.row # 0 /\ arts' = [arts EXCEPT ![t.row].content = t.content]
      \/ t.pc = "numbered" /\ Insert(r, t.version, t.at, t.content)
  BY DEF PersistDesign
<1>3. t.at \in Nat /\ t.content \in Content
  BY <1>1 DEF Held
<1> HIDE DEF t, n
<1>4. Grows(r)
  <2>1. CASE t.pc = "found" /\ t.row # 0 /\ arts' = [arts EXCEPT ![t.row].content = t.content]
    <3>1. t.row \in DOMAIN arts /\ arts[t.row].run = r
      BY <1>1, <2>1 DEF TaskOK
    <3> QED
      BY <1>3, <2>1, <3>1, FillGrows
  <2>2. CASE t.pc = "numbered" /\ Insert(r, t.version, t.at, t.content)
    <3>1. t.version \in 1..Len(arts) + 1
      BY <1>1, <2>2 DEF TaskOK
    <3> QED
      BY <1>3, <2>2, <3>1, InsertGrows
  <2> QED
    BY <1>2, <2>1, <2>2
<1>5. node[r] # "none"
  BY <1>1, <1>2 DEF TaskOK
<1>6. /\ node' = [node EXCEPT ![r] = n] /\ task' = [task EXCEPT ![r] = Nothing]
      /\ status' \in {"prd_approved", "design_draft", "codegen", "security_gate", "failed"}
  BY <1>1, Constants DEF MoveTo, IInv, TypeOK
<1>7. n # "none"
  BY <1>1 DEF Nodes, Failed
<1>8. TypeOK'
  BY <1>1, <1>4, <1>6, Constants DEF IInv, TypeOK, Grows
<1>9. \A q \in Run : node'[q] = "none" <=> node[q] = "none"
  BY <1>5, <1>6, <1>7 DEF IInv, TypeOK
<1>10. Begun' /\ NamesRows'
  BY <1>1, <1>4, <1>9, GrowsOK DEF IInv, Begun
<1>11. \A q \in Run : TaskOK(q, task[q])'
  <2>1. TaskOK(r, task[r])'
    BY <1>6 DEF TaskOK, Nothing, IInv, TypeOK
  <2>2. ASSUME NEW q \in Run, q # r PROVE TaskOK(q, task[q])'
    <3>1. node'[q] = node[q] /\ task'[q] = task[q]
      BY <1>6, <2>2 DEF IInv, TypeOK
    <3> QED
      BY <1>4, <2>2, <3>1, GrowsOK
  <2> QED
    BY <2>1, <2>2
<1>12. \A q \in Requests : ReqOK(req[q])'
  BY <1>1, <1>4, <1>9, GrowsOK
<1> QED
  BY <1>4, <1>8, <1>10, <1>11, <1>12 DEF IInv, Grows

(* A request writes rows and is through. *)
LEMMA RequestWrites ==
  ASSUME IInv, NEW q \in Requests, \A r : Grows(r), Release(q),
         status' \in {"prd_approved", "design_draft", "codegen", "security_gate", "failed"},
         UNCHANGED <<node, decisions, task, tx, snaps, faults>>
  PROVE  IInv'
<1>1. req' = [req EXCEPT ![q] = Nothing]
  BY DEF Release
<1>2. Grows(0) /\ 0 \notin Run
  BY Constants
<1>3. TypeOK'
  BY <1>1, <1>2, Constants DEF IInv, TypeOK, Grows
<1>4. Begun' /\ NamesRows'
  BY <1>2, GrowsOK DEF IInv, Begun
<1>5. \A r \in Run : TaskOK(r, task[r])'
  BY <1>2, GrowsOK
<1>6. \A o \in Requests : ReqOK(req[o])'
  <2>1. ReqOK(req[q])'
    BY <1>1 DEF ReqOK, Nothing, IInv, TypeOK
  <2>2. ASSUME NEW o \in Requests, o # q PROVE ReqOK(req[o])'
    <3>1. req'[o] = req[o]
      BY <1>1, <2>2 DEF IInv, TypeOK
    <3> QED
      BY <1>2, <3>1, GrowsOK
  <2> QED
    BY <2>1, <2>2
<1> QED
  BY <1>2, <1>3, <1>4, <1>5, <1>6 DEF IInv, Grows

(* CommitGenerate keeps IInv. *)
LEMMA CommitGenerateIInv ==
  ASSUME IInv, NEW q \in Requests, CommitGenerate(q)
  PROVE  IInv'
<1> DEFINE h == req[q]
<1>1. h \in Held /\ ReqOK(h)
  BY DEF IInv, TypeOK
<1>2. \A r : Grows(r)
  <2>1. CASE h.pc = "found" /\ h.row # 0 /\ arts' = [arts EXCEPT ![h.row].content = Pending]
    <3>1. h.row \in DOMAIN arts
      BY <1>1, <2>1 DEF CommitGenerate, ReqOK
    <3>2. Pending.kind = "pending" /\ Pending \in Content
      BY Constants DEF Pending
    <3> HIDE DEF h
    <3> QED
      BY <2>1, <3>1, <3>2, FillGrows
  <2>2. CASE h.pc = "numbered" /\ Insert(h.run, h.version, h.at, Pending)
    <3>1. h.version \in 1..Len(arts) + 1 /\ h.run \in Run /\ h.at \in Nat
      BY <1>1, <2>2 DEF ReqOK, Held
    <3> HIDE DEF h
    <3> QED
      BY <2>2, <3>1, InsertGrows, Constants
  <2>3. CASE arts' = arts
    BY <2>3, StayGrows
  <2> QED
    BY <2>1, <2>2, <2>3 DEF CommitGenerate
<1>3. status' \in {"prd_approved", "design_draft", "codegen", "security_gate", "failed"}
  BY DEF CommitGenerate, IInv, TypeOK
<1> QED
  BY <1>2, <1>3, RequestWrites DEF CommitGenerate

(* CommitFeedback keeps IInv. *)
LEMMA CommitFeedbackIInv ==
  ASSUME IInv, NEW q \in Requests, CommitFeedback(q)
  PROVE  IInv'
<1> DEFINE h == req[q]
<1>1. h \in Held /\ ReqOK(h)
  BY DEF IInv, TypeOK
<1>2. /\ h.version \in 1..Len(arts) + 1 /\ h.run \in Run /\ h.at \in Nat /\ h.content \in Content
      /\ Insert(h.run, h.version, h.at, h.content)
  BY <1>1 DEF ReqOK, Held, CommitFeedback
<1> HIDE DEF h
<1>3. \A r : Grows(r)
  BY <1>2, InsertGrows
<1> QED
  BY <1>3, RequestWrites DEF CommitFeedback, IInv, TypeOK

(* What a replay copies are contents. *)
LEMMA ContentsTyped ==
  ASSUME IInv, NEW r \in Run
  PROVE  Contents(r) \in Seq(Content)
<1> DEFINE I == RowsOf(r)
           rank(i) == Cardinality({j \in I : arts[j].version < arts[i].version})
           pick(k) == CHOOSE i \in I : rank(i) = k - 1
<1>1. Contents(r) = [k \in 1..Cardinality(I) |-> arts[pick(k)].content]
  BY DEF Contents
<1>2. /\ Len(arts) \in Nat /\ I \subseteq 1..Len(arts) /\ arts \in Seq(Row)
      /\ \A i \in I : arts[i].version = i /\ arts[i] \in Row
  BY DEF IInv, TypeOK, RowsOf, Numbered
<1>3. Cardinality(I) \in Nat
  <2>1. IsFiniteSet(1..Len(arts))
    BY <1>2, FS_Interval
  <2> QED
    BY <1>2, <2>1, FS_Subset, FS_CardinalityType
<1>4. \A i \in I : rank(i) = Rank(I, i)
  <2>1. ASSUME NEW i \in I
        PROVE  {j \in I : arts[j].version < arts[i].version} = {j \in I : j < i}
    BY <1>2
  <2> QED
    BY <2>1 DEF Rank
<1>5. ASSUME NEW k \in 1..Cardinality(I) PROVE arts[pick(k)].content \in Content
  <2>1. \E i \in I : Rank(I, i) = k - 1
    BY <1>2, Ranked
  <2> HIDE DEF I, rank
  <2>2. pick(k) \in I
    BY <1>4, <2>1
  <2> QED
    BY <1>2, <2>2 DEF Row
<1> HIDE DEF I, pick
<1> QED
  BY <1>1, <1>3, <1>5

(* The rows a replay writes for the contents c: numbered on from v. *)
Copied(run, v, at, c) ==
  [k \in DOMAIN c |-> [run |-> run, version |-> v + k - 1, at |-> at, content |-> c[k]]]

(* They are rows. *)
LEMMA CopiedRows ==
  ASSUME NEW run \in Run, NEW v \in Nat, v # 0, NEW at \in Nat, NEW c \in Seq(Content)
  PROVE  /\ Copied(run, v, at, c) \in Seq(Row)
         /\ Len(Copied(run, v, at, c)) = Len(c)
         /\ \A k \in 1..Len(c) : Copied(run, v, at, c)[k].version = v + k - 1
<1> DEFINE copy(k) == [run |-> run, version |-> v + k - 1, at |-> at, content |-> c[k]]
<1>1. Len(c) \in Nat /\ DOMAIN c = 1..Len(c)
  OBVIOUS
<1>2. ASSUME NEW k \in 1..Len(c) PROVE copy(k) \in Row /\ copy(k).version = v + k - 1
  BY DEF Row
<1>3. Copied(run, v, at, c) = [k \in 1..Len(c) |-> copy(k)]
  BY <1>1 DEF Copied
<1> HIDE DEF copy
<1> QED
  BY <1>1, <1>2, <1>3

(* A replay appends its rows, whose versions nobody took. *)
LEMMA CopiesGrow ==
  ASSUME IInv, NEW C \in Seq(Row), NEW v \in 1..Len(arts) + 1,
         \A k \in 1..Len(C) : C[k].version = v + k - 1,
         arts' = arts \o C, \A k \in DOMAIN C : ~Taken(C[k].version)
  PROVE  /\ \A r : Grows(r)
         /\ \A i \in DOMAIN arts : i \in DOMAIN arts' /\ arts'[i] = arts[i]
<1> DEFINE n == Len(C)
<1>1. n \in Nat /\ \A k \in 1..n : C[k].version = v + k - 1 /\ k \in DOMAIN C
  OBVIOUS
<1>2. arts \in Seq(Row) /\ Len(arts) \in Nat
  BY DEF IInv, TypeOK
<1>3. ASSUME n >= 1 PROVE v = Len(arts) + 1
  <2>1. 1 \in 1..n
    BY <1>1, <1>3
  <2>2. C[1].version = v + 1 - 1 /\ 1 \in DOMAIN C
    BY <1>1, <2>1
  <2>3. v \in Int /\ v + 1 - 1 = v
    BY <1>2
  <2>4. ~Taken(v)
    BY <2>2, <2>3
  <2> QED
    BY <2>4, Queries
<1>5. /\ arts' \in Seq(Row) /\ Len(arts') = Len(arts) + n
      /\ \A i \in DOMAIN arts : i \in DOMAIN arts' /\ arts'[i] = arts[i]
      /\ \A i \in DOMAIN arts' \ DOMAIN arts :
           i - Len(arts) \in 1..n /\ arts'[i] = C[i - Len(arts)]
  BY <1>1, <1>2
<1>6. Numbered'
  <2>1. ASSUME NEW i \in DOMAIN arts' PROVE arts'[i].version = i
    <3>1. CASE i \in DOMAIN arts
      BY <1>5, <3>1 DEF IInv, Numbered
    <3>2. CASE i \notin DOMAIN arts
      <4>1. i - Len(arts) \in 1..n /\ arts'[i] = C[i - Len(arts)] /\ n >= 1 /\ i \in Nat
        BY <1>1, <1>2, <1>5, <3>2
      <4>2. C[i - Len(arts)].version = v + (i - Len(arts)) - 1
        BY <1>1, <4>1
      <4> QED
        BY <1>2, <1>3, <4>1, <4>2
    <3> QED
      BY <3>1, <3>2
  <2> QED
    BY <2>1 DEF Numbered
<1> QED
  BY <1>1, <1>2, <1>5, <1>6 DEF Grows

(* CommitReplay keeps IInv. *)
LEMMA CommitReplayIInv ==
  ASSUME IInv, NEW q \in Requests, CommitReplay(q)
  PROVE  /\ IInv'
         /\ \A i \in DOMAIN arts : i \in DOMAIN arts' /\ arts'[i] = arts[i]
         /\ \A r \in Run : IF node[r] # "none" THEN node'[r] = node[r]
                                               ELSE node'[r] \in {"none", "WriteCode"}
         /\ UNCHANGED <<task, decisions, snaps>>
<1> DEFINE h == req[q]
           new == Latest + 1
           C == Copied(new, h.version, h.at, h.copies)
<1>1. /\ h \in Held /\ ReqOK(h) /\ h.op = "replay" /\ new <= MaxRun
      /\ arts' = arts \o C
      /\ \A k \in DOMAIN C : ~Taken(C[k].version)
      /\ node' = [node EXCEPT ![new] = "WriteCode"] /\ status' = "codegen"
      /\ req' = [req EXCEPT ![q] = Nothing]
      /\ UNCHANGED <<decisions, task, tx, snaps, faults>>
  BY DEF IInv, TypeOK, CommitReplay, Release, Copied
<1>2. /\ h.version \in 1..Len(arts) + 1 /\ h.version \in Nat /\ h.version # 0
      /\ h.at \in Nat /\ h.copies \in Seq(Content)
  <2>1. h.version \in 1..Len(arts) + 1 /\ Len(arts) \in Nat
    BY <1>1 DEF ReqOK, IInv, TypeOK
  <2> QED
    BY <1>1, <2>1 DEF Held
<1>3. /\ new \in Run /\ node[new] = "none" /\ new > Latest /\ Latest \in Run
      /\ \A r \in Run : r > Latest => node[r] = "none"
  BY <1>1, LatestRun, Constants
<1> HIDE DEF h, new
<1>4. /\ \A r : Grows(r)
      /\ \A i \in DOMAIN arts : i \in DOMAIN arts' /\ arts'[i] = arts[i]
  <2>1. C \in Seq(Row) /\ \A k \in 1..Len(C) : C[k].version = h.version + k - 1
    BY <1>2, <1>3, CopiedRows
  <2> HIDE DEF C
  <2> QED
    BY <1>1, <1>2, <2>1, CopiesGrow
<1> HIDE DEF C
<1>5. \A r \in Run : node'[r] = IF r = new THEN "WriteCode" ELSE node[r]
  BY <1>1 DEF IInv, TypeOK
<1>6. \A r \in Run : IF node[r] # "none" THEN node'[r] = node[r]
                                         ELSE node'[r] \in {"none", "WriteCode"}
  BY <1>3, <1>5
<1>7. TypeOK'
  BY <1>1, <1>3, <1>4, Constants DEF IInv, TypeOK, Grows, Nodes
<1>8. Begun'
  <2>1. PICK l \in Run : \A r \in Run : node[r] = "none" <=> r > l
    BY DEF IInv, Begun
  <2>2. l = Latest
    <3>1. ~ (Latest > l)
      BY <1>3, <2>1, LatestRun
    <3>2. ~ (l > Latest)
      BY <1>3, <2>1, Constants
    <3> QED
      BY <1>3, <3>1, <3>2, Constants
  <2>3. \A r \in Run : node'[r] = "none" <=> r > new
    BY <1>3, <1>5, <2>1, <2>2, Constants DEF new
  <2> QED
    BY <1>3, <2>3 DEF Begun
<1>9. ASSUME NEW r \in Run PROVE TaskOK(r, task[r])'
  <2>1. CASE r = new
    <3>1. task[r].pc = "idle"
      <4>1. TaskOK(r, task[r]) /\ task[r] \in Held /\ node[r] = "none"
        BY <1>3, <2>1 DEF IInv, TypeOK
      <4> QED
        BY <4>1 DEF TaskOK, Held
    <3> QED
      BY <1>1, <3>1 DEF TaskOK
  <2>2. CASE r # new
    <3>1. Grows(0) /\ r # 0 /\ node'[r] = node[r] /\ task'[r] = task[r]
      BY <1>1, <1>4, <1>5, <2>2, Constants
    <3> QED
      BY <3>1, GrowsOK
  <2> QED
    BY <2>1, <2>2
<1>10. \A o \in Requests : ReqOK(req[o])'
  <2>1. ReqOK(req[q])'
    BY <1>1 DEF ReqOK, Nothing, IInv, TypeOK
  <2>2. ASSUME NEW o \in Requests, o # q PROVE ReqOK(req[o])'
    <3>1. req'[o] = req[o] /\ Grows(0)
      BY <1>1, <1>4, <2>2 DEF IInv, TypeOK
    <3> QED
      BY <1>6, <3>1, GrowsOK
  <2> QED
    BY <2>1, <2>2
<1>11. NamesRows'
  <2>1. Grows(0)
    BY <1>4
  <2> QED
    BY <1>1, <2>1, GrowsOK
<1> QED
  BY <1>1, <1>4, <1>6, <1>7, <1>8, <1>9, <1>10, <1>11 DEF IInv, Grows

-----------------------------------------------------------------------------
(* Every step preserves the invariant. *)

(* The steps of an invocation before its commit. *)
LEMMA StartDesignIInv == ASSUME IInv, NEW r \in Run, StartDesign(r) PROVE IInv'
<1> DEFINE t == [Nothing EXCEPT !.pc = "calling", !.at = tx + 1, !.content = Design(tx + 1)]
<1>1. tx \in Nat /\ tx + 1 \in 0..MaxTx /\ tx' = tx + 1
  BY Constants DEF IInv, TypeOK, StartDesign, NewTx
<1>2. t \in Held /\ TaskOK(r, t)
  <2>1. Design(tx + 1) \in Content /\ tx + 1 \in Nat
    BY <1>1, Constants
  <2> QED
    BY <2>1, Constants DEF Held, Nothing, TaskOK, StartDesign
<1> HIDE DEF t
<1>3. task' = [task EXCEPT ![r] = t]
  BY DEF StartDesign, t
<1> QED
  BY <1>1, <1>2, <1>3, TaskStep DEF StartDesign, IInv, TypeOK

(* Answered keeps IInv. *)
LEMMA AnsweredIInv == ASSUME IInv, NEW r \in Run, Answered(r) PROVE IInv'
<1>1. PICK c \in {task[r].content, AuthError} :
        task' = [task EXCEPT ![r].pc = "answered", ![r].content = c]
  BY DEF Answered
<1> DEFINE t == [task[r] EXCEPT !.pc = "answered", !.content = c]
<1>2. task[r] \in Held /\ TaskOK(r, task[r]) /\ task[r].pc = "calling" /\ c \in Content
  BY Constants DEF IInv, TypeOK, Held, Answered
<1>3. t \in Held /\ TaskOK(r, t)
  BY <1>2 DEF Held, TaskOK
<1>4. task' = [task EXCEPT ![r] = t]
  BY <1>1, <1>2 DEF IInv, TypeOK, Held
<1> HIDE DEF t
<1> QED
  BY <1>3, <1>4, TaskStep DEF Answered, IInv, TypeOK

(* FindPending keeps IInv. *)
LEMMA FindPendingIInv == ASSUME IInv, NEW r \in Run, FindPending(r) PROVE IInv'
<1> DEFINE t == [task[r] EXCEPT !.pc = "found", !.row = PendingRow(r)]
<1>1. task[r] \in Held /\ TaskOK(r, task[r]) /\ task[r].pc = "answered"
  BY DEF IInv, TypeOK, FindPending
<1>2. t \in Held /\ TaskOK(r, t)
  BY <1>1, Queries DEF Held, TaskOK
<1>3. task' = [task EXCEPT ![r] = t]
  BY <1>1 DEF FindPending, IInv, TypeOK, Held
<1> HIDE DEF t
<1> QED
  BY <1>2, <1>3, TaskStep DEF FindPending, IInv, TypeOK

(* NumberDesign keeps IInv. *)
LEMMA NumberDesignIInv == ASSUME IInv, NEW r \in Run, NumberDesign(r) PROVE IInv'
<1> DEFINE t == [task[r] EXCEPT !.pc = "numbered", !.version = NextVersion]
<1>1. task[r] \in Held /\ TaskOK(r, task[r]) /\ task[r].pc = "found"
  BY DEF IInv, TypeOK, NumberDesign
<1>2. NextVersion \in 1..Len(arts) + 1 /\ NextVersion \in Nat
  BY Queries DEF IInv, TypeOK
<1>3. t \in Held /\ TaskOK(r, t)
  BY <1>1, <1>2 DEF Held, TaskOK
<1>4. task' = [task EXCEPT ![r] = t]
  BY <1>1 DEF NumberDesign, IInv, TypeOK, Held
<1> HIDE DEF t
<1> QED
  BY <1>3, <1>4, TaskStep DEF NumberDesign, IInv, TypeOK

(* CollideDesign keeps IInv. *)
LEMMA CollideDesignIInv == ASSUME IInv, NEW r \in Run, CollideDesign(r) PROVE IInv'
  BY NothingOK, Constants, TaskStep DEF CollideDesign, IInv, TypeOK

(* ReadDesign keeps IInv. *)
LEMMA ReadDesignIInv == ASSUME IInv, NEW r \in Run, ReadDesign(r) PROVE IInv'
<1>1. PICK i \in PreviousDesign(r) :
        task' = [task EXCEPT ![r] = [Nothing EXCEPT !.pc = "reading", !.at = tx + 1,
                   !.version = arts[i].version, !.content = arts[i].content]]
  BY DEF ReadDesign
<1> DEFINE t == [Nothing EXCEPT !.pc = "reading", !.at = tx + 1,
                   !.version = arts[i].version, !.content = arts[i].content]
<1>2. tx \in Nat /\ tx + 1 \in 0..MaxTx /\ tx' = tx + 1
  BY Constants DEF IInv, TypeOK, ReadDesign, NewTx
<1>3. arts[i].version \in Nat /\ arts[i].content \in Content
  <2>1. i \in DOMAIN arts
    BY Selected DEF PreviousDesign, NewestAmong, RowsOf
  <2>2. arts[i] \in Row
    BY <2>1 DEF IInv, TypeOK
  <2> QED
    BY <2>2 DEF Row
<1>4. t \in Held /\ TaskOK(r, t)
  <2>1. tx + 1 \in Nat
    BY <1>2
  <2> QED
    BY <1>3, <2>1, Constants DEF Held, Nothing, TaskOK, ReadDesign
<1> HIDE DEF t
<1>5. task' = [task EXCEPT ![r] = t]
  BY <1>1 DEF t
<1> QED
  BY <1>2, <1>4, <1>5, TaskStep DEF ReadDesign, IInv, TypeOK

(* TraceDesign keeps IInv. *)
LEMMA TraceDesignIInv == ASSUME IInv, NEW r \in Run, TraceDesign(r) PROVE IInv'
<1> DEFINE i == HighestAmong(RowsOf(r))
           v == IF i = 0 THEN 0 ELSE arts[i].version
           t == [task[r] EXCEPT !.pc = "coding", !.row = v]
<1>1. task[r] \in Held /\ TaskOK(r, task[r]) /\ task[r].pc = "reading"
  BY DEF IInv, TypeOK, TraceDesign
<1>2. v \in Nat
  <2>1. RowsOf(r) \subseteq DOMAIN arts
    BY DEF RowsOf
  <2>2. i = 0 \/ i \in DOMAIN arts
    BY <2>1, Highest
  <2> HIDE DEF i
  <2>3. ASSUME i \in DOMAIN arts PROVE arts[i] \in Row
    BY <2>3 DEF IInv, TypeOK
  <2> QED
    BY <2>2, <2>3 DEF Row
<1>3. task' = [task EXCEPT ![r] = t]
  BY <1>1 DEF TraceDesign, IInv, TypeOK, Held
<1> HIDE DEF v
<1>4. t \in Held /\ TaskOK(r, t)
  BY <1>1, <1>2 DEF Held, TaskOK
<1> HIDE DEF t
<1> QED
  BY <1>3, <1>4, TaskStep DEF TraceDesign, IInv, TypeOK

(* A run moves without a new row. *)
LEMMA MovesIInv ==
  ASSUME IInv, NEW r \in Run,
         ProviderFails(r) \/ Code(r) \/ FailLater(r) \/ Approve(r) \/ Reject(r) \/ Retry(r)
  PROVE  IInv'
<1>1. CASE ProviderFails(r)
  <2>1. node[r] # "none" /\ "GenerateDesign failed" \in Nodes
    BY <1>1 DEF ProviderFails, IInv, TaskOK, Nodes, Failed
  <2> QED
    BY <1>1, <2>1, MoveStep DEF ProviderFails, IInv, TypeOK, NamesRows
<1>2. CASE Code(r)
  <2> DEFINE t == task[r]
             s == [run |-> r, content |-> t.content, version |-> t.version, traced |-> t.row]
  <2>1. node[r] # "none" /\ "SecurityGate" \in Nodes /\ "WriteCode failed" \in Nodes
    BY <1>2 DEF Code, IInv, TaskOK, Nodes, Failed
  <2>2. s \in [run : Run, content : Content, version : Nat, traced : Nat]
    BY DEF IInv, TypeOK, Held
  <2>3. /\ snaps' = snaps \cup {s} \/ snaps' = snaps
        /\ MoveTo(r, "SecurityGate") \/ MoveTo(r, "WriteCode failed")
        /\ UNCHANGED <<arts, decisions, req, tx, faults>>
    BY <1>2 DEF Code
  <2> HIDE DEF s
  <2>4. snaps' \subseteq [run : Run, content : Content, version : Nat, traced : Nat]
    <3>1. snaps \subseteq [run : Run, content : Content, version : Nat, traced : Nat]
      BY DEF IInv, TypeOK
    <3> QED
      BY <2>2, <2>3, <3>1
  <2> QED
    BY <2>1, <2>3, <2>4, MoveStep DEF IInv, TypeOK, NamesRows
<1>3. CASE FailLater(r)
  <2>1. node[r] # "none" /\ "failed later" \in Nodes
    BY <1>3 DEF FailLater, Nodes, Failed
  <2> QED
    BY <1>3, <2>1, MoveStep DEF FailLater, IInv, TypeOK, NamesRows
<1>4. ASSUME NEW d \in {"approved", "rejected"}, NEW a \in 0..Len(arts), NEW s \in Nat, Decide(r, d, a, s)
      PROVE  IInv'
  <2> DEFINE e == [run |-> r, decision |-> d, artifact |-> a, shown |-> s]
             n == IF d = "approved" THEN "WriteCode" ELSE "GenerateDesign"
  <2>1. node[r] # "none" /\ n \in Nodes /\ MoveTo(r, n) /\ decisions' = Append(decisions, e)
        /\ UNCHANGED <<arts, req, tx, snaps, faults>>
    BY <1>4 DEF Decide, Nodes
  <2>2. e \in [run : Run, decision : {"approved", "rejected"}, artifact : Nat, shown : Nat]
    OBVIOUS
  <2>4. e.artifact \in 0..Len(arts)
    OBVIOUS
  <2> HIDE DEF e, n
  <2>3. decisions' \in Seq([run : Run, decision : {"approved", "rejected"},
                            artifact : Nat, shown : Nat])
    BY <2>1, <2>2 DEF IInv, TypeOK
  <2>5. NamesRows'
    <3>1. Len(decisions) \in Nat /\ decisions \in Seq([run : Run,
            decision : {"approved", "rejected"}, artifact : Nat, shown : Nat])
      BY DEF IInv, TypeOK
    <3>2. ASSUME NEW k \in DOMAIN decisions' PROVE decisions'[k].artifact \in 0..Len(arts)
      BY <2>1, <2>4, <3>1 DEF IInv, NamesRows
    <3> QED
      BY <2>1, <3>2 DEF NamesRows
  <2> QED
    BY <2>1, <2>3, <2>5, MoveStep DEF IInv, TypeOK
<1>5. CASE Approve(r)
  <2>1. PICK i \in DOMAIN arts :
          Decide(r, "approved", IF Naming THEN i ELSE 0, arts[i].content.id)
    BY <1>5 DEF Approve
  <2>2. (IF Naming THEN i ELSE 0) \in 0..Len(arts)
    BY DEF IInv, TypeOK
  <2>3. arts[i].content.id \in Nat
    <3>1. arts[i] \in Row
      BY DEF IInv, TypeOK
    <3> QED
      BY <3>1 DEF Row, Content
  <2> QED
    BY <1>4, <2>1, <2>2, <2>3
<1>6. CASE Reject(r)
  <2>1. 0 \in 0..Len(arts) /\ 0 \in Nat
    BY DEF IInv, TypeOK
  <2> QED
    BY <1>4, <1>6, <2>1 DEF Reject
<1>7. CASE Retry(r)
  <2> DEFINE n == IF node[r] = "WriteCode failed" THEN "WriteCode" ELSE "GenerateDesign"
  <2>1. node[r] # "none" /\ n \in Nodes /\ MoveTo(r, n)
    BY <1>7 DEF Retry, Nodes
  <2> HIDE DEF n
  <2> QED
    BY <1>7, <2>1, MoveStep DEF Retry, IInv, TypeOK, NamesRows
<1> QED
  BY <1>1, <1>2, <1>3, <1>5, <1>6, <1>7

(* The steps of a request before its commit. *)
LEMMA HoldIInv ==
  ASSUME IInv, NEW q \in Requests, NEW h \in Held, ReqOK(h), Hold(q, h)
  PROVE  IInv'
<1> DEFINE g == [h EXCEPT !.at = tx + 1]
<1>1. tx \in Nat /\ tx + 1 \in 0..MaxTx /\ tx' = tx + 1
  BY Constants DEF IInv, TypeOK, Hold, NewTx
<1>2. g \in Held /\ ReqOK(g)
  <2>1. tx + 1 \in Nat
    BY <1>1
  <2> QED
    BY <2>1 DEF Held, ReqOK
<1>3. req' = [req EXCEPT ![q] = g]
  BY DEF Hold
<1> HIDE DEF g
<1> QED
  BY <1>1, <1>2, <1>3, ReqStep DEF Hold, IInv, TypeOK

(* A request that begins to hold what it read keeps IInv. *)
LEMMA BeginIInv ==
  ASSUME IInv, NEW q \in Requests, BeginGenerate(q) \/ BeginFeedback(q) \/ BeginReplay(q)
  PROVE  IInv'
<1>1. Latest \in Run /\ node[Latest] # "none" /\ Latest \in 0..MaxRun
  BY LatestRun, Constants
<1>2. CASE BeginGenerate(q)
  <2> DEFINE h == [Nothing EXCEPT !.pc = "found", !.op = "generate", !.run = Latest,
                     !.draft = (status = "design_draft"), !.row = PendingRow(Latest)]
  <2>1. h \in Held /\ ReqOK(h)
    BY <1>1, Queries, Constants DEF Held, Nothing, ReqOK
  <2>2. Hold(q, h)
    BY <1>2 DEF BeginGenerate
  <2> HIDE DEF h
  <2> QED
    BY <2>1, <2>2, HoldIInv
<1>3. CASE BeginFeedback(q)
  <2> DEFINE h == [Nothing EXCEPT !.pc = "calling", !.op = "feedback", !.run = Latest,
                     !.content = Design(tx + 1)]
  <2>1. Design(tx + 1) \in Content
    BY Constants DEF IInv, TypeOK
  <2>2. h \in Held /\ ReqOK(h)
    BY <1>1, <2>1, Constants DEF Held, Nothing, ReqOK
  <2>3. Hold(q, h)
    BY <1>3 DEF BeginFeedback
  <2> HIDE DEF h
  <2> QED
    BY <2>2, <2>3, HoldIInv
<1>4. CASE BeginReplay(q)
  <2> DEFINE h == [Nothing EXCEPT !.pc = "numbered", !.op = "replay", !.run = Latest,
                     !.version = NextVersion, !.copies = Contents(Latest)]
  <2>1. /\ NextVersion \in 1..Len(arts) + 1 /\ NextVersion \in Nat
        /\ Contents(Latest) \in Seq(Content)
    <3>1. NextVersion \in 1..Len(arts) + 1 /\ Len(arts) \in Nat
      BY Queries DEF IInv, TypeOK
    <3> QED
      BY <1>1, <3>1, ContentsTyped
  <2>2. h \in Held /\ ReqOK(h)
    BY <1>1, <2>1, Constants DEF Held, Nothing, ReqOK
  <2>3. Hold(q, h)
    BY <1>4 DEF BeginReplay
  <2> HIDE DEF h
  <2> QED
    BY <2>2, <2>3, HoldIInv
<1> QED
  BY <1>2, <1>3, <1>4

(* NumberRequest keeps IInv. *)
LEMMA NumberRequestIInv == ASSUME IInv, NEW q \in Requests, NumberRequest(q) PROVE IInv'
<1> DEFINE h == [req[q] EXCEPT !.pc = "numbered", !.version = NextVersion]
<1>1. req[q] \in Held /\ ReqOK(req[q]) /\ req[q].pc \in {"calling", "found"}
  BY DEF IInv, TypeOK, NumberRequest
<1>2. NextVersion \in 1..Len(arts) + 1 /\ NextVersion \in Nat
  BY Queries DEF IInv, TypeOK
<1>3. h \in Held /\ ReqOK(h)
  BY <1>1, <1>2 DEF Held, ReqOK
<1>4. req' = [req EXCEPT ![q] = h]
  BY <1>1 DEF NumberRequest, IInv, TypeOK, Held
<1> HIDE DEF h
<1> QED
  BY <1>3, <1>4, ReqStep DEF NumberRequest, IInv, TypeOK

(* RefuseRequest keeps IInv. *)
LEMMA RefuseRequestIInv == ASSUME IInv, NEW q \in Requests, RefuseRequest(q) PROVE IInv'
  BY NothingOK, Constants, ReqStep DEF RefuseRequest, Release, IInv, TypeOK

(* Fault keeps IInv. *)
LEMMA FaultIInv == ASSUME IInv, Fault PROVE IInv'
<1>1. faults' \in 0..MaxFaults /\ tx' \in 0..MaxTx
  BY Constants DEF Fault, IInv, TypeOK
<1>2. CASE \E r \in Run : task' = [task EXCEPT ![r] = Nothing] /\ UNCHANGED req
  BY <1>1, <1>2, NothingOK, Constants, TaskStep DEF Fault
<1>3. CASE \E q \in Requests : Release(q) /\ UNCHANGED task
  BY <1>1, <1>3, NothingOK, Constants, ReqStep DEF Fault, Release
<1> QED
  BY <1>2, <1>3 DEF Fault

(* Every step keeps IInv. *)
LEMMA NextIInv == IInv /\ [Next]_vars => IInv'
<1> SUFFICES ASSUME IInv, [Next]_vars PROVE IInv'
  OBVIOUS
<1>1. ASSUME NEW r \in Run, Invocation(r) PROVE IInv'
  BY <1>1, StartDesignIInv, AnsweredIInv, MovesIInv, FindPendingIInv, NumberDesignIInv,
     PersistIInv, CollideDesignIInv, ReadDesignIInv, TraceDesignIInv DEF Invocation
<1>2. ASSUME NEW r \in Run, People(r) PROVE IInv'
  BY <1>2, MovesIInv DEF People
<1>3. ASSUME NEW q \in Requests, Request(q) PROVE IInv'
  BY <1>3, BeginIInv, NumberRequestIInv, CommitGenerateIInv, CommitFeedbackIInv,
     RefuseRequestIInv, CommitReplayIInv DEF Request
<1>4. CASE UNCHANGED vars
  BY <1>4 DEF vars, IInv, TypeOK, Numbered, NamesRows, Begun, TaskOK, ReqOK
<1> QED
  BY <1>1, <1>2, <1>3, <1>4, FaultIInv DEF Next

(* IInv is an invariant. *)
LEMMA IInvHolds == Spec => []IInv
<1>1. Init => IInv
  BY InitIInv
<1>2. IInv /\ [Next]_vars => IInv'
  BY NextIInv
<1> QED
  BY <1>1, <1>2, PTL DEF Spec

(* Every row, copy, decision and request keeps its type, and counters their     *)
(* bounds (models.py, routes/design.py).                                        *)
THEOREM DesignsTyped == Spec => []TypeOK
<1>1. IInv => TypeOK
  BY DEF IInv
<1> QED
  BY <1>1, IInvHolds, PTL

(* Versions are given once and without gaps, for any number of runs, requests   *)
(* and faults, and whoever asks for designs when (routes/design.py:51).         *)
THEOREM VersionsAreDense == Spec => []VersionsDense
<1>1. ASSUME IInv PROVE VersionsDense
  <2>1. Len(arts) \in Nat /\ DOMAIN arts = 1..Len(arts)
    BY <1>1 DEF IInv, TypeOK
  <2>2. \A i \in DOMAIN arts : arts[i].version = i
    BY <1>1 DEF IInv, Numbered
  <2> QED
    BY <2>1, <2>2 DEF VersionsDense
<1> QED
  BY <1>1, IInvHolds, PTL

-----------------------------------------------------------------------------
(* What is stored, and what the code is written from. *)

(* What a row with a design may become in a step. *)
Stays(i) == /\ i \in DOMAIN arts'
            /\ arts'[i] \in {arts[i], [arts[i] EXCEPT !.content = Pending]}

(* A row stays but for a request that overwrites it, unless it is pending and *)
(* an invocation fills it in.                                                 *)
LEMMA RowStep ==
  ASSUME IInv, [Next]_vars, NEW i \in DOMAIN arts,
         arts[i].content.kind = "design" \/ \A r \in Run : ~PersistDesign(r)
  PROVE  Stays(i)
<1>1. CASE arts' = arts
  BY <1>1 DEF Stays
<1>2. ASSUME NEW r \in Run, PersistDesign(r) PROVE Stays(i)
  <2>0. arts[i].content.kind = "design"
    BY <1>2
  <2> DEFINE t == task[r]
  <2>1. t \in Held /\ TaskOK(r, t)
    BY DEF IInv, TypeOK
  <2>2. t.at \in Nat /\ t.content \in Content
    BY <2>1 DEF Held
  <2>3. CASE t.pc = "found" /\ t.row # 0 /\ arts' = [arts EXCEPT ![t.row].content = t.content]
    <3>1. t.row \in DOMAIN arts /\ arts[t.row].content.kind = "pending"
      BY <2>1, <2>3 DEF TaskOK
    <3> QED
      BY <2>0, <2>3, <3>1 DEF Stays
  <2>4. CASE t.pc = "numbered" /\ Insert(r, t.version, t.at, t.content)
    <3>1. t.version \in 1..Len(arts) + 1
      BY <2>1, <2>4 DEF TaskOK
    <3> HIDE DEF t
    <3>2. Grows(r) /\ arts'[i] = arts[i]
      BY <2>2, <2>4, <3>1, InsertGrows
    <3> QED
      BY <3>2 DEF Grows, IInv, TypeOK, Stays
  <2> QED
    BY <1>2, <2>3, <2>4 DEF PersistDesign
<1>3. ASSUME NEW q \in Requests, CommitGenerate(q) \/ CommitFeedback(q)
      PROVE  Stays(i)
  <2> DEFINE h == req[q]
  <2>1. h \in Held /\ ReqOK(h)
    BY DEF IInv, TypeOK
  <2>2. ASSUME NEW c \in Content, h.pc = "numbered", Insert(h.run, h.version, h.at, c)
        PROVE  Stays(i)
    <3>1. h.version \in 1..Len(arts) + 1 /\ h.run \in Run /\ h.at \in Nat
      BY <2>1, <2>2 DEF ReqOK, Held
    <3> HIDE DEF h
    <3>2. Grows(0) /\ arts'[i] = arts[i]
      BY <2>2, <3>1, InsertGrows
    <3> QED
      BY <3>2 DEF Grows, IInv, TypeOK, Stays
  <2>3. CASE arts' = [arts EXCEPT ![h.row].content = Pending]
    <3> HIDE DEF h
    <3> QED
      BY <2>3 DEF Stays
  <2>5. CASE arts' = arts
    BY <2>5 DEF Stays
  <2>4. h.content \in Content /\ Pending \in Content
    BY <2>1, Constants DEF Held
  <2> QED
    BY <1>3, <2>2, <2>3, <2>4, <2>5 DEF CommitGenerate, CommitFeedback
<1>4. ASSUME NEW q \in Requests, CommitReplay(q) PROVE Stays(i)
  BY <1>4, CommitReplayIInv DEF Stays
<1>5. ASSUME NEW r \in Run, Invocation(r) PROVE arts' = arts \/ PersistDesign(r)
  BY <1>5 DEF Invocation, StartDesign, Answered, ProviderFails, FindPending, NumberDesign,
     CollideDesign, ReadDesign, TraceDesign, Code, FailLater
<1>6. ASSUME NEW r \in Run, People(r) PROVE arts' = arts
  BY <1>6 DEF People, Approve, Reject, Retry, Decide
<1>7. ASSUME NEW q \in Requests, Request(q)
      PROVE  arts' = arts \/ CommitGenerate(q) \/ CommitFeedback(q) \/ CommitReplay(q)
  BY <1>7 DEF Request, BeginGenerate, BeginFeedback, BeginReplay, Hold, NumberRequest,
     RefuseRequest
<1>8. Fault \/ UNCHANGED vars => arts' = arts
  BY DEF Fault, vars
<1> QED
  BY <1>1, <1>2, <1>3, <1>4, <1>5, <1>6, <1>7, <1>8 DEF Next

(* A stored design never becomes another design or an error, for any number of  *)
(* runs, requests and faults: only a request that found the row while it was    *)
(* pending can put it back to pending (engine.py:664, routes/design.py:200).    *)
THEOREM StoredDesignsKept == Spec => DesignsKept
<1>1. IInv /\ [Next]_vars =>
        [\A i \in DOMAIN arts : arts[i].content.kind = "design" =>
           arts'[i] \in {arts[i], [arts[i] EXCEPT !.content = Pending]}]_vars
  BY RowStep DEF Stays
<1> QED
  BY <1>1, IInvHolds, PTL DEF Spec, DesignsKept

(* An approval names a row that shows its design, if it still has one; a *)
(* rejection names nothing.                                              *)
NamesDesigns ==
  \A k \in DOMAIN decisions :
    LET d == decisions[k] IN
    IF d.decision = "approved"
    THEN /\ d.artifact \in DOMAIN arts
         /\ arts[d.artifact].content.kind = "design" =>
              arts[d.artifact].content.id = d.shown
    ELSE d.artifact = 0

(* If c is a design, it is one the people of run r were shown, if they decided. *)
Honours(r, c) == c.kind = "design" /\ Shown(r) # {} => c.id \in Shown(r)

Coded == {"WriteCode", "SecurityGate", "WriteCode failed", "failed later"}

(* Code being written, and code delivered, is of a chosen design; and its run  *)
(* does not come back to the gate, where another design could be chosen.       *)
CodeHonours ==
  /\ \A r \in Run : task[r].pc \in {"reading", "coding"} => Honours(r, task[r].content)
  /\ \A s \in snaps : node[s.run] \in Coded /\ Honours(s.run, s.content)

(* Only the first run passes the gate, and once: then no design is generated. *)
OneGate ==
  /\ \A r \in Run : r # 1 => node[r] \in Coded \cup {"none"}
  /\ \A k \in DOMAIN decisions :
       decisions[k].decision = "approved" => decisions[k].run = 1 /\ node[1] \in Coded

HInv == NamesDesigns /\ CodeHonours /\ OneGate

(* What WriteCode reads is a design that was shown. *)
LEMMA ReadsShown ==
  ASSUME IInv, NamesDesigns, NEW r \in Run, NEW i \in PreviousDesign(r)
  PROVE  i \in DOMAIN arts /\ Honours(r, arts[i].content)
<1>1. i \in DOMAIN arts
  BY Selected DEF PreviousDesign, NewestAmong, RowsOf
<1>2. ASSUME Shown(r) # {}, arts[i].content.kind = "design"
      PROVE  arts[i].content.id \in Shown(r)
  <2>1. PICK k \in DOMAIN decisions :
          decisions[k].run = r /\ decisions[k].decision = "approved"
    BY <1>2 DEF Shown
  <2>2. decisions[k].artifact # 0
    BY <2>1 DEF NamesDesigns, IInv, TypeOK
  <2>3. SelectedRow(r) # 0
    BY <2>1, <2>2, Selected
  <2>4. i = SelectedRow(r)
    BY <2>3 DEF PreviousDesign
  <2>5. PICK j \in DOMAIN decisions :
          decisions[j].run = r /\ decisions[j].artifact = SelectedRow(r)
    BY <2>3, Selected
  <2>6. /\ decisions[j].decision = "approved"
        /\ arts[decisions[j].artifact].content.id = decisions[j].shown
    BY <1>2, <2>3, <2>4, <2>5 DEF NamesDesigns
  <2>7. decisions[j].shown \in Shown(r)
    BY <2>5, <2>6 DEF Shown
  <2> QED
    BY <2>4, <2>5, <2>6, <2>7
<1> QED
  BY <1>1, <1>2 DEF Honours

(* Decisions stay, and what they name: after an approval nothing is filled in. *)
LEMMA HonoursKept ==
  ASSUME IInv, HInv, [Next]_vars, decisions' = decisions
  PROVE  NamesDesigns' /\ \A r, c : Honours(r, c)' <=> Honours(r, c)
<1>1. \A r, c : Honours(r, c)' <=> Honours(r, c)
  BY DEF Honours, Shown
<1>2. ASSUME NEW k \in DOMAIN decisions, decisions[k].decision = "approved",
             NEW i, i = decisions[k].artifact
      PROVE  i \in DOMAIN arts' /\ arts'[i].content \in {arts[i].content, Pending}
  <2>1. i \in DOMAIN arts
    BY <1>2 DEF HInv, NamesDesigns
  <2>2. ASSUME NEW r \in Run PROVE ~PersistDesign(r)
    <3>1. node[r] \in Coded \cup {"none"}
      BY <1>2 DEF HInv, OneGate
    <3>2. task[r].pc \in {"found", "numbered"} => node[r] = "GenerateDesign"
      BY DEF IInv, TaskOK
    <3> QED
      BY <3>1, <3>2 DEF PersistDesign, Coded
  <2>3. Stays(i)
    BY <2>1, <2>2, RowStep
  <2>4. arts[i] \in Row
    BY <2>1 DEF IInv, TypeOK
  <2> QED
    BY <2>3, <2>4 DEF Stays, Row
<1>3. Pending.kind # "design"
  BY DEF Pending
<1>4. NamesDesigns'
  BY <1>2, <1>3 DEF HInv, NamesDesigns
<1> QED
  BY <1>1, <1>4

(* Where a step lets a design get to: an invocation reads it, or keeps it; a    *)
(* run at its code stays there; and new code is of the design it was made from. *)
Traces(r) ==
  /\ task'[r].pc \in {"reading", "coding"} =>
       \/ task[r].pc \in {"reading", "coding"} /\ task'[r].content = task[r].content
       \/ \E i \in PreviousDesign(r) : task'[r].content = arts[i].content
  /\ node[r] \in Coded => node'[r] \in Coded
  /\ node[r] = "none" => node'[r] \in Coded \cup {"none"}
  /\ \A s \in snaps' \ snaps : s.run = r =>
       /\ task[r].pc = "coding" /\ s.content = task[r].content
       /\ node'[r] \in Coded

(* A run that moves, not out of the nodes before the code into those after  *)
(* it, leaves a trace.                                                      *)
LEMMA MoveTraces ==
  ASSUME IInv, NEW r \in Run, NEW n \in Nodes, MoveTo(r, n), snaps' = snaps,
         node[r] # "none", node[r] \in Coded => n \in Coded
  PROVE  \A q \in Run : Traces(q)
<1>1. /\ \A q \in Run : task'[q] = (IF q = r THEN Nothing ELSE task[q])
      /\ \A q \in Run : node'[q] = (IF q = r THEN n ELSE node[q])
  BY DEF MoveTo, IInv, TypeOK
<1>2. Nothing.pc = "idle"
  BY DEF Nothing
<1> QED
  BY <1>1, <1>2 DEF Traces

(* So do the steps of an invocation, *)
LEMMA InvocationTraces ==
  ASSUME IInv, NEW r \in Run, Invocation(r)
  PROVE  \A q \in Run : Traces(q)
<1>1. /\ task \in [Run -> Held] /\ node \in [Run -> Nodes \cup {"none"}] /\ TaskOK(r, task[r])
  BY DEF IInv, TypeOK
<1>2. CASE StartDesign(r) \/ Answered(r) \/ FindPending(r) \/ NumberDesign(r) \/ CollideDesign(r)
  <2>1. /\ node' = node /\ snaps' = snaps
        /\ \A q \in Run : q # r => task'[q] = task[q]
        /\ task'[r].pc \notin {"reading", "coding"}
    <3>1. node' = node /\ snaps' = snaps
      BY <1>2 DEF StartDesign, Answered, FindPending, NumberDesign, CollideDesign
    <3>2. ASSUME NEW q \in Run, q # r PROVE task'[q] = task[q]
      BY <1>1, <1>2, <3>2 DEF StartDesign, Answered, FindPending, NumberDesign, CollideDesign
    <3>3. CASE StartDesign(r)
      BY <1>1, <3>1, <3>2, <3>3 DEF StartDesign, Nothing
    <3>4. CASE CollideDesign(r)
      BY <1>1, <3>1, <3>2, <3>4 DEF CollideDesign, Nothing
    <3>5. CASE Answered(r)
      BY <1>1, <3>1, <3>2, <3>5 DEF Answered, Held
    <3>6. CASE FindPending(r) \/ NumberDesign(r)
      BY <1>1, <3>1, <3>2, <3>6 DEF FindPending, NumberDesign, Held
    <3> QED
      BY <1>2, <3>3, <3>4, <3>5, <3>6
  <2> QED
    BY <2>1 DEF Traces
<1>3. CASE ReadDesign(r)
  <2>1. PICK i \in PreviousDesign(r) :
          task' = [task EXCEPT ![r] = [Nothing EXCEPT !.pc = "reading", !.at = tx + 1,
                     !.version = arts[i].version, !.content = arts[i].content]]
    BY <1>3 DEF ReadDesign
  <2>2. /\ node' = node /\ snaps' = snaps
        /\ \A q \in Run : q # r => task'[q] = task[q]
        /\ task'[r].content = arts[i].content
    BY <1>1, <1>3, <2>1 DEF ReadDesign, Nothing
  <2> QED
    BY <2>2 DEF Traces
<1>4. CASE TraceDesign(r)
  <2>1. /\ node' = node /\ snaps' = snaps /\ task[r].pc = "reading"
        /\ \A q \in Run : q # r => task'[q] = task[q]
        /\ task'[r].content = task[r].content
    BY <1>1, <1>4 DEF TraceDesign, Held
  <2> QED
    BY <2>1 DEF Traces
<1>5. CASE ProviderFails(r)
  BY <1>1, <1>5, MoveTraces DEF ProviderFails, TaskOK, Coded, Nodes, Failed
<1>6. CASE PersistDesign(r)
  <2> DEFINE n == IF task[r].content.kind = "design" THEN "WaitDesignApproval"
                  ELSE "GenerateDesign failed"
  <2>1. MoveTo(r, n) /\ n \in Nodes /\ snaps' = snaps /\ node[r] \notin Coded \cup {"none"}
    BY <1>1, <1>6 DEF PersistDesign, TaskOK, Coded, Nodes, Failed
  <2> HIDE DEF n
  <2> QED
    BY <2>1, MoveTraces
<1>7. CASE FailLater(r)
  BY <1>7, MoveTraces DEF FailLater, Coded, Nodes, Failed
<1>8. CASE Code(r)
  <2> DEFINE s == [run |-> r, content |-> task[r].content, version |-> task[r].version,
                   traced |-> task[r].row]
  <2>1. /\ snaps' \subseteq snaps \cup {s} /\ task[r].pc = "coding"
        /\ MoveTo(r, "SecurityGate") \/ MoveTo(r, "WriteCode failed")
    BY <1>8 DEF Code
  <2>2. /\ \A q \in Run : task'[q] = (IF q = r THEN Nothing ELSE task[q])
        /\ \A q \in Run : q # r => node'[q] = node[q]
        /\ node'[r] \in Coded
    BY <1>1, <2>1 DEF MoveTo, Coded
  <2>3. s.run = r /\ s.content = task[r].content /\ Nothing.pc = "idle"
    BY DEF Nothing
  <2> HIDE DEF s
  <2> QED
    BY <2>1, <2>2, <2>3 DEF Traces
<1> QED
  BY <1>2, <1>3, <1>4, <1>5, <1>6, <1>7, <1>8 DEF Invocation

(* and every step but a decision. *)
LEMMA StepTraces ==
  ASSUME IInv, [Next]_vars
  PROVE  (\A q \in Run : Traces(q)) \/ (\E r \in Run : Approve(r) \/ Reject(r))
<1>1. ASSUME UNCHANGED <<node, task, snaps>> PROVE \A q \in Run : Traces(q)
  BY <1>1 DEF Traces
<1>2. ASSUME NEW r \in Run, Retry(r) PROVE \A q \in Run : Traces(q)
  <2> DEFINE n == IF node[r] = "WriteCode failed" THEN "WriteCode" ELSE "GenerateDesign"
  <2>1. /\ MoveTo(r, n) /\ n \in Nodes /\ snaps' = snaps
        /\ node[r] # "none" /\ (node[r] \in Coded => n \in Coded)
    BY <1>2 DEF Retry, Coded, Nodes
  <2> HIDE DEF n
  <2> QED
    BY <2>1, MoveTraces
<1>3. ASSUME NEW q \in Requests, Request(q) PROVE \A r \in Run : Traces(r)
  <2>1. CASE CommitReplay(q)
    <3>1. /\ UNCHANGED <<task, snaps>>
          /\ \A r \in Run : IF node[r] # "none" THEN node'[r] = node[r]
                                                ELSE node'[r] \in {"none", "WriteCode"}
      BY <2>1, CommitReplayIInv
    <3> QED
      BY <3>1 DEF Traces, Coded
  <2>2. CASE ~CommitReplay(q)
    <3>1. UNCHANGED <<node, task, snaps>>
      BY <1>3, <2>2 DEF Request, BeginGenerate, BeginFeedback, BeginReplay, Hold,
         NumberRequest, RefuseRequest, CommitGenerate, CommitFeedback
    <3> QED
      BY <1>1, <3>1
  <2> QED
    BY <2>1, <2>2
<1>4. CASE Fault
  <2>1. UNCHANGED <<node, snaps>>
    BY <1>4 DEF Fault
  <2>2. \A q \in Run : task'[q] = task[q] \/ task'[q] = Nothing
    BY <1>4 DEF Fault, IInv, TypeOK
  <2> QED
    BY <2>1, <2>2 DEF Traces, Nothing
<1>5. CASE UNCHANGED vars
  BY <1>1, <1>5 DEF vars
<1> QED
  BY <1>2, <1>3, <1>4, <1>5, InvocationTraces DEF Next, People

(* Decisions only change with an approval or a rejection. *)
LEMMA StepDecisions ==
  ASSUME [Next]_vars
  PROVE  decisions' = decisions \/ (\E r \in Run : Approve(r) \/ Reject(r))
<1>1. ASSUME NEW r \in Run, Invocation(r) PROVE decisions' = decisions
  BY <1>1 DEF Invocation, StartDesign, Answered, ProviderFails, FindPending, NumberDesign,
     PersistDesign, CollideDesign, ReadDesign, TraceDesign, Code, FailLater
<1>2. ASSUME NEW q \in Requests, Request(q) PROVE decisions' = decisions
  BY <1>2 DEF Request, BeginGenerate, BeginFeedback, BeginReplay, Hold, NumberRequest,
     RefuseRequest, CommitGenerate, CommitFeedback, CommitReplay
<1>3. ASSUME NEW r \in Run, People(r)
      PROVE  decisions' = decisions \/ Approve(r) \/ Reject(r)
  BY <1>3 DEF People, Retry
<1>4. Fault \/ UNCHANGED vars => decisions' = decisions
  BY DEF Fault, vars
<1> QED
  BY <1>1, <1>2, <1>3, <1>4 DEF Next

(* A step that takes no decision leaves what was chosen in force. *)
LEMMA TracedHInv ==
  ASSUME IInv, IInv', HInv, [Next]_vars, decisions' = decisions,
         \A q \in Run : Traces(q)
  PROVE  HInv'
<1>1. NamesDesigns' /\ \A r, c : Honours(r, c)' <=> Honours(r, c)
  BY HonoursKept
<1>2. ASSUME NEW r \in Run, task'[r].pc \in {"reading", "coding"}
      PROVE  Honours(r, task'[r].content)
  <2>1. CASE task[r].pc \in {"reading", "coding"} /\ task'[r].content = task[r].content
    BY <2>1 DEF HInv, CodeHonours
  <2>2. CASE \E i \in PreviousDesign(r) : task'[r].content = arts[i].content
    BY <2>2, ReadsShown DEF HInv
  <2> QED
    BY <1>2, <2>1, <2>2 DEF Traces
<1>3. ASSUME NEW s \in snaps' PROVE node'[s.run] \in Coded /\ Honours(s.run, s.content)
  <2>1. s.run \in Run
    BY DEF IInv, TypeOK
  <2>2. CASE s \in snaps
    BY <2>1, <2>2 DEF HInv, CodeHonours, Traces
  <2>3. CASE s \notin snaps
    <3>1. /\ task[s.run].pc = "coding" /\ s.content = task[s.run].content
          /\ node'[s.run] \in Coded
      BY <2>1, <2>3 DEF Traces
    <3> QED
      BY <2>1, <3>1 DEF HInv, CodeHonours
  <2> QED
    BY <2>2, <2>3
<1>4. CodeHonours'
  BY <1>1, <1>2, <1>3 DEF CodeHonours, Honours, Shown
<1>5. OneGate'
  <2>1. \A r \in Run : node[r] \in Coded \cup {"none"} => node'[r] \in Coded \cup {"none"}
    BY DEF Traces
  <2>2. node[1] \in Coded => node'[1] \in Coded
    BY Constants DEF Traces
  <2> QED
    BY <2>1, <2>2 DEF HInv, OneGate
<1> QED
  BY <1>1, <1>4, <1>5 DEF HInv

(* A decision is of a run that has no code, and an approval names what it shows. *)
LEMMA DecidedHInv ==
  ASSUME IInv, HInv, Naming = TRUE, NEW r \in Run, Approve(r) \/ Reject(r)
  PROVE  HInv'
<1>1. ASSUME NEW d \in {"approved", "rejected"}, NEW a, NEW shown, Decide(r, d, a, shown),
             IF d = "approved"
             THEN /\ a \in DOMAIN arts /\ arts[a].content.kind = "design"
                  /\ arts[a].content.id = shown
             ELSE a = 0
      PROVE  HInv'
  <2> DEFINE e == [run |-> r, decision |-> d, artifact |-> a, shown |-> shown]
             n == IF d = "approved" THEN "WriteCode" ELSE "GenerateDesign"
  <2>1. /\ decisions' = Append(decisions, e) /\ node[r] = "WaitDesignApproval"
        /\ MoveTo(r, n) /\ UNCHANGED <<arts, snaps>>
    BY <1>1 DEF Decide
  <2>2. /\ e.run = r /\ e.decision = d /\ e.artifact = a /\ e.shown = shown
    OBVIOUS
  <2> HIDE DEF e, n
  <2>3. Len(decisions) \in Nat /\ decisions \in Seq([run : Run,
          decision : {"approved", "rejected"}, artifact : Nat, shown : Nat])
    BY DEF IInv, TypeOK
  <2>4. /\ DOMAIN decisions' = DOMAIN decisions \cup {Len(decisions) + 1}
        /\ \A k \in DOMAIN decisions : decisions'[k] = decisions[k]
        /\ decisions'[Len(decisions) + 1] = e
    BY <2>1, <2>3
  <2>5. NamesDesigns'
    <3>1. ASSUME NEW k \in DOMAIN decisions'
          PROVE  IF decisions'[k].decision = "approved"
                 THEN /\ decisions'[k].artifact \in DOMAIN arts
                      /\ arts[decisions'[k].artifact].content.kind = "design" =>
                           arts[decisions'[k].artifact].content.id = decisions'[k].shown
                 ELSE decisions'[k].artifact = 0
      BY <1>1, <2>2, <2>4 DEF HInv, NamesDesigns
    <3> QED
      BY <2>1, <3>1 DEF NamesDesigns
  <2>6. ASSUME NEW q \in Run, q # r PROVE Shown(q)' = Shown(q)
    BY <2>2, <2>4, <2>6 DEF Shown
  <2>7. /\ \A q \in Run : task'[q] = (IF q = r THEN Nothing ELSE task[q])
        /\ \A q \in Run : q # r => node'[q] = node[q]
        /\ Nothing.pc = "idle"
    BY <2>1 DEF MoveTo, IInv, TypeOK, Nothing
  <2>8. ASSUME NEW q \in Run, task'[q].pc \in {"reading", "coding"}
        PROVE  q # r /\ Honours(q, task'[q].content)
    BY <2>7, <2>8 DEF HInv, CodeHonours
  <2>9. ASSUME NEW s \in snaps'
        PROVE  s.run \in Run /\ s.run # r /\ node'[s.run] \in Coded /\ Honours(s.run, s.content)
    BY <2>1, <2>7 DEF HInv, CodeHonours, Coded, IInv, TypeOK
  <2>10. CodeHonours'
    BY <2>6, <2>8, <2>9 DEF CodeHonours, Honours
  <2>11. OneGate'
    <3>1. r = 1 /\ \A k \in DOMAIN decisions : decisions[k].decision # "approved"
      BY <2>1 DEF HInv, OneGate, Coded
    <3>2. d = "approved" => node'[1] = "WriteCode"
      BY <2>1, <3>1, Constants DEF MoveTo, IInv, TypeOK, n
    <3>3. \A q \in Run : q # 1 => node'[q] \in Coded \cup {"none"}
      BY <2>7, <3>1 DEF HInv, OneGate
    <3>4. \A k \in DOMAIN decisions' :
            decisions'[k].decision = "approved" => decisions'[k].run = 1 /\ node'[1] \in Coded
      BY <2>2, <2>4, <3>1, <3>2 DEF Coded
    <3> QED
      BY <3>3, <3>4 DEF OneGate
  <2> QED
    BY <2>5, <2>10, <2>11 DEF HInv
<1>2. CASE Reject(r)
  BY <1>1, <1>2 DEF Reject
<1>3. CASE Approve(r)
  BY <1>1, <1>3 DEF Approve
<1> QED
  BY <1>2, <1>3

(* A design that code of a run whose own gate was opened is written from was    *)
(* shown to who opened it: for any number of runs, requests, faults and         *)
(* decisions, when approvals name the design they approve                       *)
(* (_selected_artifact_ids_for_run, engine.py:760).                             *)
THEOREM SelectionIsHonoured == Naming = TRUE => (Spec => []SelectionHonoured)
<1> SUFFICES ASSUME Naming = TRUE PROVE Spec => []SelectionHonoured
  OBVIOUS
<1>1. Init => HInv
  <2> SUFFICES ASSUME Init PROVE HInv
    OBVIOUS
  <2>1. NamesDesigns
    BY DEF Init, NamesDesigns
  <2>2. CodeHonours
    BY DEF Init, CodeHonours, Nothing
  <2>3. OneGate
    BY DEF Init, OneGate
  <2> QED
    BY <2>1, <2>2, <2>3 DEF HInv
<1>2. IInv /\ IInv' /\ HInv /\ [Next]_vars => HInv'
  <2> SUFFICES ASSUME IInv, IInv', HInv, [Next]_vars PROVE HInv'
    OBVIOUS
  <2> QED
    BY StepTraces, StepDecisions, TracedHInv, DecidedHInv
<1>3. HInv => SelectionHonoured
  BY DEF HInv, CodeHonours, Honours, SelectionHonoured
<1> QED
  BY <1>1, <1>2, <1>3, IInvHolds, PTL DEF Spec
=============================================================================
