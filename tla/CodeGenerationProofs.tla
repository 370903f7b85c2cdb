------------------------ MODULE CodeGenerationProofs ------------------------
(***************************************************************************)
(* Proofs about CodeGeneration: what the gate is given was checked as a    *)
(* whole, and how often one execution calls the model, for any number of   *)
(* retries and attempts.                                                   *)
(***************************************************************************)
EXTENDS CodeGeneration, TLAPS

Attempts == MAX_INTERNAL_RETRIES + 1

(* Where an execution can be, and in which node. *)
ExecPlaced ==
  /\ exec.pc # "idle" => node \in Models
  /\ node \in Models => retry_count <= MAX_RETRIES
  /\ node = "GeneratePRD" => exec.pc \in {"idle", "call"} /\ exec.phase = 1
  /\ exec.pc \in {"check", "passed", "refused"} => exec.phase \in {2, 3}

(* The calls so far: those of the phases and of the parses before this one, *)
(* and the attempts of this one.                                            *)
CallsCounted ==
  /\ exec.pc = "idle" => exec.calls = 0
  /\ exec.pc = "call" =>
       exec.calls <= ((exec.phase - 1) * 2 + exec.parse - 1) * Attempts + exec.attempt - 1
  /\ exec.pc \in {"check", "passed", "refused"} => exec.calls <= exec.phase * 2 * Attempts

(* What the execution holds, and what it has persisted. *)
FilesAllowed == \A p \in Path \ Allowed : exec.files[p] = "none"
PassedSound == exec.pc = "passed" => Flaws(exec) = {}

(* A run that failed at the gate comes back to it with the code it had. *)
ScannedAgain == node = "SecurityGate failed" => snap.valid /\ snap.flaws = {}

IInv ==
  /\ TypeOK /\ ExecPlaced /\ CallsCounted
  /\ FilesAllowed /\ PassedSound
  /\ CheckedCode /\ ScannedAgain

-----------------------------------------------------------------------------

(* An execution that has not begun. *)
LEMMA IdleExec ==
  /\ Idle \in Exec
  /\ Idle.pc = "idle" /\ Idle.calls = 0 /\ Idle.phase = 1
  /\ \A p \in Path : Idle.files[p] = "none"
<1>1. NoFiles \in Delta
  BY DEF NoFiles, Delta, Path, Allowed
<1>2. 1 \in 1..MAX_PARSE_RETRIES + 1 /\ 1 \in 1..MAX_INTERNAL_RETRIES + 1
  BY RetriesAssumption DEF MAX_PARSE_RETRIES
<1>3. {} \in SUBSET Package /\ {} \in Lock
  BY DEF Lock
<1> QED
  BY <1>1, <1>2, <1>3 DEF Idle, Exec, NoFiles

(* The system starts in the invariant. *)
LEMMA InitIInv == Init => IInv
<1> SUFFICES ASSUME Init PROVE IInv
  OBVIOUS
<1>1. TypeOK
  BY IdleExec, RetriesAssumption, BoundsAssumption DEF Init, TypeOK, Nodes, Models, NoSnap
<1>2. ExecPlaced /\ CallsCounted /\ FilesAllowed /\ PassedSound
  BY IdleExec, RetriesAssumption DEF Init, ExecPlaced, CallsCounted, FilesAllowed, PassedSound
<1>3. CheckedCode /\ ScannedAgain
  BY DEF Init, CheckedCode, ScannedAgain, NoSnap
<1> QED
  BY <1>1, <1>2, <1>3 DEF IInv

(* The run leaves its node, and the execution is over. *)
LEMMA LeaveIInv ==
  ASSUME IInv, NEW n \in Nodes, NEW count \in 0..MAX_RETRIES + 1, Leave(n, count),
         n \in Models => count <= MAX_RETRIES,
         snap' \in [valid : BOOLEAN, flaws : SUBSET Flaw, made : BOOLEAN],
         report' \in {"none", "passed", "blocking"},
         clicks' \in 0..MaxClicks, faults' \in 0..MaxFaults,
         n \in {"SecurityGate", "SecurityGate failed", "PreparePR"} => snap'.valid /\ snap'.flaws = {}
  PROVE  IInv'
<1>1. node' = n /\ retry_count' = count /\ job' = "none" /\ exec' = Idle
  BY DEF Leave
<1>2. TypeOK'
  BY <1>1, IdleExec DEF IInv, TypeOK
<1>3. ExecPlaced' /\ CallsCounted' /\ FilesAllowed' /\ PassedSound'
  BY <1>1, IdleExec DEF ExecPlaced, CallsCounted, FilesAllowed, PassedSound
<1>4. CheckedCode' /\ ScannedAgain'
  BY <1>1 DEF CheckedCode, ScannedAgain
<1> QED
  BY <1>2, <1>3, <1>4 DEF IInv

(* What such a step keeps of the types. *)
LEMMA Persisted ==
  ASSUME IInv
  PROVE  /\ 0 \in 0..MAX_RETRIES + 1 /\ 0 <= MAX_RETRIES
         /\ snap \in [valid : BOOLEAN, flaws : SUBSET Flaw, made : BOOLEAN]
         /\ report \in {"none", "passed", "blocking"}
         /\ clicks \in 0..MaxClicks /\ faults \in 0..MaxFaults
BY RetriesAssumption DEF IInv, TypeOK

(* The node fails, and leaves what is persisted as it was. *)
LEMMA FailIInv ==
  ASSUME IInv, NEW count \in 0..MAX_RETRIES + 1, Leave(FailedNode, count),
         UNCHANGED <<snap, report, clicks, faults>>
  PROVE  IInv'
<1>1. FailedNode \in Nodes /\ FailedNode \notin {"SecurityGate", "SecurityGate failed", "PreparePR"} \cup Models
  BY DEF FailedNode, Nodes, Models, Failed
<1> QED
  BY <1>1, LeaveIInv DEF IInv, TypeOK

(* A failure outcome does. *)
LEMMA FailNodeIInv ==
  ASSUME IInv, FailNode, UNCHANGED <<snap, report, clicks, faults>>
  PROVE  IInv'
BY FailIInv, RetriesAssumption DEF FailNode, Advance

(* The execution goes on where it is. *)
LEMMA GoOnIInv ==
  ASSUME IInv, NEW e \in Exec, exec' = e,
         UNCHANGED <<node, retry_count, job, snap, report, clicks, faults>>,
         ExecPlaced', CallsCounted', FilesAllowed', PassedSound'
  PROVE  IInv'
<1>1. TypeOK'
  BY DEF IInv, TypeOK
<1>2. CheckedCode' /\ ScannedAgain'
  BY DEF IInv, CheckedCode, ScannedAgain
<1> QED
  BY <1>1, <1>2 DEF IInv

(* The fields of an execution. *)
LEMMA ExecFields ==
  ASSUME IInv
  PROVE  /\ exec \in Exec
         /\ exec.phase \in 1..3 /\ exec.parse \in 1..2 /\ exec.attempt \in 1..Attempts
         /\ exec.calls \in Nat /\ Attempts \in Nat /\ exec.files \in Delta
BY RetriesAssumption DEF IInv, TypeOK, Exec, Attempts, MAX_PARSE_RETRIES

-----------------------------------------------------------------------------

(* Start keeps IInv. *)
LEMMA StartIInv == ASSUME IInv, Start PROVE IInv'
<1> DEFINE e1 == [Idle EXCEPT !.pc = "call"]
<1> DEFINE e2 == [e1 EXCEPT !.why = IF job = "fallback" THEN job ELSE "default"]
<1> DEFINE e3 == [e2 EXCEPT !.shown = (node = "WriteCode" /\ report = "blocking" /\ snap.made)]
<1>3. exec' = e3
  BY DEF Start
<1>4. e1 \in Exec /\ e1.pc = "call" /\ e1.phase = 1 /\ e1.calls = 0 /\ e1.files = Idle.files
      /\ e1.parse = 1 /\ e1.attempt = 1
  BY IdleExec DEF Exec, Idle
<1> HIDE DEF e1
<1>5. e2 \in Exec /\ e2.pc = "call" /\ e2.phase = 1 /\ e2.calls = 0 /\ e2.files = Idle.files
      /\ e2.parse = 1 /\ e2.attempt = 1
  BY <1>4 DEF Exec, IInv, TypeOK
<1> HIDE DEF e2
<1>1. /\ exec' \in Exec /\ exec'.pc = "call" /\ exec'.phase = 1 /\ exec'.parse = 1
      /\ exec'.attempt = 1 /\ exec'.calls = 0 /\ exec'.files = Idle.files
  BY <1>3, <1>5 DEF Exec
<1>6. ExecPlaced'
  BY <1>1 DEF Start, IInv, ExecPlaced, Models
<1>7. CallsCounted'
  <2>1. (((1 - 1) * 2 + 1) - 1) * Attempts + 1 - 1 = 0
    BY ExecFields
  <2> QED
    BY <1>1, <2>1 DEF CallsCounted, Attempts
<1>8. FilesAllowed' /\ PassedSound'
  BY <1>1, IdleExec DEF FilesAllowed, PassedSound
<1> QED
  BY <1>1, <1>6, <1>7, <1>8, GoOnIInv DEF Start

(* A RetryableError: one more job, or the end of the run. *)
LEMMA RetryLaterIInv ==
  ASSUME IInv, NEW profile \in {"default", "fallback"}, RetryLater(profile), exec.pc = "call",
         UNCHANGED <<snap, report, clicks, faults>>
  PROVE  IInv'
<1>1. retry_count \in 0..MAX_RETRIES
  BY RetriesAssumption DEF IInv, TypeOK, ExecPlaced
<1>2. CASE retry_count + 1 > MAX_RETRIES
  <2>1. retry_count + 1 \in 0..MAX_RETRIES + 1
    BY <1>1, RetriesAssumption
  <2> QED
    BY <1>2, <2>1, FailIInv DEF RetryLater, Exhausted, CountRetry
<1>3. CASE ~(retry_count + 1 > MAX_RETRIES)
  <2>1. /\ retry_count' = retry_count + 1 /\ job' = profile /\ exec' = Idle
        /\ UNCHANGED <<node, snap, report, clicks, faults>>
    BY <1>3 DEF RetryLater, Exhausted, CountRetry
  <2>2. TypeOK'
    BY <1>1, <1>3, <2>1, IdleExec, RetriesAssumption DEF IInv, TypeOK
  <2>3. ExecPlaced' /\ CallsCounted' /\ FilesAllowed' /\ PassedSound'
    BY <1>1, <1>3, <2>1, IdleExec, RetriesAssumption
       DEF ExecPlaced, CallsCounted, FilesAllowed, PassedSound
  <2>4. CheckedCode' /\ ScannedAgain'
    BY <2>1 DEF IInv, CheckedCode, ScannedAgain
  <2> QED
    BY <2>2, <2>3, <2>4 DEF IInv
<1> QED
  BY <1>2, <1>3

(* Another attempt, or none is left. *)
LEMMA CallFailsIInv ==
  ASSUME IInv, NEW profile \in {"default", "fallback"}, CallFails(profile)
  PROVE  IInv'
<1> DEFINE e == [exec EXCEPT !.attempt = exec.attempt + 1, !.calls = exec.calls + 1]
<1>1. CASE exec.attempt + 1 > Attempts
  BY <1>1, RetryLaterIInv DEF CallFails, Attempt, Attempts
<1>2. CASE ~(exec.attempt + 1 > Attempts)
  <2>1. exec' = e /\ exec.pc = "call"
        /\ UNCHANGED <<node, retry_count, job, snap, report, clicks, faults>>
    BY <1>2 DEF CallFails, Attempt, Attempts
  <2>2. exec.attempt + 1 \in 1..Attempts /\ exec.calls + 1 \in Nat
    BY <1>2, ExecFields
  <2>3. e \in Exec /\ e.pc = "call" /\ e.phase = exec.phase /\ e.parse = exec.parse
        /\ e.attempt = exec.attempt + 1 /\ e.calls = exec.calls + 1 /\ e.files = exec.files
    BY <2>1, <2>2, ExecFields DEF Exec, Attempts
  <2> HIDE DEF e
  <2>4. ExecPlaced' /\ FilesAllowed' /\ PassedSound'
    BY <2>1, <2>3 DEF IInv, ExecPlaced, FilesAllowed, PassedSound
  <2>5. CallsCounted'
    <3> DEFINE before == ((exec.phase - 1) * 2 + exec.parse - 1) * Attempts
    <3>1. exec.calls <= before + exec.attempt - 1
      BY <2>1 DEF IInv, CallsCounted
    <3>2. before \in Int
      BY ExecFields
    <3>3. e.calls <= before + e.attempt - 1
      <4> HIDE DEF before
      <4> QED
        BY <2>3, <3>1, <3>2, ExecFields
    <3> QED
      BY <2>1, <2>3, <3>3 DEF CallsCounted, Attempts
  <2> QED
    BY <2>1, <2>3, <2>4, <2>5, GoOnIInv
<1> QED
  BY <1>1, <1>2

(* CallRefused keeps IInv. *)
LEMMA CallRefusedIInv == ASSUME IInv, CallRefused PROVE IInv'
<1>1. retry_count \in 0..MAX_RETRIES + 1 /\ UNCHANGED <<snap, report, clicks, faults>>
  BY DEF IInv, TypeOK, CallRefused
<1> QED
  BY <1>1, FailIInv, FailNodeIInv DEF CallRefused

(* The answer is asked for once more, or the node fails. *)
LEMMA UnparsableIInv == ASSUME IInv, Unparsable PROVE IInv'
<1> DEFINE e == [exec EXCEPT !.parse = exec.parse + 1, !.attempt = 1, !.calls = exec.calls + 1]
<1>1. CASE ParsesUsed(exec.parse)
  BY <1>1, FailNodeIInv DEF Unparsable
<1>2. CASE ~(ParsesUsed(exec.parse))
  <2>1. exec' = e /\ exec.pc = "call"
        /\ UNCHANGED <<node, retry_count, job, snap, report, clicks, faults>>
    BY <1>2 DEF Unparsable
  <2>2. exec.parse = 1
    BY <1>2, ExecFields DEF ParsesUsed, MAX_PARSE_RETRIES
  <2>6. /\ 2 \in 1..MAX_PARSE_RETRIES + 1 /\ 1 \in 1..MAX_INTERNAL_RETRIES + 1
        /\ exec.calls + 1 \in Nat /\ exec.parse + 1 = 2
    BY <2>2, ExecFields, RetriesAssumption DEF MAX_PARSE_RETRIES
  <2>3. e \in Exec /\ e.pc = "call" /\ e.phase = exec.phase /\ e.parse = 2
        /\ e.attempt = 1 /\ e.calls = exec.calls + 1 /\ e.files = exec.files
    BY <2>1, <2>6, ExecFields DEF Exec
  <2> HIDE DEF e
  <2>4. ExecPlaced' /\ FilesAllowed' /\ PassedSound'
    BY <2>1, <2>3 DEF IInv, ExecPlaced, FilesAllowed, PassedSound
  <2>5. CallsCounted'
    <3>1. exec.calls <= ((exec.phase - 1) * 2 + 1 - 1) * Attempts + exec.attempt - 1
      BY <2>1, <2>2 DEF IInv, CallsCounted
    <3>2. exec.calls + 1 <= ((exec.phase - 1) * 2 + 2 - 1) * Attempts + 1 - 1
      <4>1. CASE exec.phase = 1
        BY <3>1, <4>1, ExecFields
      <4>2. CASE exec.phase = 2
        BY <3>1, <4>2, ExecFields
      <4>3. CASE exec.phase = 3
        BY <3>1, <4>3, ExecFields
      <4> QED
        BY <4>1, <4>2, <4>3, ExecFields
    <3> QED
      BY <2>1, <2>3, <3>2 DEF CallsCounted, Attempts
  <2> QED
    BY <2>1, <2>3, <2>4, <2>5, GoOnIInv
<1> QED
  BY <1>1, <1>2

(* Specified keeps IInv. *)
LEMMA SpecifiedIInv == ASSUME IInv, Specified PROVE IInv'
<1>1. "WaitPRDApproval" \in Nodes \ (Models \cup {"SecurityGate", "SecurityGate failed", "PreparePR"})
  BY DEF Nodes, Models
<1>2. Leave("WaitPRDApproval", 0) /\ UNCHANGED <<snap, report, clicks, faults>>
  BY DEF Specified, Advance
<1> QED
  BY <1>1, <1>2, LeaveIInv, Persisted

(* What a part of the code adds to the files, filtered. *)
LEMMA MergedExec ==
  ASSUME IInv, NEW a \in Answer
  PROVE  /\ Merged(exec, a) \in Exec
         /\ Merged(exec, a).pc = exec.pc /\ Merged(exec, a).phase = exec.phase
         /\ Merged(exec, a).parse = 1 /\ Merged(exec, a).attempt = 1
         /\ Merged(exec, a).calls = exec.calls + 1
         /\ \A p \in Path \ Allowed : Merged(exec, a).files[p] = "none"
<1> DEFINE f == [p \in Path |-> IF a.files[p] # "none" /\ p \in Allowed
                                THEN a.files[p] ELSE exec.files[p]]
<1>1. exec.files \in Delta /\ a.files \in Delta /\ a.packages \subseteq Package
  BY ExecFields DEF Answer
<1>3. \A p \in Path \ Allowed : f[p] = "none"
  BY DEF IInv, FilesAllowed
<1>2. f \in Delta
  BY <1>1, <1>3 DEF Delta, Path, Allowed
<1>4. Merged(exec, a) = [exec EXCEPT !.files = f, !.wanted = exec.wanted \cup a.packages,
                                     !.parse = 1, !.attempt = 1, !.calls = exec.calls + 1]
  BY DEF Merged
<1> HIDE DEF f
<1>5. 1 \in 1..MAX_PARSE_RETRIES + 1 /\ 1 \in 1..MAX_INTERNAL_RETRIES + 1
  BY RetriesAssumption DEF MAX_PARSE_RETRIES
<1> DEFINE e1 == [exec EXCEPT !.files = f]
<1> DEFINE e2 == [e1 EXCEPT !.wanted = exec.wanted \cup a.packages]
<1>6. e1 \in Exec /\ e1.pc = exec.pc /\ e1.phase = exec.phase /\ e1.calls = exec.calls
      /\ e1.files = f
  BY <1>2, ExecFields DEF Exec
<1>7. exec.wanted \cup a.packages \in SUBSET Package
  BY <1>1, ExecFields DEF Exec
<1> HIDE DEF e1
<1>8. e2 \in Exec /\ e2.pc = exec.pc /\ e2.phase = exec.phase /\ e2.calls = exec.calls
      /\ e2.files = f
  BY <1>6, <1>7 DEF Exec
<1> DEFINE e3 == [e2 EXCEPT !.parse = 1]
<1> DEFINE e4 == [e3 EXCEPT !.attempt = 1]
<1>9. Merged(exec, a) = [e4 EXCEPT !.calls = exec.calls + 1]
  BY <1>4 DEF e1
<1>10. exec.calls + 1 \in Nat
  BY ExecFields
<1> HIDE DEF e2
<1>11. e3 \in Exec /\ e3.pc = exec.pc /\ e3.phase = exec.phase /\ e3.parse = 1
       /\ e3.calls = exec.calls /\ e3.files = f
  BY <1>5, <1>8 DEF Exec
<1> HIDE DEF e3
<1>12. e4 \in Exec /\ e4.pc = exec.pc /\ e4.phase = exec.phase /\ e4.parse = 1
       /\ e4.attempt = 1 /\ e4.files = f
  BY <1>5, <1>11 DEF Exec
<1> HIDE DEF e4
<1> QED
  BY <1>3, <1>9, <1>10, <1>12 DEF Exec

(* Another part is written: the next phase, the check, or a failed node. *)
LEMMA WrittenIInv == ASSUME IInv, NEW a \in Answer, Written(a) PROVE IInv'
<1> DEFINE e == Merged(exec, a)
<1>1. /\ e \in Exec /\ e.pc = "call" /\ e.phase = exec.phase /\ e.parse = 1 /\ e.attempt = 1
      /\ e.calls = exec.calls + 1 /\ \A p \in Path \ Allowed : e.files[p] = "none"
      /\ exec.pc = "call" /\ node = "WriteCode"
      /\ UNCHANGED <<snap, report, clicks, faults>>
  BY MergedExec DEF Written
<1>2. exec.calls + 1 <= exec.phase * 2 * Attempts
  <2>1. exec.calls <= ((exec.phase - 1) * 2 + exec.parse - 1) * Attempts + exec.attempt - 1
    BY <1>1 DEF IInv, CallsCounted
  <2>2. exec.attempt <= Attempts /\ exec.parse \in {1, 2} /\ exec.phase \in {1, 2, 3}
    BY ExecFields
  <2>3. CASE exec.phase = 1
    BY <2>1, <2>2, <2>3, ExecFields
  <2>4. CASE exec.phase = 2
    BY <2>1, <2>2, <2>4, ExecFields
  <2>5. CASE exec.phase = 3
    BY <2>1, <2>2, <2>5, ExecFields
  <2> QED
    BY <2>2, <2>3, <2>4, <2>5
<1>3. CASE FailNode
  BY <1>1, <1>3, FailNodeIInv
<1>4. CASE /\ exec.phase = 1 /\ exec' = [e EXCEPT !.phase = 2]
           /\ UNCHANGED <<node, retry_count, job>>
  <2>1. /\ exec' \in Exec /\ exec'.pc = "call" /\ exec'.phase = 2 /\ exec'.parse = 1
        /\ exec'.attempt = 1 /\ exec'.calls = exec.calls + 1 /\ exec'.files = e.files
    <3> HIDE DEF e
    <3> QED
      BY <1>1, <1>4 DEF Exec
  <2>2. ExecPlaced' /\ FilesAllowed' /\ PassedSound'
    BY <1>1, <1>4, <2>1 DEF IInv, ExecPlaced, FilesAllowed, PassedSound, Models
  <2>3. exec.calls + 1 <= ((2 - 1) * 2 + 1 - 1) * Attempts + 1 - 1
    BY <1>2, <1>4, ExecFields
  <2>4. CallsCounted'
    BY <2>1, <2>3 DEF CallsCounted, Attempts
  <2> QED
    BY <1>1, <1>4, <2>1, <2>2, <2>4, GoOnIInv
<1>5. CASE /\ exec.phase \in {2, 3} /\ exec' = Merge(e)
           /\ UNCHANGED <<node, retry_count, job>>
  <2>1. /\ exec' \in Exec /\ exec'.pc = "check" /\ exec'.phase = exec.phase
        /\ exec'.calls = exec.calls + 1 /\ exec'.files = e.files
    <3> HIDE DEF e
    <3> QED
      BY <1>1, <1>5 DEF Exec, Merge
  <2>2. ExecPlaced' /\ FilesAllowed' /\ PassedSound'
    BY <1>1, <1>5, <2>1 DEF IInv, ExecPlaced, FilesAllowed, PassedSound, Models
  <2>3. CallsCounted'
    BY <1>2, <2>1 DEF CallsCounted, Attempts
  <2> QED
    BY <1>1, <1>5, <2>1, <2>2, <2>3, GoOnIInv
<1> QED
  BY <1>1, <1>3, <1>4, <1>5, ExecFields DEF Written

(* The check passes, asks for the repair, or refuses. *)
LEMMA CheckCases ==
  ASSUME IInv, Check
  PROVE  \E lock \in Lock :
           \/ /\ exec' = [exec EXCEPT !.locked = lock, !.pc = "passed"]
              /\ lock = {"template"} \cup exec.wanted
              /\ ~Invalid([exec EXCEPT !.locked = lock])
           \/ exec' = [exec EXCEPT !.pc = "call", !.phase = 3] /\ exec.phase = 2
           \/ exec' = [exec EXCEPT !.locked = lock, !.pc = "refused"]
<1>1. PICK resolved \in BOOLEAN, built \in BOOLEAN :
        LET e == [exec EXCEPT !.locked = Locked(exec, resolved)]
            errors == ~resolved \/ ~built \/ Invalid(e)
        IN exec' = CASE ~errors -> [e EXCEPT !.pc = "passed"]
                     [] errors /\ e.phase = 2 -> [exec EXCEPT !.pc = "call", !.phase = 3]
                     [] OTHER -> [e EXCEPT !.pc = "refused"]
  BY DEF Check
<1> DEFINE e == [exec EXCEPT !.locked = Locked(exec, resolved)]
<1>2. exec.wanted \subseteq Package /\ e.phase = exec.phase
  BY ExecFields DEF Exec
<1>3. Locked(exec, resolved) \in Lock
  BY <1>2 DEF Locked, Lock
<1>4. resolved => Locked(exec, resolved) = {"template"} \cup exec.wanted
  BY DEF Locked
<1>5. \/ exec' = [e EXCEPT !.pc = "passed"] /\ resolved /\ ~Invalid(e)
      \/ exec' = [exec EXCEPT !.pc = "call", !.phase = 3] /\ exec.phase = 2
      \/ exec' = [e EXCEPT !.pc = "refused"]
  <2> HIDE DEF e
  <2> QED
    BY <1>1, <1>2 DEF e
<1> QED
  BY <1>3, <1>4, <1>5

(* Check keeps IInv. *)
LEMMA CheckIInv == ASSUME IInv, Check PROVE IInv'
<1>1. /\ exec.pc = "check"
      /\ UNCHANGED <<node, retry_count, job, snap, report, clicks, faults>>
  BY DEF Check
<1>2. /\ exec.phase \in {2, 3} /\ node = "WriteCode"
      /\ exec.calls <= exec.phase * 2 * Attempts
  BY <1>1 DEF IInv, ExecPlaced, CallsCounted, Models
<1>6. PICK lock \in Lock :
        \/ /\ exec' = [exec EXCEPT !.locked = lock, !.pc = "passed"]
           /\ lock = {"template"} \cup exec.wanted
           /\ ~Invalid([exec EXCEPT !.locked = lock])
        \/ exec' = [exec EXCEPT !.pc = "call", !.phase = 3] /\ exec.phase = 2
        \/ exec' = [exec EXCEPT !.locked = lock, !.pc = "refused"]
  BY CheckCases
<1> DEFINE e == [exec EXCEPT !.locked = lock]
<1>7. /\ e \in Exec /\ e.phase = exec.phase /\ e.calls = exec.calls /\ e.files = exec.files
      /\ e.wanted = exec.wanted /\ e.locked = lock
  BY ExecFields DEF Exec
<1>3. CASE /\ exec' = [e EXCEPT !.pc = "passed"]
           /\ lock = {"template"} \cup exec.wanted /\ ~Invalid(e)
  <2>0. /\ exec' \in Exec /\ exec'.pc = "passed" /\ exec'.phase = e.phase
        /\ exec'.calls = e.calls /\ exec'.files = e.files
        /\ exec'.wanted = e.wanted /\ exec'.locked = e.locked
    <3> HIDE DEF e
    <3> QED
      BY <1>3, <1>7 DEF Exec
  <2>1. /\ exec' \in Exec /\ exec'.pc = "passed" /\ exec'.phase = exec.phase
        /\ exec'.calls = exec.calls /\ exec'.files = exec.files
    BY <1>7, <2>0
  <2>2. ExecPlaced' /\ FilesAllowed' /\ CallsCounted'
    BY <1>1, <1>2, <2>1 DEF IInv, ExecPlaced, FilesAllowed, CallsCounted, Models, Attempts
  <2>3. ~(exec.files["app/page.tsx"] = "broken")
        /\ ~(exec.files["app/page.tsx"] = "importing" /\ exec.files["lib/data.ts"] = "none")
    <3> HIDE DEF e
    <3> QED
      BY <1>3, <1>7 DEF Invalid, Flaws, Flaw
  <2>4. exec'.locked = {"template"} \cup exec'.wanted
    BY <1>3, <1>7, <2>0
  <2>5. PassedSound'
    BY <2>1, <2>2, <2>3, <2>4 DEF PassedSound, Flaws, FilesAllowed
  <2> QED
    BY <1>1, <2>1, <2>2, <2>5, GoOnIInv
<1>4. CASE exec' = [exec EXCEPT !.pc = "call", !.phase = 3] /\ exec.phase = 2
  <2>1. exec.parse = exec.parse /\ exec.attempt \in 1..Attempts /\ exec.parse \in 1..2
    BY ExecFields
  <2>2. /\ exec' \in Exec /\ exec'.pc = "call" /\ exec'.phase = 3 /\ exec'.files = exec.files
        /\ exec'.calls = exec.calls /\ exec'.parse = exec.parse /\ exec'.attempt = exec.attempt
    <3> DEFINE c == [exec EXCEPT !.pc = "call"]
    <3>1. /\ c \in Exec /\ c.pc = "call" /\ c.files = exec.files /\ c.calls = exec.calls
          /\ c.parse = exec.parse /\ c.attempt = exec.attempt
      BY ExecFields DEF Exec
    <3>2. exec' = [c EXCEPT !.phase = 3] /\ 3 \in 1..3
      BY <1>4
    <3> HIDE DEF c
    <3> QED
      BY <3>1, <3>2 DEF Exec
  <2>3. ExecPlaced' /\ FilesAllowed' /\ PassedSound'
    BY <1>1, <1>2, <2>2 DEF IInv, ExecPlaced, FilesAllowed, PassedSound, Models
  <2>4. exec.calls <= ((3 - 1) * 2 + exec.parse - 1) * Attempts + exec.attempt - 1
    <3>1. CASE exec.parse = 1
      BY <1>2, <1>4, <2>1, <3>1, ExecFields
    <3>2. CASE exec.parse = 2
      BY <1>2, <1>4, <2>1, <3>2, ExecFields
    <3> QED
      BY <2>1, <3>1, <3>2
  <2>5. CallsCounted'
    BY <2>2, <2>4 DEF CallsCounted, Attempts
  <2> QED
    BY <1>1, <2>2, <2>3, <2>5, GoOnIInv
<1>5. CASE exec' = [e EXCEPT !.pc = "refused"]
  <2>0. /\ exec' \in Exec /\ exec'.pc = "refused" /\ exec'.phase = e.phase
        /\ exec'.calls = e.calls /\ exec'.files = e.files
    <3> HIDE DEF e
    <3> QED
      BY <1>5, <1>7 DEF Exec
  <2>1. exec'.phase = exec.phase /\ exec'.calls = exec.calls /\ exec'.files = exec.files
    BY <1>7, <2>0
  <2>2. ExecPlaced' /\ FilesAllowed' /\ CallsCounted' /\ PassedSound'
    BY <1>1, <1>2, <2>0, <2>1
       DEF IInv, ExecPlaced, FilesAllowed, CallsCounted, PassedSound, Models, Attempts
  <2> QED
    BY <1>1, <2>0, <2>2, GoOnIInv
<1> QED
  BY <1>3, <1>4, <1>5, <1>6

(* Deliver keeps IInv. *)
LEMMA DeliverIInv == ASSUME IInv, Deliver PROVE IInv'
<1> DEFINE flaws == IF exec.pc = "passed" THEN Flaws(exec) ELSE {}
<1>1. /\ exec.pc \in {"passed", "refused"} /\ report' = report
      /\ UNCHANGED <<clicks, faults>>
      /\ snap' = [valid |-> exec.pc = "passed", made |-> TRUE, flaws |-> flaws]
  BY DEF Deliver
<1>2. flaws \subseteq Flaw
  BY DEF Flaws
<1>3. exec.pc = "passed" => flaws = {}
  BY DEF IInv, PassedSound
<1> HIDE DEF flaws
<1>4. snap' \in [valid : BOOLEAN, flaws : SUBSET Flaw, made : BOOLEAN] /\ snap'.flaws = flaws
  BY <1>1, <1>2
<1>5. CASE exec.pc = "passed"
  <2>1. Leave("SecurityGate", 0)
    BY <1>1, <1>5 DEF Deliver, Advance
  <2>3. snap'.valid = (exec.pc = "passed")
    BY <1>1, Zenon
  <2>4. snap'.valid
    BY <1>5, <2>3
  <2>2. "SecurityGate" \in Nodes \ Models
    BY DEF Nodes, Models
  <2> QED
    BY <1>1, <1>2, <1>3, <1>4, <1>5, <2>1, <2>2, <2>4, LeaveIInv, Persisted
<1>6. CASE exec.pc = "refused"
  <2>1. Leave(FailedNode, 0)
    BY <1>1, <1>6 DEF Deliver, FailNode, Advance
  <2>2. FailedNode \in Nodes /\ FailedNode \notin {"SecurityGate", "SecurityGate failed", "PreparePR"} \cup Models
    BY DEF FailedNode, Nodes, Models, Failed
  <2> QED
    BY <1>1, <1>2, <1>4, <2>1, <2>2, LeaveIInv, Persisted
<1> QED
  BY <1>1, <1>5, <1>6

(* Scan keeps IInv. *)
LEMMA ScanIInv == ASSUME IInv, Scan PROVE IInv'
<1>1. PICK n \in {"PreparePR", "WriteCode", "SecurityGate failed"} :
        Leave(n, 0) /\ report' \in {"none", "passed", "blocking"}
  <2>1. CASE \E r \in {"passed", "blocking"} :
               report' = r /\ Advance(IF r = "passed" THEN "PreparePR" ELSE "WriteCode")
    BY <2>1 DEF Advance
  <2>2. CASE Advance("SecurityGate failed") /\ UNCHANGED report
    BY <2>2 DEF Advance, IInv, TypeOK
  <2> QED
    BY <2>1, <2>2 DEF Scan
<1>2. n \in Nodes
  BY DEF Nodes, Models, Failed
<1>3. snap.valid /\ snap.flaws = {} /\ UNCHANGED <<snap, clicks, faults>>
  BY DEF Scan, IInv, CheckedCode
<1> QED
  BY <1>1, <1>2, <1>3, LeaveIInv, Persisted

(* People move the run between its nodes. *)
LEMMA PeopleIInv == ASSUME IInv, Decide \/ RetryFailed PROVE IInv'
<1>1. \/ Leave("GeneratePRD", 0) \/ Leave("WriteCode", 0)
      \/ Leave("SecurityGate", 0) /\ node = "SecurityGate failed"
  <2>1. CASE Decide
    BY <2>1 DEF Decide, Advance
  <2>2. CASE RetryFailed
    BY <2>2 DEF RetryFailed, Advance, Failed
  <2> QED
    BY <2>1, <2>2
<1>2. {"GeneratePRD", "WriteCode", "SecurityGate"} \subseteq Nodes
  BY DEF Nodes, Models
<1>3. UNCHANGED <<snap, report, faults>>
  BY DEF Decide, RetryFailed
<1>4. clicks' = clicks \/ (clicks < MaxClicks /\ clicks' = clicks + 1)
  BY DEF Decide, RetryFailed
<1>5. clicks' \in 0..MaxClicks
  BY <1>4, BoundsAssumption DEF IInv, TypeOK
<1>6. CASE Leave("GeneratePRD", 0)
  BY <1>2, <1>3, <1>5, <1>6, LeaveIInv, Persisted
<1>7. CASE Leave("WriteCode", 0)
  BY <1>2, <1>3, <1>5, <1>7, LeaveIInv, Persisted
<1>8. CASE Leave("SecurityGate", 0) /\ node = "SecurityGate failed"
  <2>1. snap'.valid /\ snap'.flaws = {}
    BY <1>3, <1>8 DEF IInv, ScannedAgain
  <2> QED
    BY <1>2, <1>3, <1>5, <1>8, <2>1, LeaveIInv, Persisted
<1> QED
  BY <1>1, <1>6, <1>7, <1>8

(* Crash keeps IInv. *)
LEMMA CrashIInv == ASSUME IInv, Crash PROVE IInv'
<1>1. exec' = Idle /\ UNCHANGED <<node, retry_count, job, snap, report, clicks>>
      /\ faults' \in 0..MaxFaults
  BY BoundsAssumption DEF Crash, IInv, TypeOK
<1>2. TypeOK'
  BY <1>1, IdleExec DEF IInv, TypeOK
<1>3. ExecPlaced' /\ CallsCounted' /\ FilesAllowed' /\ PassedSound'
  BY <1>1, IdleExec DEF IInv, ExecPlaced, CallsCounted, FilesAllowed, PassedSound
<1>4. CheckedCode' /\ ScannedAgain'
  BY <1>1 DEF IInv, CheckedCode, ScannedAgain
<1> QED
  BY <1>2, <1>3, <1>4 DEF IInv

-----------------------------------------------------------------------------

(* Every step keeps the invariant. *)
LEMMA NextIInv == IInv /\ [Next]_vars => IInv'
<1> SUFFICES ASSUME IInv, [Next]_vars PROVE IInv'
  OBVIOUS
<1>1. CASE Start
  BY <1>1, StartIInv
<1>2. CASE Call
  BY <1>2, CallFailsIInv, CallRefusedIInv, UnparsableIInv, SpecifiedIInv, WrittenIInv DEF Call
<1>3. CASE Check \/ Deliver \/ Scan
  BY <1>3, CheckIInv, DeliverIInv, ScanIInv
<1>4. CASE Decide \/ RetryFailed
  BY <1>4, PeopleIInv
<1>5. CASE Crash
  BY <1>5, CrashIInv
<1>6. CASE UNCHANGED vars
  BY <1>6 DEF vars, IInv, TypeOK, ExecPlaced, CallsCounted, FilesAllowed, PassedSound,
              CheckedCode, ScannedAgain
<1> QED
  BY <1>1, <1>2, <1>3, <1>4, <1>5, <1>6 DEF Next, System

(* The invariant holds in every reachable state. *)
LEMMA IInvHolds == Spec => []IInv
<1>1. Init => IInv
  BY InitIInv
<1>2. IInv /\ [Next]_vars => IInv'
  BY NextIInv
<1> QED
  BY <1>1, <1>2, PTL DEF Spec

(* The variables keep their types, the retry count its limit. *)
THEOREM CodeGenerationTyped == Spec => []TypeOK
<1>1. IInv => TypeOK
  BY DEF IInv
<1> QED
  BY <1>1, IInvHolds, PTL

(* SecurityGate and the pull request get code that was checked as a whole     *)
(* (write_code.py:297).                                                       *)
THEOREM GateGetsCheckedCode == Spec => []CheckedCode
<1>1. IInv => CheckedCode
  BY DEF IInv
<1> QED
  BY <1>1, IInvHolds, PTL

(* However many attempts a call has, an execution makes no more calls than    *)
(* they, the parses and the phases allow.                                     *)
THEOREM ModelCallsBounded == Spec => []CallsBounded
<1>1. IInv => CallsBounded
  <2> SUFFICES ASSUME IInv PROVE CallsBounded
    OBVIOUS
  <2>1. exec.phase \in {1, 2, 3} /\ exec.parse \in {1, 2} /\ exec.attempt <= Attempts
    BY ExecFields
  <2>2. exec.calls <= exec.phase * 2 * Attempts
    <3>1. CASE exec.pc = "idle"
      <4>1. exec.calls = 0
        BY <3>1 DEF IInv, CallsCounted
      <4> QED
        BY <2>1, <4>1, ExecFields
    <3>2. CASE exec.pc = "call"
      <4>1. exec.calls <= ((exec.phase - 1) * 2 + exec.parse - 1) * Attempts + exec.attempt - 1
        BY <3>2 DEF IInv, CallsCounted
      <4>2. CASE exec.phase = 1
        BY <2>1, <4>1, <4>2, ExecFields
      <4>3. CASE exec.phase = 2
        BY <2>1, <4>1, <4>3, ExecFields
      <4>4. CASE exec.phase = 3
        BY <2>1, <4>1, <4>4, ExecFields
      <4> QED
        BY <2>1, <4>2, <4>3, <4>4
    <3>3. CASE exec.pc \in {"check", "passed", "refused"}
      BY <3>3 DEF IInv, CallsCounted
    <3> QED
      BY <3>1, <3>2, <3>3, ExecFields DEF Exec
  <2>3. CASE node = "GeneratePRD"
    <3>1. exec.phase = 1
      BY <2>3 DEF IInv, ExecPlaced
    <3>2. exec.calls <= Attempts * 2 * 1
      BY <2>2, <3>1, ExecFields
    <3> QED
      BY <2>3, <3>2 DEF CallsBounded, Attempts, MAX_PARSE_RETRIES
  <2>4. CASE node # "GeneratePRD"
    <3>1. exec.calls <= Attempts * 2 * 3
      <4>1. CASE exec.phase = 1
        BY <2>2, <4>1, ExecFields
      <4>2. CASE exec.phase = 2
        BY <2>2, <4>2, ExecFields
      <4>3. CASE exec.phase = 3
        BY <2>2, <4>3, ExecFields
      <4> QED
        BY <2>1, <4>1, <4>2, <4>3
    <3> QED
      BY <2>4, <3>1 DEF CallsBounded, Attempts, MAX_PARSE_RETRIES
  <2> QED
    BY <2>3, <2>4
<1> QED
  BY <1>1, IInvHolds, PTL

(* A check ends the phase, or has the repair begin. *)
LEMMA CheckEnds ==
  ASSUME IInv, Check
  PROVE  \/ exec'.phase = exec.phase /\ exec'.pc \in {"passed", "refused"}
         \/ exec'.phase = 3 /\ exec.phase = 2 /\ exec'.pc = "call"
<1>1. PICK lock \in Lock :
        \/ exec' \in {[exec EXCEPT !.locked = lock, !.pc = "passed"],
                      [exec EXCEPT !.locked = lock, !.pc = "refused"]}
        \/ exec' = [exec EXCEPT !.pc = "call", !.phase = 3] /\ exec.phase = 2
  BY CheckCases
<1>2. {"pc", "phase", "locked"} \subseteq DOMAIN exec
  BY ExecFields DEF Exec
<1> QED
  BY <1>1, <1>2

(* Between executions nothing is left of the last one. *)
Cleared == exec.pc = "idle" => exec.phase = 1

LEMMA ClearedStep ==
  ASSUME IInv, Cleared, [Next]_vars
  PROVE  Cleared'
<1>1. exec \in Exec /\ Idle.phase = 1
  BY IdleExec DEF IInv, TypeOK
<1>2. \/ exec' = Idle \/ exec' = exec
      \/ exec'.pc # "idle"
  <2>1. \A n, c : Leave(n, c) => exec' = Idle
    BY DEF Leave
  <2>2. CASE Start
    BY <2>2 DEF Start, Idle
  <2>3. ASSUME NEW profile \in {"default", "fallback"}, CallFails(profile)
        PROVE  exec' = Idle \/ exec'.pc # "idle"
    BY <1>1, <2>1, <2>3 DEF CallFails, RetryLater, Exec
  <2>4. CASE CallRefused \/ Unparsable \/ Specified
    BY <1>1, <2>1, <2>4 DEF CallRefused, Unparsable, Specified, FailNode, Advance, Exec
  <2>5. ASSUME NEW a \in Answer, Written(a) PROVE exec' = Idle \/ exec'.pc # "idle"
    <3>1. exec.pc = "call" /\ Merged(exec, a).pc = "call"
          /\ {"phase", "pc"} \subseteq DOMAIN Merged(exec, a)
      BY <1>1, <2>5 DEF Written, Merged, Exec
    <3>2. [Merged(exec, a) EXCEPT !.phase = 2].pc = "call" /\ Merge(Merged(exec, a)).pc = "check"
      BY <3>1 DEF Merge
    <3> QED
      BY <2>1, <2>5, <3>2 DEF Written, FailNode, Advance
  <2>6. CASE Check
    BY <1>1, <2>6, CheckEnds
  <2>7. CASE Deliver \/ Scan \/ Decide \/ RetryFailed
    BY <2>1, <2>7 DEF Deliver, Scan, Decide, RetryFailed, FailNode, Advance
  <2>8. CASE Crash \/ UNCHANGED vars
    BY <2>8 DEF Crash, vars
  <2> QED
    BY <2>2, <2>3, <2>4, <2>5, <2>6, <2>7, <2>8 DEF Next, System, Call
<1> QED
  BY <1>1, <1>2 DEF Cleared

(* A call of the model, whatever comes of it, takes the execution on. *)
LEMMA CallAdvances ==
  ASSUME IInv, Call, node' = node, exec' # exec
  PROVE  retry_count < retry_count' \/ (retry_count' = retry_count /\ Earlier(exec, exec'))
<1>1. /\ retry_count \in Nat /\ exec.phase \in {1, 2, 3} /\ exec.parse \in {1, 2}
      /\ exec.attempt \in Nat /\ exec.pc = "call"
  BY ExecFields DEF IInv, TypeOK, Call, CallFails, CallRefused, Unparsable, Specified, Written
<1>2. \A n, c : Leave(n, c) => n = node
  BY DEF Leave
<1>3. node # FailedNode
  BY <1>1 DEF FailedNode, IInv, ExecPlaced, Models
<1>4. ASSUME NEW profile \in {"default", "fallback"}, CallFails(profile)
      PROVE  retry_count < retry_count' \/ (retry_count' = retry_count /\ Earlier(exec, exec'))
  <2>1. CASE Attempt(exec.attempt, profile) > MAX_INTERNAL_RETRIES + 1
    BY <1>1, <1>2, <1>3, <1>4, <2>1 DEF CallFails, RetryLater, CountRetry
  <2>2. CASE ~ (Attempt(exec.attempt, profile) > MAX_INTERNAL_RETRIES + 1)
    <3>1. exec' = [exec EXCEPT !.attempt = exec.attempt + 1, !.calls = @ + 1]
      BY <1>4, <2>2 DEF CallFails, Attempt
    <3>2. /\ exec'.phase = exec.phase /\ exec'.pc = exec.pc /\ exec'.parse = exec.parse
          /\ exec'.attempt = exec.attempt + 1
      BY <3>1 DEF IInv, TypeOK, Exec
    <3> QED
      BY <1>1, <1>4, <2>2, <3>2 DEF CallFails, Earlier
  <2> QED
    BY <2>1, <2>2
<1>5. ~ CallRefused /\ ~ Specified
  BY <1>1, <1>2, <1>3 DEF CallRefused, Specified, FailNode, Advance
<1>6. CASE Unparsable
  <2>1. exec' = [exec EXCEPT !.parse = @ + 1, !.attempt = 1, !.calls = @ + 1]
        /\ retry_count' = retry_count
    BY <1>2, <1>3, <1>6 DEF Unparsable, FailNode, Advance
  <2>2. exec'.phase = exec.phase /\ exec'.pc = exec.pc /\ exec'.parse = exec.parse + 1
    BY <2>1 DEF IInv, TypeOK, Exec
  <2> QED
    BY <1>1, <2>1, <2>2 DEF Earlier
<1>7. ASSUME NEW a \in Answer, Written(a)
      PROVE  retry_count' = retry_count /\ Earlier(exec, exec')
  <2> DEFINE e == Merged(exec, a)
  <2>1. e.phase = exec.phase /\ e.pc = "call"
    BY <1>1 DEF Merged, IInv, TypeOK, Exec
  <2>2. /\ retry_count' = retry_count
        /\ \/ exec' = [e EXCEPT !.phase = 2] /\ e.phase = 1
           \/ exec' = Merge(e)
    BY <1>2, <1>3, <1>7 DEF Written, FailNode, Advance
  <2>3. DOMAIN e = DOMAIN exec /\ {"phase", "pc"} \subseteq DOMAIN exec
    BY DEF Merged, IInv, TypeOK, Exec
  <2>4. CASE exec' = [e EXCEPT !.phase = 2] /\ e.phase = 1
    <3>1. exec'.phase = 2
      BY <2>3, <2>4
    <3> QED
      BY <2>1, <2>2, <2>4, <3>1 DEF Earlier
  <2>5. CASE exec' = Merge(e)
    <3>1. exec'.phase = exec.phase /\ exec'.pc = "check"
      BY <2>1, <2>3, <2>5 DEF Merge
    <3> QED
      BY <1>1, <2>2, <3>1 DEF Earlier, Stage
  <2> QED
    BY <2>2, <2>4, <2>5
<1> QED
  BY <1>4, <1>5, <1>6, <1>7 DEF Call

(***************************************************************************)
(* A visit of a model node does not go in circles: every step but a crash  *)
(* takes the execution on, or uses up one of the retries, of which the     *)
(* types allow MAX_RETRIES + 1 (llm/client.py:180, retry.py:63).  With     *)
(* fairness, VisitsEnd.                                                    *)
(***************************************************************************)
THEOREM VisitsAdvance == Spec => VisitAdvances
<1>1. ASSUME IInv, Cleared, [Next]_vars, exec' # exec, node \in Models, node' = node, faults' = faults
      PROVE  retry_count < retry_count' \/ (retry_count' = retry_count /\ Earlier(exec, exec'))
  <2>1. exec.phase \in {1, 2, 3} /\ exec \in Exec
    BY <1>1, ExecFields DEF IInv, TypeOK
  <2>2. CASE Start
    <3>1. exec'.pc = "call" /\ exec'.phase = 1 /\ retry_count' = retry_count
      BY <2>2 DEF Start, Idle
    <3> QED
      BY <1>1, <2>1, <2>2, <3>1 DEF Start, Earlier, Stage, Cleared
  <2>3. CASE Check
    <3>1. exec.pc = "check" /\ retry_count' = retry_count
      BY <2>3 DEF Check
    <3>2. \/ exec'.phase = exec.phase /\ exec'.pc \in {"passed", "refused"}
          \/ exec'.phase = 3 /\ exec.phase = 2
      BY <1>1, <2>3, CheckEnds
    <3> QED
      BY <2>1, <3>1, <3>2 DEF Earlier, Stage
  <2>4. ~ Scan /\ ~ Decide /\ ~ RetryFailed
    BY <1>1 DEF Scan, Decide, RetryFailed, Models, Failed
  <2>5. ~ Crash
    BY <1>1 DEF Crash, IInv, TypeOK
  <2>6. ~ Deliver
    BY <1>1 DEF Deliver, Advance, Leave, FailNode, FailedNode, Models
  <2>7. CASE Call
    BY <1>1, <2>7, CallAdvances
  <2> QED
    BY <1>1, <2>2, <2>3, <2>4, <2>5, <2>6, <2>7 DEF Next, System, vars
<1>2. IInv /\ Cleared /\ [Next]_vars =>
        [exec' # exec /\ node \in Models /\ node' = node /\ faults' = faults
           => \/ retry_count < retry_count'
              \/ retry_count = retry_count' /\ Earlier(exec, exec')]_vars
  BY <1>1
<1>3. Init => Cleared
  BY DEF Init, Cleared, Idle
<1>4. IInv /\ Cleared /\ [Next]_vars => Cleared'
  BY ClearedStep
<1> QED
  BY <1>2, <1>3, <1>4, IInvHolds, PTL DEF Spec, VisitAdvances

=============================================================================
