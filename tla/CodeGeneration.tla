--------------------------- MODULE CodeGeneration ---------------------------
(***************************************************************************)
(* The nodes of one run that write with a language model, and the gate     *)
(* that sends a run back to one of them: GeneratePRD, WriteCode and        *)
(* SecurityGate with llm/client.py below them.  Engine takes a node as one *)
(* step; here every call of the model is one, with its attempts, the       *)
(* attempts to parse its answer, the phases and the repair, and the        *)
(* retries the engine schedules around all of it.                          *)
(***************************************************************************)
EXTENDS Integers, Sequences

CONSTANTS
  MAX_RETRIES,             \* retry.py: retry jobs of a node
  MAX_INTERNAL_RETRIES,    \* llm/client.py: attempts of a call after the first
  MaxClicks, MaxFaults     \* bounds: what people do, and crashes

ASSUME RetriesAssumption == {MAX_RETRIES, MAX_INTERNAL_RETRIES} \subseteq Nat
ASSUME BoundsAssumption == {MaxClicks, MaxFaults} \subseteq Nat

MAX_PARSE_RETRIES == 1

VARIABLES
  node,         \* current_node of the run
  retry_count,  \* of the run
  job,          \* the unprocessed retry job: "none", or the profile it asks for
  snap,         \* the newest code_snapshot of the run
  report,       \* the newest security_report of the run
  exec,         \* the execution of the current node
  clicks, faults

vars == <<node, retry_count, job, snap, report, exec, clicks, faults>>

Models == {"GeneratePRD", "WriteCode"}
Failed == {"GeneratePRD failed", "WriteCode failed", "SecurityGate failed"}
Nodes == Models \cup {"WaitPRDApproval", "SecurityGate", "PreparePR"} \cup Failed

(***************************************************************************)
(* A delta: what the model wrote at three paths that stand for the rest.   *)
(* app/page.tsx overrides a file of the template, and does not parse or    *)
(* imports lib/data.ts; lib/data.ts is new; package.json is a path the     *)
(* model may not write, seen alone.  "none": no such file in the answer.   *)
(***************************************************************************)
Path == {"app/page.tsx", "lib/data.ts", "package.json"}
Allowed == {"app/page.tsx", "lib/data.ts"}
Delta ==
  {d \in [Path -> {"none", "good", "broken", "importing"}] :
     /\ d["app/page.tsx"] # "good"
     /\ {d["lib/data.ts"], d["package.json"]} \subseteq {"none", "good"}
     /\ d["package.json"] = "good" => \A p \in Allowed : d[p] = "none"}
NoFiles == [p \in Path |-> "none"]

(* The packages an answer asks for beyond the template's. *)
Package == {"extra"}
Answer == [files : Delta, packages : SUBSET Package]

(* What package-lock.json pins; {}: there is no such file, as in the template. *)
Lock == SUBSET (Package \cup {"template"})

Flaw == {"syntax", "import", "unlocked", "protected"}
NoSnap == [valid |-> FALSE, flaws |-> {}, made |-> FALSE]

(***************************************************************************)
(* phase 1 and 2 are the chunks of _GENERATION_PHASES (GeneratePRD has     *)
(* only the first), 3 is the repair; attempt counts the calls of one       *)
(* generate_with_fallback, parse those, calls is a history of all of them. *)
(***************************************************************************)
Exec == [pc : {"idle", "call", "check", "passed", "refused"}, phase : 1..3,
         parse : 1..MAX_PARSE_RETRIES + 1, attempt : 1..MAX_INTERNAL_RETRIES + 1,
         calls : Nat, files : Delta, wanted : SUBSET Package, locked : Lock,
         why : {"default", "fallback"}, shown : BOOLEAN]
Idle == [pc |-> "idle", phase |-> 1, parse |-> 1, attempt |-> 1, calls |-> 0,
         files |-> NoFiles, wanted |-> {}, locked |-> {}, why |-> "default", shown |-> FALSE]

TypeOK ==
  /\ node \in Nodes
  /\ retry_count \in 0..MAX_RETRIES + 1
  /\ job \in {"none", "default", "fallback"}
  /\ snap \in [valid : BOOLEAN, flaws : SUBSET Flaw, made : BOOLEAN]
  /\ report \in {"none", "passed", "blocking"}
  /\ exec \in Exec
  /\ clicks \in 0..MaxClicks /\ faults \in 0..MaxFaults

Init ==
  /\ node = "GeneratePRD"
  /\ retry_count = 0 /\ job = "none"
  /\ snap = NoSnap /\ report = "none"
  /\ exec = Idle
  /\ clicks = 0 /\ faults = 0

-----------------------------------------------------------------------------
(* The engine around an execution. *)

(* The worker starts what stands at an actionable node, from its job if there *)
(* is one.  A snapshot is shown to the model only next to open findings.      *)
Start ==
  /\ exec.pc = "idle" /\ node \in Models
  /\ exec' = [Idle EXCEPT !.pc = "call", !.why = IF job = "fallback" THEN job ELSE "default",
                !.shown = (node = "WriteCode" /\ report = "blocking" /\ snap.made)]
  /\ UNCHANGED <<node, retry_count, job, snap, report, clicks, faults>>

Leave(n, count) ==
  /\ node' = n
  /\ retry_count' = count /\ job' = "none"
  /\ exec' = Idle

Advance(n) == Leave(n, 0)

FailedNode == IF node = "WriteCode" THEN "WriteCode failed" ELSE "GeneratePRD failed"

FailNode == Advance(FailedNode)

(* A mutant of CountRetry: the increment is lost with the session. *)
CountRetryLost(n) == n

CountRetry(n) == n + 1

(* A mutant of Exhausted: off by one. *)
ExhaustedLate(n) == n > MAX_RETRIES + 1

Exhausted(n) == n > MAX_RETRIES

(* A RetryableError of the handler: one more job, or the end of the run. *)
RetryLater(profile) ==
  IF Exhausted(CountRetry(retry_count))
  THEN Leave(FailedNode, CountRetry(retry_count))
  ELSE /\ retry_count' = CountRetry(retry_count)
       /\ job' = profile
       /\ exec' = Idle
       /\ UNCHANGED node

-----------------------------------------------------------------------------
(* One call of the model. *)

(* A mutant of Attempt: a rate limit does not count as an attempt. *)
AttemptFree(a, profile) == IF profile = "fallback" THEN a ELSE a + 1

Attempt(a, profile) == a + 1

(* The model the attempt goes to. *)
ProfileUsed(e) == IF e.attempt >= 3 THEN "fallback" ELSE "default"

(* A timeout ("default") or HTTP 429 ("fallback"): the next attempt, or, when *)
(* there is none left, a RetryableError or RateLimitError for the engine.     *)
CallFails(profile) ==
  LET next == Attempt(exec.attempt, profile) IN
  /\ exec.pc = "call"
  /\ IF next > MAX_INTERNAL_RETRIES + 1
     THEN RetryLater(profile)
     ELSE /\ exec' = [exec EXCEPT !.attempt = next, !.calls = @ + 1]
          /\ UNCHANGED <<node, retry_count, job>>
  /\ UNCHANGED <<snap, report, clicks, faults>>

(* Any other error of the provider, 5xx included, is an exception that ends   *)
(* the run at once; a template directory or a design that is missing is a     *)
(* failure of the node before any call.                                       *)
CallRefused ==
  /\ exec.pc = "call"
  /\ \/ Leave(FailedNode, retry_count)
     \/ exec.calls = 0 /\ FailNode
  /\ UNCHANGED <<snap, report, clicks, faults>>

(* A mutant of ParsesUsed: off by one. *)
ParsesUsedLate(n) == n > MAX_PARSE_RETRIES + 1

ParsesUsed(n) == n > MAX_PARSE_RETRIES

(* _generate_chunk asks again, once, and then gives up. *)
Unparsable ==
  /\ exec.pc = "call"
  /\ IF ParsesUsed(exec.parse)
     THEN FailNode
     ELSE /\ exec' = [exec EXCEPT !.parse = @ + 1, !.attempt = 1, !.calls = @ + 1]
          /\ UNCHANGED <<node, retry_count, job>>
  /\ UNCHANGED <<snap, report, clicks, faults>>

(* The PRD parses: it is persisted and shown. *)
Specified ==
  /\ exec.pc = "call" /\ node = "GeneratePRD"
  /\ Advance("WaitPRDApproval")
  /\ UNCHANGED <<snap, report, clicks, faults>>

-----------------------------------------------------------------------------
(* WriteCode: phases, merge, validation and repair. *)

Merged(e, a) ==
  [e EXCEPT !.files = [p \in Path |->
                         IF a.files[p] # "none" /\ p \in Allowed THEN a.files[p] ELSE @[p]],
            !.wanted = @ \cup a.packages,
            !.parse = 1, !.attempt = 1, !.calls = @ + 1]

(* A mutant of Merge: what the repair wrote is not validated again. *)
MergeTrusting(e) == [e EXCEPT !.pc = IF e.phase = 3 THEN "passed" ELSE "check"]

(* All files are there: the tree is to be resolved, validated and built. *)
Merge(e) == [e EXCEPT !.pc = "check"]

(* Another part of the code parses.  merge_project may fail, which leaves nothing. *)
Written(a) ==
  LET e == Merged(exec, a) IN
  /\ exec.pc = "call" /\ node = "WriteCode"
  /\ CASE e.phase = 1 -> /\ exec' = [e EXCEPT !.phase = 2]
                         /\ UNCHANGED <<node, retry_count, job>>
       [] e.phase = 2 /\ e.files = NoFiles -> FailNode
       [] e.phase = 3 /\ a.files = NoFiles -> FailNode
       [] OTHER -> \/ exec' = Merge(e) /\ UNCHANGED <<node, retry_count, job>>
                   \/ FailNode
  /\ UNCHANGED <<snap, report, clicks, faults>>

(* What is wrong with the template under the delta of e. *)
Flaws(e) ==
  {x \in Flaw :
     \/ x = "syntax" /\ e.files["app/page.tsx"] = "broken"
     \/ x = "import" /\ e.files["app/page.tsx"] = "importing" /\ e.files["lib/data.ts"] = "none"
     \/ x = "unlocked" /\ e.locked # {"template"} \cup e.wanted
     \/ x = "protected" /\ \E p \in Path \ Allowed : e.files[p] # "none"}

(* _check_jsts_syntax, _check_jsts_imports: no look at who wrote a file. *)
Invalid(e) == Flaws(e) \cap {"syntax", "import"} # {}

(***************************************************************************)
(* _resolve_npm_package_files: npm writes package.json anew with every     *)
(* package asked for so far, and a package-lock.json next to it; when it   *)
(* fails the files stay those of the merge, which has no lock.             *)
(***************************************************************************)
Locked(e, resolved) == IF resolved THEN {"template"} \cup e.wanted ELSE {}

(***************************************************************************)
(* npm resolves the packages; only then does the build run; the snapshot   *)
(* is validated in any case.  npm and the build fail for any reason: a     *)
(* package nobody published, a timeout, no npm on the server, a type error.*)
(***************************************************************************)
Check ==
  /\ exec.pc = "check"
  /\ \E resolved, built \in BOOLEAN :
       LET e == [exec EXCEPT !.locked = Locked(exec, resolved)]
           errors == ~resolved \/ ~built \/ Invalid(e)
       IN exec' = CASE ~errors -> [e EXCEPT !.pc = "passed"]
                    [] errors /\ e.phase = 2 -> [exec EXCEPT !.pc = "call", !.phase = 3]
                    [] OTHER -> [e EXCEPT !.pc = "refused"]
  /\ UNCHANGED <<node, retry_count, job, snap, report, clicks, faults>>

(* The snapshot is persisted either way; flaws (history): what is wrong with *)
(* one that is recorded as valid.                                            *)
Deliver ==
  /\ exec.pc \in {"passed", "refused"}
  /\ snap' = [valid |-> exec.pc = "passed", made |-> TRUE,
              flaws |-> IF exec.pc = "passed" THEN Flaws(exec) ELSE {}]
  /\ IF exec.pc = "passed" THEN Advance("SecurityGate") ELSE FailNode
  /\ UNCHANGED <<report, clicks, faults>>

(* A failure of a scanner fails the run and leaves no report. *)
Scan ==
  /\ node = "SecurityGate"
  /\ \/ \E r \in {"passed", "blocking"} :
          /\ report' = r
          /\ Advance(IF r = "passed" THEN "PreparePR" ELSE "WriteCode")
     \/ Advance("SecurityGate failed") /\ UNCHANGED report
  /\ UNCHANGED <<snap, clicks, faults>>

-----------------------------------------------------------------------------
(* People, and crashes. *)

(* The PRD and then the design are approved, or the PRD is rejected. *)
Decide ==
  /\ node = "WaitPRDApproval"
  /\ \/ Advance("WriteCode") /\ UNCHANGED clicks
     \/ clicks < MaxClicks /\ clicks' = clicks + 1 /\ Advance("GeneratePRD")
  /\ UNCHANGED <<snap, report, faults>>

RetryFailed ==
  /\ node \in Failed
  /\ clicks < MaxClicks /\ clicks' = clicks + 1
  /\ Advance(CASE node = "GeneratePRD failed" -> "GeneratePRD"
               [] node = "WriteCode failed" -> "WriteCode"
               [] node = "SecurityGate failed" -> "SecurityGate")
  /\ UNCHANGED <<snap, report, faults>>

(* The transaction of the execution is lost, its job is still to be done. *)
Crash ==
  /\ exec.pc # "idle"
  /\ faults < MaxFaults /\ faults' = faults + 1
  /\ exec' = Idle
  /\ UNCHANGED <<node, retry_count, job, snap, report, clicks>>

Call ==
  \/ \E profile \in {"default", "fallback"} : CallFails(profile)
  \/ CallRefused \/ Unparsable \/ Specified
  \/ \E a \in Answer : Written(a)

System == Start \/ Call \/ Check \/ Deliver \/ Scan

Next == System \/ Decide \/ RetryFailed \/ Crash

Spec == Init /\ [][Next]_vars

(* The worker polls for ever, and every call of the model and every command *)
(* has a timeout.                                                           *)
FairSpec == Spec /\ WF_vars(System)

-----------------------------------------------------------------------------
(* What SecurityGate scans, and a pull request publishes, is a tree that was  *)
(* validated and built as a whole, the repair included, and pins every        *)
(* package a phase or the repair asked for (write_code.py:282-371).           *)
CheckedCode == node \in {"SecurityGate", "PreparePR"} => snap.valid /\ snap.flaws = {}

(* One execution calls the model at most as often as the attempts, the parse  *)
(* retries and the phases allow (llm/client.py:180, write_code.py:656): with  *)
(* the code's own limits 8 times in GeneratePRD and 24 in WriteCode.          *)
CallsBounded ==
  exec.calls <= (MAX_INTERNAL_RETRIES + 1) * (MAX_PARSE_RETRIES + 1)
                * (IF node = "GeneratePRD" THEN 1 ELSE 3)

(* A visit of a model node ends, with a result or a failed run, whatever the  *)
(* model and npm answer (schedule_retry, retry.py:63).                        *)
VisitsEnd == \A n \in Models : node = n ~> node # n

(* How far an execution is: phase by phase, parse by parse, attempt by attempt. *)
Stage == [idle |-> 0, call |-> 1, check |-> 2, passed |-> 3, refused |-> 3]
Earlier(e, f) ==
  \/ e.phase < f.phase
  \/ e.phase = f.phase /\ Stage[e.pc] < Stage[f.pc]
  \/ /\ e.phase = f.phase /\ e.pc = f.pc
     /\ e.parse < f.parse \/ (e.parse = f.parse /\ e.attempt < f.attempt)

(* A visit of a model node does not go in circles: through the retries of all *)
(* four levels every step but a crash takes the execution on, or uses up one  *)
(* of the retries of the run (llm/client.py:180, retry.py:63).                *)
VisitAdvances ==
  [][exec' # exec /\ node \in Models /\ node' = node /\ faults' = faults
       => \/ retry_count < retry_count'
          \/ retry_count = retry_count' /\ Earlier(exec, exec')]_vars

(***************************************************************************)
(* What the repository says and TLC refutes.                               *)
(***************************************************************************)

(* "Signals the engine to switch to the fallback model profile before         *)
(* retrying" (retry.py:31): a retry after a rate limit uses that profile.     *)
RateLimitHeard == exec.pc = "call" /\ exec.why = "fallback" => ProfileUsed(exec) = "fallback"

(* "Persist the snapshot even though it's invalid, so the next loop can read  *)
(* the errors and code" (write_code.py:392): the next execution is shown it.  *)
LessonsRead == exec.pc = "call" /\ node = "WriteCode" /\ snap.made /\ ~snap.valid => exec.shown

=============================================================================
