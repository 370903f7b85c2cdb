--------------------------- MODULE PreparePRProofs --------------------------
(***************************************************************************)
(* PreparePR delivers the code of a run once: the flow implements Delivery *)
(* for any number of runs, acts of people and faults, if people keep out   *)
(* of the two windows.  Its types, and the repository it made, it keeps    *)
(* whatever people do.                                                     *)
(***************************************************************************)
EXTENDS PreparePR, SequenceTheorems, TLAPS

-----------------------------------------------------------------------------
(* The invariant. *)

(* An invocation is of a run at the node. *)
Busy == \A r \in Run : pc[r] # "idle" => node[r] = "PreparePR"

(* Of the pull requests of a run, at most one is not closed. *)
Sole ==
  \A m, n \in DOMAIN pulls :
    /\ pulls[m].run = pulls[n].run
    /\ pulls[m].state # "closed" /\ pulls[n].state # "closed"
    => m = n

(* Who is about to push or to open one has found none merged. *)
Unmerged ==
  \A r \in Run : Opening(r) =>
    \A n \in DOMAIN pulls : pulls[n].run = r => pulls[n].state # "merged"

(* The number an invocation holds is that of a pull request of its run. *)
Held ==
  \A r \in Run : Holding(r) =>
    mine[r].pr \in DOMAIN pulls /\ pulls[mine[r].pr].run = r

(* What was merged, what an invocation is about to report, and what was    *)
(* reported, has landed.                                                   *)
Merged == \A n \in DOMAIN pulls : pulls[n].state = "merged" => pulls[n].run \in landed
Backed ==
  \A r \in Run :
    pc[r] = "success" \/ node[r] = "WaitDeployApproval" => r \in landed

Inv == TypeOK /\ Busy /\ Sole /\ Unmerged /\ Held /\ Merged /\ Backed

-----------------------------------------------------------------------------
(* What a request or a person does to the pull requests. *)

(* The pull requests, by their numbers. *)
LEMMA PullTypes ==
  ASSUME TypeOK
  PROVE  /\ pulls \in Seq(Pull) /\ Len(pulls) \in Nat /\ DOMAIN pulls = 1..Len(pulls)
         /\ \A n \in DOMAIN pulls :
              pulls[n] \in Pull /\ pulls[n].run \in Run /\ pulls[n].state \in PullState
<1>1. pulls \in Seq(Pull) /\ Len(pulls) \in Nat /\ DOMAIN pulls = 1..Len(pulls)
  BY LenProperties DEF TypeOK, HubTypeOK
<1>2. \A n \in DOMAIN pulls : pulls[n] \in Pull
  BY <1>1, ElementOfSeq
<1> QED
  BY <1>1, <1>2 DEF Pull

(* What opening a pull request adds. *)
LEMMA Opened ==
  ASSUME TypeOK, NEW r \in Run, MakePull(r)
  PROVE  /\ pulls' \in Seq(Pull)
         /\ DOMAIN pulls' = DOMAIN pulls \cup {Len(pulls) + 1}
         /\ Len(pulls) + 1 \notin DOMAIN pulls
         /\ Len(pulls) + 1 \in Nat \ {0}
         /\ \A n \in DOMAIN pulls : pulls'[n] = pulls[n]
         /\ pulls'[Len(pulls) + 1] = [run |-> r, state |-> "open"]
<1>1. pulls \in Seq(Pull) /\ Len(pulls) \in Nat /\ DOMAIN pulls = 1..Len(pulls)
  BY LenProperties DEF TypeOK, HubTypeOK
<1>2. [run |-> r, state |-> "open"] \in Pull
  BY DEF Pull, PullState
<1>3. pulls' = Append(pulls, [run |-> r, state |-> "open"])
  BY DEF MakePull
<1>4. pulls' \in Seq(Pull) /\ Len(pulls') = Len(pulls) + 1
  BY <1>1, <1>2, <1>3, AppendProperties
<1>5. DOMAIN pulls' = 1..(Len(pulls) + 1)
  BY <1>4, LenProperties
<1>6. \A n \in 1..Len(pulls) : pulls'[n] = pulls[n]
  BY <1>1, <1>2, <1>3, AppendProperties
<1>7. pulls'[Len(pulls) + 1] = [run |-> r, state |-> "open"]
  BY <1>1, <1>2, <1>3, AppendProperties
<1> QED
  BY <1>1, <1>4, <1>5, <1>6, <1>7

(* What closing or merging one changes. *)
LEMMA Changed ==
  ASSUME TypeOK, NEW n \in DOMAIN pulls, NEW s \in PullState,
         pulls' = [pulls EXCEPT ![n].state = s]
  PROVE  /\ pulls' \in Seq(Pull)
         /\ DOMAIN pulls' = DOMAIN pulls
         /\ \A m \in DOMAIN pulls :
              /\ pulls'[m].run = pulls[m].run
              /\ pulls'[m].state = IF m = n THEN s ELSE pulls[m].state
         /\ pulls[n].run \in Run
<1> DEFINE e == [pulls[n] EXCEPT !.state = s]
<1>1. pulls \in Seq(Pull) /\ DOMAIN pulls = 1..Len(pulls)
  BY LenProperties DEF TypeOK, HubTypeOK
<1>2. pulls[n] \in Pull
  BY <1>1, ElementOfSeq
<1>3. e \in Pull /\ e.run = pulls[n].run /\ e.state = s
  BY <1>2 DEF Pull
<1>4. pulls' = [pulls EXCEPT ![n] = e]
  OBVIOUS
<1>5. /\ pulls' \in Seq(Pull)
      /\ \A j \in 1..Len(pulls) : pulls'[j] = IF j = n THEN e ELSE pulls[j]
  BY <1>1, <1>3, <1>4, ExceptSeq
<1>6. DOMAIN pulls' = DOMAIN pulls
  BY <1>4
<1> QED
  BY <1>1, <1>2, <1>3, <1>5, <1>6 DEF Pull

-----------------------------------------------------------------------------
(* The invariant holds at first, and every step preserves it. *)

(* The start satisfies Inv. *)
LEMMA InitInv == Init => Inv
<1> SUFFICES ASSUME Init PROVE Inv
  OBVIOUS
<1> USE DEF Init, HubInit
<1>0. pulls \in Seq(Pull)
  BY EmptySeq
<1>1. TypeOK
  <2>1. hands \in 0..MaxHands /\ faults \in 0..MaxFaults
    BY MaxHandsAssumption, MaxFaultsAssumption
  <2>2. HubTypeOK
    BY <1>0, <2>1 DEF HubTypeOK
  <2>3. NoSession \in Session
    BY DEF NoSession, Session
  <2> QED
    BY <2>1, <2>2, <2>3 DEF TypeOK, Calls, Endings
<1>2. Busy /\ Unmerged /\ Held /\ Backed
  BY DEF Busy, Unmerged, Held, Backed, Opening, Holding, NoSession
<1>3. Sole /\ Merged
  BY DEF Sole, Merged
<1> QED
  BY <1>1, <1>2, <1>3 DEF Inv

(* Types of what a step leaves at GitHub. *)
LEMMA HubTypes ==
  ASSUME TypeOK, hub' = hub, hands' \in 0..MaxHands
  PROVE  HubTypeOK'
  BY DEF TypeOK, HubTypeOK, hub, Pull, PullState

(* A merge keeps the types. *)
LEMMA MergeTypes ==
  ASSUME TypeOK, NEW n, MergePull(n), hands' \in 0..MaxHands
  PROVE  HubTypeOK'
<1>1. n \in DOMAIN pulls /\ "merged" \in PullState
  BY DEF MergePull, PullState
<1>2. pulls' = [pulls EXCEPT ![n].state = "merged"]
  BY DEF MergePull
<1>3. pulls' \in Seq(Pull) /\ pulls[n].run \in Run
  BY <1>1, <1>2, Changed
<1> QED
  BY <1>3 DEF MergePull, TypeOK, HubTypeOK

(* Opening a pull request keeps the types. *)
LEMMA OpenTypes ==
  ASSUME TypeOK, NEW r \in Run, MakePull(r), hands' \in 0..MaxHands
  PROVE  HubTypeOK'
<1>1. pulls' \in Seq(Pull)
  BY Opened
<1> QED
  BY <1>1 DEF MakePull, TypeOK, HubTypeOK

(* A step for one run that leaves the pull requests alone.                 *)
LEMMA Quiet ==
  ASSUME Inv, NEW r \in Run, TypeOK',
         pulls' = pulls, landed' = landed,
         \A q \in Run \ {r} : pc'[q] = pc[q] /\ mine'[q] = mine[q] /\ node'[q] = node[q],
         pc'[r] # "idle" => node'[r] = "PreparePR",
         pc'[r] \in {"push", "open"} =>
           \/ pc[r] \in {"push", "open"}
           \/ \A n \in DOMAIN pulls : pulls[n].run = r => pulls[n].state # "merged",
         mine'[r].pr # 0 =>
           \/ mine'[r].pr = mine[r].pr
           \/ mine'[r].pr \in DOMAIN pulls /\ pulls[mine'[r].pr].run = r,
         pc'[r] = "success" \/ node'[r] = "WaitDeployApproval" => r \in landed
  PROVE  Inv'
<1>1. Busy'
  BY DEF Inv, Busy
<1>2. Sole' /\ Merged'
  BY DEF Inv, Sole, Merged
<1>3. Unmerged'
  BY DEF Inv, Unmerged, Opening
<1>4. Held'
  BY DEF Inv, Held, Holding
<1>5. Backed'
  BY DEF Inv, Backed
<1> QED
  BY <1>1, <1>2, <1>3, <1>4, <1>5 DEF Inv

(* A step of an invocation that only moves it and changes what it holds.   *)
LEMMA Moves ==
  ASSUME Inv, NEW r \in Run, NEW from, NEW to,
         Goto(r, from, to), from # "idle",
         HubTypeOK', pulls' = pulls, landed' = landed,
         UNCHANGED <<hands, auth, database, faults>>,
         to \in Calls \cup Endings,
         NEW s \in Session, mine' = [mine EXCEPT ![r] = s],
         s.pr # 0 =>
           \/ s.pr = mine[r].pr
           \/ s.pr \in DOMAIN pulls /\ pulls[s.pr].run = r,
         to \in {"push", "open"} =>
           \/ from \in {"push", "open"}
           \/ \A n \in DOMAIN pulls : pulls[n].run = r => pulls[n].state # "merged",
         to = "success" => r \in landed
  PROVE  Inv'
<1> USE DEF Goto, database
<1>1. TypeOK'
  BY DEF Inv, TypeOK
<1>2. node[r] = "PreparePR"
  BY DEF Inv, Busy
<1>3. pc'[r] = to /\ mine'[r] = s
  BY DEF Inv, TypeOK
<1>4. \A q \in Run \ {r} : pc'[q] = pc[q] /\ mine'[q] = mine[q]
  BY DEF Inv, TypeOK
<1>5. pc[r] = from /\ node' = node
  OBVIOUS
<1> QED
  BY <1>1, <1>2, <1>3, <1>4, <1>5, Quiet

(* A session's columns, one by one. *)
LEMMA Keeps ==
  ASSUME TypeOK, NEW r \in Run
  PROVE  mine[r] \in Session /\ mine = [mine EXCEPT ![r] = mine[r]]
  BY DEF TypeOK

(* A pull request is merged; no invocation enters a window or takes up a   *)
(* number, and only an invocation of its run goes to success.              *)
LEMMA Merges ==
  ASSUME Inv, TypeOK', NEW n, MergePull(n), node' = node,
         \A q \in Run :
           /\ pc'[q] # "idle" => node[q] = "PreparePR"
           /\ Opening(q)' => Opening(q) /\ q # pulls[n].run
           /\ mine'[q].pr = mine[q].pr
           /\ pc'[q] = "success" => pc[q] = "success" \/ q = pulls[n].run
  PROVE  Inv'
<1> USE DEF MergePull, Inv
<1>1. "merged" \in PullState
  BY DEF PullState
<1>2. /\ DOMAIN pulls' = DOMAIN pulls
      /\ \A m \in DOMAIN pulls :
           /\ pulls'[m].run = pulls[m].run
           /\ pulls'[m].state = IF m = n THEN "merged" ELSE pulls[m].state
  BY <1>1, Changed
<1>3. Busy'
  BY DEF Busy
<1>4. Sole'
  BY <1>2 DEF Sole
<1>5. Unmerged'
  BY <1>2 DEF Unmerged
<1>6. Held'
  BY <1>2 DEF Held, Holding
<1>7. Merged' /\ Backed'
  BY <1>2 DEF Merged, Backed
<1> QED
  BY <1>3, <1>4, <1>5, <1>6, <1>7

(* A pull request is opened for a run that has none that is not closed.    *)
LEMMA Opens ==
  ASSUME Inv, TypeOK', NEW r \in Run, MakePull(r), Opening(r), node' = node,
         \A q \in Run :
           /\ pc'[q] # "idle" => node[q] = "PreparePR"
           /\ Opening(q)' => Opening(q)
           /\ mine'[q].pr # mine[q].pr => q = r /\ mine'[q].pr = Len(pulls) + 1
           /\ pc'[q] = "success" => pc[q] = "success"
  PROVE  Inv'
<1> USE DEF Inv
<1> DEFINE k == Len(pulls) + 1
<1>1. /\ DOMAIN pulls' = DOMAIN pulls \cup {k}
      /\ k \notin DOMAIN pulls
      /\ \A n \in DOMAIN pulls : pulls'[n] = pulls[n]
      /\ pulls'[k] = [run |-> r, state |-> "open"]
  BY Opened
<1>2. \A n \in DOMAIN pulls : pulls[n].run = r => pulls[n].state = "closed"
  BY PullTypes DEF MakePull, OpenPulls, PullsOf, Unmerged, PullState
<1>3. landed' = landed
  BY DEF MakePull
<1> HIDE DEF k
<1>4. Busy'
  BY DEF Busy
<1>5. Sole'
  BY <1>1, <1>2 DEF Sole
<1>6. Unmerged'
  BY <1>1 DEF Unmerged
<1>7. Held'
  BY <1>1 DEF Held, Holding, k
<1>8. Merged' /\ Backed'
  BY <1>1, <1>3 DEF Merged, Backed
<1> QED
  BY <1>4, <1>5, <1>6, <1>7, <1>8

-----------------------------------------------------------------------------
(* The steps of the flow. *)

(* Start keeps Inv. *)
LEMMA StartInv ==
  ASSUME Inv, NEW r \in Run, Start(r), UNCHANGED <<hands, auth, database, faults>>
  PROVE  Inv'
<1> USE DEF Start, Goto, database, hub
<1>1. pc'[r] \in {"failure", "branch", "create"} /\ pc' = [pc EXCEPT ![r] = pc'[r]]
  BY DEF Inv, TypeOK
<1>2. mine'[r] \in Session /\ mine'[r].pr = 0
  BY DEF Inv, TypeOK, Session
<1>3. mine' \in [Run -> Session] /\ \A q \in Run \ {r} : mine'[q] = mine[q]
  BY <1>2 DEF Inv, TypeOK
<1>4. TypeOK'
  BY <1>1, <1>3, HubTypes DEF Inv, TypeOK, HubTypeOK, Calls, Endings
<1>5. \A q \in Run \ {r} : pc'[q] = pc[q]
  BY <1>1 DEF Inv, TypeOK
<1> QED
  BY <1>1, <1>2, <1>3, <1>4, <1>5, Quiet DEF Inv, Backed

(* The other steps but those that open or merge a pull request. *)
LEMMA MovesInv ==
  ASSUME Inv, NEW r \in Run, UNCHANGED <<hands, auth, database, faults>>,
         NEW from \in Calls, NEW to \in Calls \cup Endings,
         Goto(r, from, to), UNCHANGED mine,
         HubTypeOK', pulls' = pulls, landed' = landed,
         to \in {"push", "open"} =>
           \/ from \in {"push", "open"}
           \/ \A n \in DOMAIN pulls : pulls[n].run = r => pulls[n].state # "merged",
         to = "success" => r \in landed
  PROVE  Inv'
<1>1. mine[r] \in Session /\ mine' = [mine EXCEPT ![r] = mine[r]]
  BY Keeps DEF Inv
<1>2. from # "idle"
  BY DEF Calls
<1> QED
  BY <1>1, <1>2, Moves

(* CreateRepo keeps Inv. *)
LEMMA CreateRepoInv ==
  ASSUME Inv, NEW r \in Run, CreateRepo(r), UNCHANGED <<hands, auth, database, faults>>
  PROVE  Inv'
<1>1. CASE Goto(r, "create", "save") /\ MakeRepo /\ UNCHANGED mine
  <2>1. HubTypeOK' /\ pulls' = pulls /\ landed' = landed
    BY <1>1, PullTypes DEF MakeRepo, Inv, TypeOK, HubTypeOK
  <2> QED
    BY <1>1, <2>1, MovesInv DEF Calls
<1>2. CASE Goto(r, "create", "failure") /\ Reads(r)
  BY <1>2, HubTypes, MovesInv DEF Reads, hub, Calls, Endings, Inv, TypeOK, HubTypeOK
<1> QED
  BY <1>1, <1>2 DEF CreateRepo

(* SaveUrl keeps Inv. *)
LEMMA SaveUrlInv ==
  ASSUME Inv, NEW r \in Run, SaveUrl(r), UNCHANGED <<hands, auth, database, faults>>
  PROVE  Inv'
<1> DEFINE s == [mine[r] EXCEPT !.url = TRUE]
<1>1. mine[r] \in Session /\ s \in Session /\ s.pr = mine[r].pr
  BY DEF Inv, TypeOK, Session
<1>2. mine' = [mine EXCEPT ![r] = s]
  BY DEF SaveUrl
<1>3. HubTypeOK' /\ pulls' = pulls /\ landed' = landed
  BY HubTypes DEF SaveUrl, hub, Inv, TypeOK, HubTypeOK
<1>4. Goto(r, "save", "branch")
  BY DEF SaveUrl
<1>5. "branch" \in Calls \cup Endings /\ "branch" \notin {"push", "open", "success"}
  BY DEF Calls
<1>6. "save" # "idle"
  OBVIOUS
<1> HIDE DEF s
<1> QED
  BY <1>1, <1>2, <1>3, <1>4, <1>5, <1>6, Moves

(* EnsureBranch keeps Inv. *)
LEMMA EnsureBranchInv ==
  ASSUME Inv, NEW r \in Run, EnsureBranch(r), UNCHANGED <<hands, auth, database, faults>>
  PROVE  Inv'
<1>1. CASE Goto(r, "branch", "find") /\ MakeBranch(r) /\ UNCHANGED mine
  <2>1. HubTypeOK' /\ pulls' = pulls /\ landed' = landed
    BY <1>1, PullTypes DEF MakeBranch, Inv, TypeOK, HubTypeOK
  <2> QED
    BY <1>1, <2>1, MovesInv DEF Calls
<1>2. CASE /\ Goto(r, "branch", IF mine[r].recreate THEN "create" ELSE "failure")
           /\ mine' = [mine EXCEPT ![r].recreate = FALSE]
           /\ UNCHANGED hub
  <2> DEFINE s == [mine[r] EXCEPT !.recreate = FALSE]
             to == IF mine[r].recreate THEN "create" ELSE "failure"
  <2>1. s \in Session /\ s.pr = mine[r].pr
    BY DEF Inv, TypeOK, Session
  <2>2. mine' = [mine EXCEPT ![r] = s]
    BY <1>2
  <2>3. HubTypeOK' /\ pulls' = pulls /\ landed' = landed
    BY <1>2, HubTypes DEF hub, Inv, TypeOK, HubTypeOK
  <2>4. to \in {"create", "failure"} /\ Goto(r, "branch", to)
    BY <1>2
  <2> HIDE DEF s, to
  <2> QED
    BY <2>1, <2>2, <2>3, <2>4, Moves DEF Calls, Endings
<1> QED
  BY <1>1, <1>2 DEF EnsureBranch

(* FindClosed keeps Inv. *)
LEMMA FindClosedInv ==
  ASSUME Inv, NEW r \in Run, FindClosed(r), UNCHANGED <<hands, auth, database, faults>>
  PROVE  Inv'
<1> DEFINE to == CASE ~repo -> "failure"
                   [] repo /\ (PullsOf(r) = {} \/ OpenPulls(r) # {}) -> "push"
                   [] OTHER -> IF MergedPulls(r) # {} THEN "success" ELSE "failure"
<1>1. Goto(r, "find", to) /\ UNCHANGED <<hub, mine>>
  BY DEF FindClosed, Reads
<1>2. to \in {"failure", "push", "success"}
  OBVIOUS
<1>3. ASSUME to = "push", NEW n \in DOMAIN pulls, pulls[n].run = r
      PROVE  pulls[n].state # "merged"
  <2>1. OpenPulls(r) # {}
    BY <1>3 DEF PullsOf
  <2>2. PICK m \in DOMAIN pulls : pulls[m].run = r /\ pulls[m].state = "open"
    BY <2>1 DEF OpenPulls, PullsOf
  <2> QED
    BY <1>3, <2>2 DEF Inv, Sole
<1>4. to = "success" => r \in landed
  BY DEF MergedPulls, PullsOf, Inv, Merged
<1>5. HubTypeOK' /\ pulls' = pulls /\ landed' = landed
  BY <1>1, HubTypes DEF hub, Inv, TypeOK, HubTypeOK
<1> HIDE DEF to
<1> QED
  BY <1>1, <1>2, <1>3, <1>4, <1>5, MovesInv DEF Calls, Endings

(* Push keeps Inv. *)
LEMMA PushInv ==
  ASSUME Inv, NEW r \in Run, Push(r), UNCHANGED <<hands, auth, database, faults>>
  PROVE  Inv'
<1>1. CASE Goto(r, "push", "open") /\ PushFiles(r) /\ UNCHANGED mine
  <2>1. HubTypeOK' /\ pulls' = pulls /\ landed' = landed
    BY <1>1, PullTypes DEF PushFiles, Inv, TypeOK, HubTypeOK
  <2> QED
    BY <1>1, <2>1, MovesInv DEF Calls
<1>2. CASE Goto(r, "push", "failure") /\ Reads(r)
  BY <1>2, HubTypes, MovesInv DEF Reads, hub, Calls, Endings, Inv, TypeOK, HubTypeOK
<1> QED
  BY <1>1, <1>2 DEF Push

(* EnsurePull keeps Inv. *)
LEMMA EnsurePullInv ==
  ASSUME Inv, NEW r \in Run, EnsurePull(r), UNCHANGED <<hands, auth, database, faults>>
  PROVE  Inv'
<1> USE PullTypes DEF Inv
<1>1. ASSUME Goto(r, "open", "checks"), NEW n \in OpenPulls(r),
             mine' = [mine EXCEPT ![r].pr = n], UNCHANGED hub
      PROVE  Inv'
  <2> DEFINE s == [mine[r] EXCEPT !.pr = n]
  <2>1. n \in DOMAIN pulls /\ n \in Nat /\ pulls[n].run = r
    BY <1>1 DEF OpenPulls, PullsOf
  <2>2. s \in Session /\ s.pr = n
    BY <2>1 DEF TypeOK, Session
  <2>3. mine' = [mine EXCEPT ![r] = s]
    BY <1>1
  <2>4. HubTypeOK' /\ pulls' = pulls /\ landed' = landed
    BY <1>1, HubTypes DEF hub, TypeOK, HubTypeOK
  <2>5. "checks" \in Calls \cup Endings /\ "checks" \notin {"push", "open", "success"}
    BY DEF Calls
  <2>6. "open" # "idle"
    OBVIOUS
  <2> HIDE DEF s
  <2> QED
    BY <1>1, <2>1, <2>2, <2>3, <2>4, <2>5, <2>6, Moves
<1>2. CASE Goto(r, "open", "checks") /\ MakePull(r) /\ mine' = [mine EXCEPT ![r].pr = Len(pulls) + 1]
  <2>1. mine' \in [Run -> Session]
    <3>1. Len(pulls) + 1 \in Nat
      BY HubTypes DEF TypeOK, HubTypeOK
    <3>2. mine \in [Run -> Session]
      BY DEF TypeOK
    <3>3. [mine[r] EXCEPT !.pr = Len(pulls) + 1] \in Session
      BY <3>1, <3>2 DEF Session
    <3>4. mine' = [mine EXCEPT ![r] = [mine[r] EXCEPT !.pr = Len(pulls) + 1]]
      BY <1>2
    <3> QED
      BY <3>2, <3>3, <3>4
  <2>3. HubTypeOK'
    <3>1. hands' \in 0..MaxHands
      BY DEF TypeOK, HubTypeOK
    <3> QED
      BY <1>2, <3>1, OpenTypes
  <2>4. TypeOK'
    BY <1>2, <2>1, <2>3 DEF Goto, TypeOK, Calls, Endings, database
  <2>5. node' = node /\ Opening(r)
    BY <1>2 DEF database, Goto, Opening
  <2>6. ASSUME NEW q \in Run
        PROVE  /\ pc'[q] # "idle" => node[q] = "PreparePR"
               /\ Opening(q)' => Opening(q)
               /\ mine'[q].pr # mine[q].pr => q = r /\ mine'[q].pr = Len(pulls) + 1
               /\ pc'[q] = "success" => pc[q] = "success"
    BY <1>2 DEF Goto, Opening, TypeOK, Session, Busy
  <2> QED
    BY <1>2, <2>4, <2>5, <2>6, Opens
<1>3. CASE Goto(r, "open", "failure") /\ Reads(r)
  BY <1>3, HubTypes, MovesInv DEF Reads, hub, Calls, Endings, TypeOK, HubTypeOK
<1> QED
  BY <1>1, <1>2, <1>3 DEF EnsurePull

(* PollChecks keeps Inv. *)
LEMMA PollChecksInv ==
  ASSUME Inv, NEW r \in Run, PollChecks(r), UNCHANGED <<hands, auth, database, faults>>
  PROVE  Inv'
<1>1. Verdict(r) \in {"merge", "failure"}
  BY DEF Verdict
<1>2. Goto(r, "checks", Verdict(r)) /\ UNCHANGED <<hub, mine>>
  BY DEF PollChecks, Reads
<1>3. HubTypeOK' /\ pulls' = pulls /\ landed' = landed
  BY <1>2, HubTypes DEF hub, Inv, TypeOK, HubTypeOK
<1> QED
  BY <1>1, <1>2, <1>3, MovesInv DEF Calls, Endings

(* Merge keeps Inv. *)
LEMMA MergeInv ==
  ASSUME Inv, NEW r \in Run, Merge(r), UNCHANGED <<hands, auth, database, faults>>
  PROVE  Inv'
<1> USE DEF Inv
<1>1. CASE Goto(r, "merge", "success") /\ MergePull(mine[r].pr) /\ UNCHANGED mine
  <2> DEFINE n == mine[r].pr
  <2>1. n \in DOMAIN pulls /\ pulls[n].run = r
    <3>1. n \in DOMAIN pulls /\ 0 \notin DOMAIN pulls
      BY <1>1, PullTypes DEF MergePull
    <3> QED
      BY <3>1 DEF Held, Holding
  <2>3. HubTypeOK'
    <3>1. hands' \in 0..MaxHands
      BY DEF TypeOK, HubTypeOK
    <3> QED
      BY <1>1, <3>1, MergeTypes
  <2>4. TypeOK'
    BY <1>1, <2>3 DEF Goto, TypeOK, Calls, Endings, database
  <2>5. ASSUME NEW q \in Run
        PROVE  /\ pc'[q] # "idle" => node[q] = "PreparePR"
               /\ Opening(q)' => Opening(q) /\ q # pulls[n].run
               /\ mine'[q].pr = mine[q].pr
               /\ pc'[q] = "success" => pc[q] = "success" \/ q = pulls[n].run
    BY <1>1, <2>1 DEF Goto, Opening, TypeOK, Busy
  <2>6. node' = node
    BY DEF database
  <2> HIDE DEF n, Inv
  <2> QED
    BY <1>1, <2>4, <2>5, <2>6, Merges DEF n
<1>2. CASE Goto(r, "merge", "failure") /\ Reads(r)
  BY <1>2, HubTypes, MovesInv DEF Reads, hub, Calls, Endings, TypeOK, HubTypeOK
<1> QED
  BY <1>1, <1>2 DEF Merge

(* Commit keeps Inv. *)
LEMMA CommitInv ==
  ASSUME Inv, NEW r \in Run, Commit(r), UNCHANGED <<hands, auth, faults>>
  PROVE  Inv'
<1> USE DEF Inv
<1>1. PICK n \in {"PreparePR", "WaitDeployApproval", "EndFailed"} :
        /\ node' = [node EXCEPT ![r] = n]
        /\ n = "WaitDeployApproval" => pc[r] = "success"
  BY DEF Commit, Endings
<1>2. NoSession \in Session /\ NoSession.pr = 0
  BY DEF NoSession, Session
<1>3. TypeOK'
  BY <1>1, <1>2, HubTypes DEF Commit, hub, TypeOK, HubTypeOK, Session
<1>4. pc'[r] = "idle" /\ mine'[r].pr = 0 /\ node'[r] = n
  BY <1>1, <1>2 DEF Commit, TypeOK
<1>5. \A q \in Run \ {r} : pc'[q] = pc[q] /\ mine'[q] = mine[q] /\ node'[q] = node[q]
  BY <1>1 DEF Commit, TypeOK
<1>6. pulls' = pulls /\ landed' = landed
  BY DEF Commit, hub
<1>7. node'[r] = "WaitDeployApproval" => r \in landed
  BY <1>1, <1>4 DEF Backed
<1> HIDE DEF Inv
<1> QED
  BY <1>3, <1>4, <1>5, <1>6, <1>7, Quiet

(* A run that arrives or is retried keeps Inv. *)
LEMMA ArriveRetryInv ==
  ASSUME Inv, NEW r \in Run, Arrive(r) \/ Retry(r), UNCHANGED <<hands, auth, faults>>
  PROVE  Inv'
<1> USE DEF Inv
<1>1. node' = [node EXCEPT ![r] = "PreparePR"] /\ UNCHANGED <<hub, pc, mine, url>>
  BY DEF Arrive, Retry
<1>2. TypeOK'
  BY <1>1, HubTypes DEF hub, TypeOK, HubTypeOK
<1>3. node'[r] = "PreparePR" /\ \A q \in Run \ {r} : node'[q] = node[q]
  BY <1>1 DEF TypeOK
<1>4. pulls' = pulls /\ landed' = landed
  BY <1>1 DEF hub
<1>5. pc'[r] = "success" => r \in landed
  BY <1>1 DEF Backed
<1> HIDE DEF Inv
<1> QED
  BY <1>1, <1>2, <1>3, <1>4, <1>5, Quiet

-----------------------------------------------------------------------------
(* Faults, people and CI. *)

(* A fault keeps Inv. *)
LEMMA FaultInv ==
  ASSUME Inv, NEW r \in Run, Fault(r)
  PROVE  Inv'
<1> USE DEF Inv
<1>1. faults' \in 0..MaxFaults
  BY MaxFaultsAssumption DEF Fault, TypeOK
<1>2. UNCHANGED <<hands, auth, node, url>> /\ hands' \in 0..MaxHands
  BY DEF Fault, database, TypeOK, HubTypeOK
<1>3. CASE Crash(r)
  <2>1. NoSession \in Session /\ NoSession.pr = 0
    BY DEF NoSession, Session
  <2>2. TypeOK'
    BY <1>1, <1>2, <1>3, <2>1, HubTypes DEF Crash, TypeOK
  <2>3. pc'[r] = "idle" /\ mine'[r].pr = 0
    BY <1>3, <2>1 DEF Crash, TypeOK
  <2>4. \A q \in Run \ {r} : pc'[q] = pc[q] /\ mine'[q] = mine[q] /\ node'[q] = node[q]
    BY <1>2, <1>3 DEF Crash, TypeOK
  <2>5. pulls' = pulls /\ landed' = landed
    BY <1>3 DEF Crash, hub
  <2>6. node'[r] = "WaitDeployApproval" => r \in landed
    BY <1>2 DEF Backed
  <2> HIDE DEF Inv
  <2> QED
    BY <2>2, <2>3, <2>4, <2>5, <2>6, Quiet
<1>4. ASSUME NEW to \in {"failure", "rate_limited"}, pc[r] \in Calls,
             pc' = [pc EXCEPT ![r] = to], UNCHANGED mine, HubTypeOK'
      PROVE  /\ TypeOK'
             /\ node[r] = "PreparePR"
             /\ \A q \in Run :
                  /\ pc'[q] = IF q = r THEN to ELSE pc[q]
                  /\ mine'[q] = mine[q] /\ node'[q] = node[q]
                  /\ pc'[q] # "idle" => node[q] = "PreparePR"
  <2>1. pc' \in [Run -> {"idle"} \cup Calls \cup Endings]
    BY <1>4 DEF TypeOK, Endings
  <2>2. TypeOK'
    BY <1>1, <1>2, <1>4, <2>1 DEF TypeOK
  <2>3. \A q \in Run : pc'[q] = IF q = r THEN to ELSE pc[q]
    BY <1>4 DEF TypeOK
  <2>4. node[r] = "PreparePR"
    BY <1>4 DEF Busy, Calls
  <2> QED
    BY <1>2, <1>4, <2>2, <2>3, <2>4 DEF Busy
<1>5. ASSUME NEW to \in {"failure", "rate_limited"}, pc[r] \in Calls,
             pc' = [pc EXCEPT ![r] = to], UNCHANGED mine,
             HubTypeOK', pulls' = pulls, landed' = landed
      PROVE  Inv'
  <2>1. node'[r] = "WaitDeployApproval" => r \in landed
    BY <1>2 DEF Backed
  <2>2. pc'[r] \notin {"push", "open", "success"} /\ TypeOK' /\ node'[r] = "PreparePR"
    BY <1>4, <1>5
  <2>3. \A q \in Run \ {r} : pc'[q] = pc[q] /\ mine'[q] = mine[q] /\ node'[q] = node[q]
    BY <1>4, <1>5
  <2> HIDE DEF Inv
  <2> QED
    BY <1>5, <2>1, <2>2, <2>3, Quiet
<1>6. CASE LoseAnswer(r)
  <2>1. pc[r] \in Calls /\ pc' = [pc EXCEPT ![r] = "failure"] /\ UNCHANGED mine
    BY <1>6 DEF LoseAnswer
  <2>2. CASE UNCHANGED hub
    BY <1>2, <1>5, <2>1, <2>2, HubTypes DEF hub
  <2>3. CASE MakeRepo \/ MakeBranch(r) \/ PushFiles(r)
    <3>1. HubTypeOK' /\ pulls' = pulls /\ landed' = landed
      BY <1>2, <2>3, PullTypes DEF MakeRepo, MakeBranch, PushFiles, TypeOK, HubTypeOK
    <3> QED
      BY <1>5, <2>1, <3>1
  <2>4. CASE pc[r] = "open" /\ MakePull(r)
    <3>1. HubTypeOK'
      BY <1>2, <2>4, OpenTypes
    <3>2. Opening(r)
      BY <2>4 DEF Opening
    <3> HIDE DEF Inv
    <3> QED
      BY <1>2, <1>4, <2>1, <2>4, <3>1, <3>2, Opens DEF Inv, Opening
  <2>5. CASE pc[r] = "merge" /\ MergePull(mine[r].pr)
    <3> DEFINE n == mine[r].pr
    <3>1. n \in DOMAIN pulls /\ 0 \notin DOMAIN pulls
      BY <2>5, PullTypes DEF MergePull
    <3>2. pulls[n].run = r
      BY <3>1 DEF Held, Holding
    <3>3. HubTypeOK'
      BY <1>2, <2>5, MergeTypes
    <3>4. ASSUME NEW q \in Run
          PROVE  /\ pc'[q] # "idle" => node[q] = "PreparePR"
                 /\ Opening(q)' => Opening(q) /\ q # pulls[n].run
                 /\ mine'[q].pr = mine[q].pr
                 /\ pc'[q] = "success" => pc[q] = "success" \/ q = pulls[n].run
      BY <1>4, <2>1, <3>2, <3>3 DEF Opening
    <3> HIDE DEF Inv, n
    <3> QED
      BY <1>2, <1>4, <2>1, <2>5, <3>3, <3>4, Merges DEF n
  <2> QED
    BY <1>6, <2>2, <2>3, <2>4, <2>5 DEF LoseAnswer, Effect
<1>7. CASE RateLimited(r)
  BY <1>2, <1>5, <1>7, HubTypes DEF RateLimited, Reads, hub
<1> QED
  BY <1>3, <1>6, <1>7 DEF Fault

(* People keep Inv, outside the two windows. *)
LEMMA PeopleInv ==
  ASSUME Inv, Racing = FALSE, People
  PROVE  Inv'
<1> USE DEF Inv
<1>1. UNCHANGED <<auth, node, url, pc, mine, faults>>
  BY DEF People, database
<1>2. ASSUME HubTypeOK' PROVE TypeOK'
  BY <1>1, <1>2 DEF TypeOK
<1>3. ASSUME NEW act, Hand(act) PROVE hands' \in 0..MaxHands
  BY <1>3, MaxHandsAssumption DEF Hand, TypeOK, HubTypeOK
<1>4. ASSUME NEW n \in DOMAIN pulls, ~ Opening(pulls[n].run), HumanMerge(n)
      PROVE  Inv'
  <2>1. MergePull(n) /\ TypeOK'
    BY <1>2, <1>3, <1>4, MergeTypes DEF HumanMerge
  <2>2. \A q \in Run :
          /\ pc'[q] # "idle" => node[q] = "PreparePR"
          /\ Opening(q)' => Opening(q) /\ q # pulls[n].run
          /\ mine'[q].pr = mine[q].pr
          /\ pc'[q] = "success" => pc[q] = "success" \/ q = pulls[n].run
    BY <1>1, <1>4 DEF Opening, Busy
  <2> HIDE DEF Inv
  <2> QED
    BY <1>1, <2>1, <2>2, Merges
<1>5. ASSUME NEW n \in DOMAIN pulls, HumanClose(n)
      PROVE  Inv'
  <2>1. pulls' = [pulls EXCEPT ![n].state = "closed"] /\ "closed" \in PullState
    BY <1>5 DEF HumanClose, PullState
  <2>2. /\ pulls' \in Seq(Pull)
        /\ DOMAIN pulls' = DOMAIN pulls
        /\ \A m \in DOMAIN pulls :
             /\ pulls'[m].run = pulls[m].run
             /\ pulls'[m].state = IF m = n THEN "closed" ELSE pulls[m].state
    BY <2>1, Changed
  <2>3. TypeOK'
    BY <1>2, <1>3, <1>5, <2>2 DEF HumanClose, TypeOK, HubTypeOK
  <2>4. landed' = landed
    BY <1>5 DEF HumanClose
  <2>5. Sole'
    BY <2>2 DEF Sole
  <2>6. Unmerged' /\ Held' /\ Busy'
    BY <1>1, <2>2 DEF Unmerged, Held, Busy, Opening, Holding
  <2>7. Merged' /\ Backed'
    BY <1>1, <2>2, <2>4 DEF Merged, Backed
  <2> QED
    BY <2>3, <2>5, <2>6, <2>7
<1>6. ASSUME \A r \in Run : ~ Holding(r), HumanDelete
      PROVE  Inv'
  <2>1. pulls' = <<>> /\ landed' = landed /\ DOMAIN pulls' = {}
    BY <1>6 DEF HumanDelete
  <2>2. pulls' \in Seq(Pull)
    BY <2>1, EmptySeq
  <2>3. HubTypeOK'
    <3>1. hands' \in 0..MaxHands
      BY <1>3, <1>6 DEF HumanDelete
    <3> QED
      BY <1>6, <2>2, <3>1 DEF HumanDelete, TypeOK, HubTypeOK
  <2>4. Sole' /\ Unmerged' /\ Merged'
    BY <2>1 DEF Sole, Unmerged, Merged
  <2>5. Held' /\ Busy' /\ Backed'
    BY <1>1, <1>6, <2>1 DEF Held, Holding, Busy, Backed
  <2> QED
    BY <1>2, <2>3, <2>4, <2>5
<1> QED
  BY <1>4, <1>5, <1>6 DEF People

(* Nothing the invariant speaks of changes. *)
LEMMA Unchanged ==
  ASSUME Inv, TypeOK', UNCHANGED <<pulls, landed, node, pc, mine>>
  PROVE  Inv'
  BY DEF Inv, Busy, Sole, Unmerged, Held, Merged, Backed, Opening, Holding

(* Every step keeps Inv. *)
LEMMA NextInv ==
  ASSUME Inv, Racing = FALSE, [Next]_vars
  PROVE  Inv'
<1>1. ASSUME NEW r \in Run, Start(r) \/ Call(r), UNCHANGED <<hands, auth, database, faults>>
      PROVE  Inv'
  BY <1>1, StartInv, CreateRepoInv, SaveUrlInv, EnsureBranchInv, FindClosedInv,
     PushInv, EnsurePullInv, PollChecksInv, MergeInv DEF Call
<1>2. CASE CI
  <2>1. PICK r \in Run : RunChecks(r) /\ UNCHANGED <<auth, database, pc, mine, faults>>
    BY <1>2 DEF CI
  <2>2. checks' \in [Run -> {"none", "pending", "passed", "failed"}]
    BY <2>1 DEF RunChecks, Inv, TypeOK, HubTypeOK
  <2>3. TypeOK'
    BY <2>1, <2>2, PullTypes DEF RunChecks, Inv, TypeOK, HubTypeOK, database
  <2> QED
    BY <2>1, <2>3, Unchanged DEF RunChecks, database
<1>3. CASE UNCHANGED vars
  <2>1. TypeOK'
    BY <1>3, HubTypes DEF vars, database, Inv, TypeOK, HubTypeOK
  <2> QED
    BY <1>3, <2>1, Unchanged DEF vars, hub, database
<1> QED
  BY <1>1, <1>2, <1>3, CommitInv, ArriveRetryInv, FaultInv, PeopleInv DEF Next, Step

(***************************************************************************)
(* Through any faults, and while people keep out of the two windows, the   *)
(* invariant holds: the columns and GitHub stay within their types, a run  *)
(* never has two pull requests that are not closed, and a run that moved   *)
(* on has landed.                                                          *)
(***************************************************************************)
THEOREM Invariance == Racing = FALSE => (Spec => []Inv)
<1> SUFFICES ASSUME Racing = FALSE PROVE Spec => []Inv
  OBVIOUS
<1>1. Inv /\ [Next]_vars => Inv'
  BY NextInv
<1> QED
  BY <1>1, InitInv, PTL DEF Spec

-----------------------------------------------------------------------------
(* The flow implements Delivery. *)

MergedNumbers == {m \in DOMAIN pulls : pulls[m].state = "merged"}
Delivered == {<<pulls[n].run, n>> : n \in MergedNumbers}
Reported == {r \in Run : node[r] = "WaitDeployApproval"}

(* A merge delivers the code of a run that was not delivered. *)
LEMMA MergeDelivers ==
  ASSUME Inv, NEW n, MergePull(n), node' = node
  PROVE  Abstract!Next
<1>1. n \in DOMAIN pulls /\ pulls[n].state = "open" /\ "merged" \in PullState
  BY DEF MergePull, PullState
<1>2. /\ DOMAIN pulls' = DOMAIN pulls
      /\ \A m \in DOMAIN pulls :
           /\ pulls'[m].run = pulls[m].run
           /\ pulls'[m].state = IF m = n THEN "merged" ELSE pulls[m].state
      /\ pulls[n].run \in Run
  BY <1>1, Changed DEF MergePull, Inv
<1>3. PICK r \in Run : r = pulls[n].run
  BY <1>2
<1>4. \A m \in MergedNumbers : pulls[m].run # r
  BY <1>1, <1>3 DEF Inv, Sole, MergedNumbers
<1>5. \A d \in Delivered : d[1] # r
  BY <1>4 DEF Delivered
<1>6. MergedNumbers' = MergedNumbers \cup {n}
  BY <1>1, <1>2 DEF MergedNumbers
<1>7. \A m \in MergedNumbers' : pulls'[m].run = pulls[m].run
  BY <1>2, <1>6 DEF MergedNumbers
<1>8. Delivered' = Delivered \cup {<<r, n>>}
  BY <1>3, <1>6, <1>7 DEF Delivered
<1>9. landed' = landed \cup {r} /\ Reported' = Reported
  BY <1>3 DEF MergePull, Reported
<1>10. \E d \in Delivered' : d[1] = r /\ Delivered' = Delivered \cup {d}
  BY <1>8
<1>11. Abstract!Deliver(r)
  BY <1>5, <1>9, <1>10 DEF Abstract!Deliver, Delivered, MergedNumbers, Reported
<1> QED
  BY <1>11 DEF Abstract!Next

(* A pull request that is opened or closed delivers nothing. *)
LEMMA OthersStutter ==
  ASSUME Inv, node' = node, landed' = landed,
         \/ pulls' = pulls
         \/ \E r \in Run : MakePull(r)
         \/ \E n \in DOMAIN pulls : HumanClose(n)
  PROVE  Delivered' = Delivered /\ Reported' = Reported
<1>1. Reported' = Reported
  BY DEF Reported
<1>2. CASE pulls' = pulls
  BY <1>1, <1>2 DEF Delivered, MergedNumbers
<1>3. ASSUME NEW r \in Run, MakePull(r) PROVE Delivered' = Delivered
  <2> DEFINE k == Len(pulls) + 1
  <2>1. /\ DOMAIN pulls' = DOMAIN pulls \cup {k}
        /\ k \notin DOMAIN pulls
        /\ \A n \in DOMAIN pulls : pulls'[n] = pulls[n]
        /\ pulls'[k] = [run |-> r, state |-> "open"]
    BY <1>3, Opened DEF Inv
  <2> HIDE DEF k
  <2> QED
    BY <2>1 DEF Delivered, MergedNumbers
<1>4. ASSUME NEW n \in DOMAIN pulls, HumanClose(n) PROVE Delivered' = Delivered
  <2>1. pulls' = [pulls EXCEPT ![n].state = "closed"] /\ "closed" \in PullState
    BY <1>4 DEF HumanClose, PullState
  <2>2. /\ DOMAIN pulls' = DOMAIN pulls
        /\ pulls[n].state = "open"
        /\ \A m \in DOMAIN pulls :
             /\ pulls'[m].run = pulls[m].run
             /\ pulls'[m].state = IF m = n THEN "closed" ELSE pulls[m].state
    BY <1>4, <2>1, Changed DEF Inv, HumanClose
  <2> QED
    BY <2>2 DEF Delivered, MergedNumbers
<1> QED
  BY <1>1, <1>2, <1>3, <1>4

Stutters == UNCHANGED <<Delivered, landed, Reported>>

(* A commit reports a run that has landed, and no other column moves.       *)
LEMMA CommitReports ==
  ASSUME Inv, NEW r \in Run, Commit(r)
  PROVE  Abstract!Next \/ Stutters
<1>1. /\ node[r] = "PreparePR"
      /\ node \in [Run -> {"earlier", "PreparePR", "WaitDeployApproval", "EndFailed"}]
  BY DEF Commit, Endings, Inv, Busy, TypeOK
<1>2. Delivered' = Delivered /\ landed' = landed
  BY DEF Commit, hub, Delivered, MergedNumbers
<1>3. CASE pc[r] = "success"
  <2>1. node' = [node EXCEPT ![r] = "WaitDeployApproval"]
    BY <1>3 DEF Commit
  <2>2. Reported' = Reported \cup {r} /\ r \notin Reported
    BY <1>1, <2>1 DEF Reported
  <2>3. r \in landed
    BY <1>3 DEF Inv, Backed
  <2>4. Abstract!Report(r)
    BY <1>2, <2>2, <2>3 DEF Abstract!Report, Delivered, MergedNumbers, Reported
  <2> QED
    BY <2>4 DEF Abstract!Next
<1>4. CASE pc[r] # "success"
  <2>1. PICK n \in {"PreparePR", "EndFailed"} : node' = [node EXCEPT ![r] = n]
    BY <1>4 DEF Commit
  <2>2. n # "WaitDeployApproval"
    BY <2>1
  <2>3. Reported' = Reported
    BY <1>1, <2>1, <2>2 DEF Reported
  <2> QED
    BY <1>2, <2>3 DEF Stutters
<1> QED
  BY <1>3, <1>4

(* Arriving at the node and being sent back to it report nothing.          *)
LEMMA ArrivalStutters ==
  ASSUME Inv, NEW r \in Run, Arrive(r) \/ Retry(r)
  PROVE  Stutters
<1>1. /\ node[r] # "WaitDeployApproval"
      /\ node \in [Run -> {"earlier", "PreparePR", "WaitDeployApproval", "EndFailed"}]
      /\ node' = [node EXCEPT ![r] = "PreparePR"]
  BY DEF Arrive, Retry, Inv, TypeOK
<1>2. Reported' = Reported
  BY <1>1 DEF Reported
<1>3. Delivered' = Delivered /\ landed' = landed
  BY DEF Arrive, Retry, hub, Delivered, MergedNumbers
<1> QED
  BY <1>2, <1>3 DEF Stutters

(* A request of the flow merges, opens, or leaves the pull requests alone. *)
LEMMA CallImplements ==
  ASSUME Inv, NEW r \in Run, Start(r) \/ Call(r), node' = node
  PROVE  Abstract!Next \/ Stutters
<1>1. CASE UNCHANGED <<pulls, landed>>
  BY <1>1, OthersStutter DEF Stutters
<1>2. CASE MergePull(mine[r].pr)
  BY <1>2, MergeDelivers
<1>3. CASE MakePull(r)
  BY <1>3, OthersStutter DEF Stutters, MakePull
<1> QED
  BY <1>1, <1>2, <1>3 DEF Start, Call, CreateRepo, SaveUrl, EnsureBranch,
     FindClosed, Push, EnsurePull, PollChecks, Merge, Reads, hub,
     MakeRepo, MakeBranch, PushFiles

(* So does a request whose answer is lost.                                 *)
LEMMA FaultImplements ==
  ASSUME Inv, NEW r \in Run, Fault(r)
  PROVE  Abstract!Next \/ Stutters
<1>0. node' = node
  BY DEF Fault, database
<1>1. CASE UNCHANGED <<pulls, landed>>
  BY <1>0, <1>1, OthersStutter DEF Stutters
<1>2. CASE MergePull(mine[r].pr)
  BY <1>0, <1>2, MergeDelivers
<1>3. CASE MakePull(r)
  BY <1>0, <1>3, OthersStutter DEF Stutters, MakePull
<1>4. CASE LoseAnswer(r)
  <2>1. CASE UNCHANGED hub
    BY <1>1, <2>1 DEF hub
  <2>2. CASE Effect(r)
    BY <1>1, <1>2, <1>3, <2>2 DEF Effect, MakeRepo, MakeBranch, PushFiles
  <2> QED
    BY <1>4, <2>1, <2>2 DEF LoseAnswer
<1>5. CASE Crash(r) \/ RateLimited(r)
  BY <1>1, <1>5 DEF Crash, RateLimited, Reads, hub
<1> QED
  BY <1>4, <1>5 DEF Fault

(* People merge a pull request, close one, or lose the repository.         *)
LEMMA PeopleImplement ==
  ASSUME Inv, People
  PROVE  Abstract!Next \/ Stutters
<1>0. node' = node
  BY DEF People, database
<1>1. ASSUME NEW n \in DOMAIN pulls, HumanMerge(n) PROVE Abstract!Next
  BY <1>0, <1>1, MergeDelivers DEF HumanMerge
<1>2. ASSUME NEW n \in DOMAIN pulls, HumanClose(n) PROVE Stutters
  BY <1>0, <1>2, OthersStutter DEF Stutters, HumanClose
<1>3. CASE HumanDelete
  <2>1. pulls' = <<>> /\ landed' = landed
    BY <1>3 DEF HumanDelete
  <2>2. Delivered' = {} /\ Reported' = Reported
    BY <1>0, <2>1 DEF Delivered, MergedNumbers, Reported
  <2>3. Abstract!Lose
    BY <2>1, <2>2 DEF Abstract!Lose, Delivered, MergedNumbers, Reported
  <2> QED
    BY <2>3 DEF Abstract!Next
<1> QED
  BY <1>1, <1>2, <1>3 DEF People

(* Every step of the flow, of people and of CI is a step of Delivery or    *)
(* changes nothing that Delivery speaks of.                                *)
LEMMA StepImplements ==
  ASSUME Inv, [Next]_vars
  PROVE  Abstract!Next \/ Stutters
<1>1. ASSUME NEW r \in Run, Start(r) \/ Call(r), UNCHANGED database
      PROVE  Abstract!Next \/ Stutters
  BY <1>1, CallImplements DEF database
<1>2. CASE CI
  BY <1>2, OthersStutter DEF CI, RunChecks, database, Stutters
<1>3. CASE UNCHANGED vars
  BY <1>3, OthersStutter DEF vars, hub, database, Stutters
<1> QED
  BY <1>1, <1>2, <1>3, CommitReports, ArrivalStutters, FaultImplements,
     PeopleImplement DEF Next, Step

(***************************************************************************)
(* For any number of runs, faults, retries and acts of people outside the  *)
(* two windows, PreparePR implements Delivery: a run's code is taken in    *)
(* once, and a run moves on only after that.                               *)
(***************************************************************************)
THEOREM Delivers == Racing = FALSE => (Spec => DeliversOnce)
<1> SUFFICES ASSUME Racing = FALSE PROVE Spec => DeliversOnce
  OBVIOUS
<1>1. Init => Abstract!Init
  BY DEF Init, HubInit, Abstract!Init
<1>2. Inv /\ [Next]_vars => [Abstract!Next]_<<Delivered, landed, Reported>>
  BY StepImplements DEF Stutters
<1>3. Spec => []Inv
  BY Invariance
<1> QED
  BY <1>1, <1>2, <1>3, PTL DEF Spec, DeliversOnce, Abstract!Spec, Delivered, MergedNumbers, Reported

-----------------------------------------------------------------------------
(* What holds also when people act in the two windows. *)

(* A step at GitHub that leaves the pull requests alone keeps the types. *)
LEMMA QuietTypes ==
  ASSUME TypeOK, NEW r \in Run, hands' = hands,
         MakeRepo \/ MakeBranch(r) \/ PushFiles(r) \/ UNCHANGED hub
  PROVE  HubTypeOK'
<1>1. pulls' = pulls /\ landed' = landed /\ hands' = hands
  BY DEF MakeRepo, MakeBranch, PushFiles, hub
<1>2. repo' \in BOOLEAN /\ branches' \subseteq Run
  BY DEF MakeRepo, MakeBranch, PushFiles, hub, TypeOK, HubTypeOK
<1>3. checks' \in [Run -> {"none", "pending", "passed", "failed"}]
  BY DEF MakeRepo, MakeBranch, PushFiles, hub, TypeOK, HubTypeOK
<1> QED
  BY <1>1, <1>2, <1>3 DEF TypeOK, HubTypeOK

(* What a step of the flow leaves at GitHub and of the invocations. *)
LEMMA CallTypes ==
  ASSUME TypeOK, NEW r \in Run, Start(r) \/ Call(r), hands' = hands
  PROVE  /\ HubTypeOK'
         /\ \E to \in Calls \cup Endings : pc' = [pc EXCEPT ![r] = to]
         /\ \E s \in Session : mine' = [mine EXCEPT ![r] = s]
<1>1. mine[r] \in Session /\ mine = [mine EXCEPT ![r] = mine[r]]
  BY Keeps
<1>2. \A n \in OpenPulls(r) : n \in Nat
  BY PullTypes DEF OpenPulls, PullsOf
<1>3. CASE Start(r)
  <2>1. [had |-> url, url |-> url, recreate |-> url, pr |-> 0] \in Session
    BY DEF TypeOK, Session
  <2>2. HubTypeOK'
    BY <1>3, QuietTypes DEF Start
  <2> QED
    BY <1>3, <2>1, <2>2 DEF Start, Goto, Calls, Endings
<1>4. CASE CreateRepo(r)
  BY <1>1, <1>4, QuietTypes DEF CreateRepo, Goto, Reads, Calls, Endings
<1>5. CASE SaveUrl(r)
  <2>1. [mine[r] EXCEPT !.url = TRUE] \in Session
    BY <1>1 DEF Session
  <2>2. HubTypeOK'
    BY <1>5, QuietTypes DEF SaveUrl
  <2> QED
    BY <1>5, <2>1, <2>2 DEF SaveUrl, Goto, Calls
<1>6. CASE EnsureBranch(r)
  <2>1. [mine[r] EXCEPT !.recreate = FALSE] \in Session
    BY <1>1 DEF Session
  <2>2. HubTypeOK'
    BY <1>6, QuietTypes DEF EnsureBranch
  <2> QED
    BY <1>1, <1>6, <2>1, <2>2 DEF EnsureBranch, Goto, Calls, Endings
<1>7. CASE FindClosed(r)
  BY <1>1, <1>7, QuietTypes DEF FindClosed, Goto, Reads, Calls, Endings
<1>8. CASE Push(r)
  BY <1>1, <1>8, QuietTypes DEF Push, Goto, Reads, Calls, Endings
<1>9. CASE EnsurePull(r)
  <2>1. \A n \in Nat : [mine[r] EXCEPT !.pr = n] \in Session
    BY <1>1 DEF Session
  <2>2. Len(pulls) + 1 \in Nat
    BY PullTypes
  <2>3. HubTypeOK'
    BY <1>9, QuietTypes, OpenTypes DEF EnsurePull, Reads, TypeOK, HubTypeOK
  <2> QED
    BY <1>1, <1>2, <1>9, <2>1, <2>2, <2>3 DEF EnsurePull, Goto, Reads, Calls, Endings
<1>10. CASE PollChecks(r)
  BY <1>1, <1>10, QuietTypes DEF PollChecks, Verdict, Goto, Reads, Calls, Endings
<1>11. CASE Merge(r)
  <2>1. HubTypeOK'
    BY <1>11, QuietTypes, MergeTypes DEF Merge, Reads, TypeOK, HubTypeOK
  <2> QED
    BY <1>1, <1>11, <2>1 DEF Merge, Goto, Reads, Calls, Endings
<1> QED
  BY <1>3, <1>4, <1>5, <1>6, <1>7, <1>8, <1>9, <1>10, <1>11 DEF Call

(* A fault keeps the types. *)
LEMMA FaultTypes ==
  ASSUME TypeOK, NEW r \in Run, Fault(r)
  PROVE  TypeOK'
<1>1. /\ UNCHANGED <<hands, auth, node, url>> /\ faults' \in 0..MaxFaults
      /\ Crash(r) \/ LoseAnswer(r) \/ RateLimited(r)
  BY MaxFaultsAssumption DEF Fault, database, TypeOK
<1>2. pc' \in [Run -> {"idle"} \cup Calls \cup Endings]
  BY <1>1 DEF Crash, LoseAnswer, RateLimited, TypeOK, Endings
<1>3. NoSession \in Session
  BY DEF NoSession, Session
<1>4. mine' \in [Run -> Session]
  BY <1>1, <1>3 DEF Crash, LoseAnswer, RateLimited, Reads, TypeOK
<1>5. HubTypeOK'
  <2>1. \/ MakeRepo \/ MakeBranch(r) \/ PushFiles(r) \/ UNCHANGED hub
        \/ MakePull(r) \/ MergePull(mine[r].pr)
    BY <1>1 DEF Crash, LoseAnswer, RateLimited, Reads, Effect
  <2>2. hands' \in 0..MaxHands
    BY <1>1 DEF TypeOK, HubTypeOK
  <2> QED
    BY <1>1, <2>1, <2>2, QuietTypes, OpenTypes, MergeTypes
<1> QED
  BY <1>1, <1>2, <1>4, <1>5 DEF TypeOK

(* People keep the types, whenever they act. *)
LEMMA PeopleTypes ==
  ASSUME TypeOK, People
  PROVE  TypeOK'
<1>1. UNCHANGED <<auth, node, url, pc, mine, faults>>
  BY DEF People, database
<1>2. hands' \in 0..MaxHands
  BY MaxHandsAssumption DEF People, HumanMerge, HumanClose, HumanDelete, Hand, TypeOK, HubTypeOK
<1>3. HubTypeOK'
  <2>1. ASSUME NEW n \in DOMAIN pulls, HumanMerge(n) PROVE HubTypeOK'
    BY <1>2, <2>1, MergeTypes DEF HumanMerge
  <2>2. ASSUME NEW n \in DOMAIN pulls, HumanClose(n) PROVE HubTypeOK'
    <3>1. "closed" \in PullState
      BY DEF PullState
    <3>2. pulls' \in Seq(Pull)
      BY <2>2, <3>1, Changed DEF HumanClose
    <3> QED
      BY <1>2, <2>2, <3>2 DEF HumanClose, TypeOK, HubTypeOK
  <2>3. CASE HumanDelete
    <3>1. pulls' \in Seq(Pull)
      BY <2>3, EmptySeq DEF HumanDelete
    <3>2. checks' \in [Run -> {"none", "pending", "passed", "failed"}]
      BY <2>3 DEF HumanDelete
    <3>3. repo' \in BOOLEAN /\ branches' \subseteq Run /\ landed' = landed
      BY <2>3 DEF HumanDelete
    <3> QED
      BY <1>2, <3>1, <3>2, <3>3 DEF TypeOK, HubTypeOK
  <2> QED
    BY <2>1, <2>2, <2>3 DEF People
<1> QED
  BY <1>1, <1>3 DEF TypeOK

(* Every step keeps the types. *)
LEMMA NextTypes ==
  ASSUME TypeOK, [Next]_vars
  PROVE  TypeOK'
<1>1. ASSUME NEW r \in Run, Start(r) \/ Call(r), UNCHANGED <<hands, auth, database, faults>>
      PROVE  TypeOK'
  <2>1. pc' \in [Run -> {"idle"} \cup Calls \cup Endings] /\ mine' \in [Run -> Session]
    BY <1>1, CallTypes DEF TypeOK
  <2>2. HubTypeOK'
    BY <1>1, CallTypes
  <2> QED
    BY <1>1, <2>1, <2>2 DEF TypeOK, database
<1>2. ASSUME NEW r \in Run, Commit(r), UNCHANGED <<hands, auth, faults>> PROVE TypeOK'
  <2>1. HubTypeOK'
    BY <1>2, QuietTypes DEF Commit
  <2>2. node' \in [Run -> {"earlier", "PreparePR", "WaitDeployApproval", "EndFailed"}]
    BY <1>2 DEF Commit, TypeOK
  <2>3. url' \in BOOLEAN
    BY <1>2 DEF Commit, TypeOK, Session
  <2>4. NoSession \in Session
    BY DEF NoSession, Session
  <2> QED
    BY <1>2, <2>1, <2>2, <2>3, <2>4 DEF Commit, TypeOK
<1>3. ASSUME NEW r \in Run, Arrive(r) \/ Retry(r), UNCHANGED <<hands, auth, faults>>
      PROVE  TypeOK'
  <2>1. HubTypeOK'
    BY <1>3, QuietTypes DEF Arrive, Retry
  <2> QED
    BY <1>3, <2>1 DEF Arrive, Retry, TypeOK
<1>4. CASE CI
  <2>1. PICK r \in Run : RunChecks(r) /\ UNCHANGED <<auth, database, pc, mine, faults>>
    BY <1>4 DEF CI
  <2>2. checks' \in [Run -> {"none", "pending", "passed", "failed"}]
    BY <2>1 DEF RunChecks, TypeOK, HubTypeOK
  <2> QED
    BY <2>1, <2>2 DEF RunChecks, TypeOK, HubTypeOK, database
<1>5. CASE UNCHANGED vars
  BY <1>5, HubTypes DEF vars, database, TypeOK, HubTypeOK
<1> QED
  BY <1>1, <1>2, <1>3, <1>4, <1>5, FaultTypes, PeopleTypes DEF Next, Step

(***************************************************************************)
(* The columns the node reads and writes, and GitHub, stay within their    *)
(* types, whenever people act (prepare_pr.py:126).                         *)
(***************************************************************************)
THEOREM Typed == Spec => []TypeOK
<1>1. Init => TypeOK
  BY InitInv DEF Inv
<1> QED
  BY <1>1, NextTypes, PTL DEF Spec

(* An invocation that ended holds no URL that nobody saved. *)
NothingHeld == \A r \in Run : pc[r] = "idle" => ~ mine[r].url

(* A step of one invocation that forgets no URL and makes no repository. *)
LEMMA KeptByStep ==
  ASSUME TypeOK, RepositoryKept, NothingHeld, NEW r \in Run,
         \A q \in Run \ {r} : pc'[q] = pc[q] /\ mine'[q] = mine[q],
         url => url', faults' = faults,
         repo' => repo \/ pc'[r] = "save",
         pc[r] = "save" => mine'[r].url,
         mine[r].url => mine'[r].url \/ url',
         pc'[r] = "idle" => ~ mine'[r].url
  PROVE  RepositoryKept' /\ NothingHeld'
<1>1. NothingHeld'
  BY DEF NothingHeld
<1>2. RepositoryKept'
  BY DEF RepositoryKept
<1> QED
  BY <1>1, <1>2

(* Every step of the flow keeps the repository and its URL together. *)
LEMMA KeptByFlow ==
  ASSUME TypeOK, RepositoryKept, NothingHeld, NEW r \in Run, Start(r) \/ Call(r),
         UNCHANGED <<hands, auth, database, faults>>
  PROVE  RepositoryKept' /\ NothingHeld'
<1>1. \A q \in Run \ {r} : pc'[q] = pc[q] /\ mine'[q] = mine[q]
  BY CallTypes DEF TypeOK
<1>2. pc'[r] # "idle"
  BY CallTypes DEF TypeOK, Calls, Endings
<1>3. mine[r] \in Session /\ url' = url /\ faults' = faults
  BY DEF TypeOK, database
<1>4. repo' => repo \/ pc'[r] = "save"
  BY DEF TypeOK, Start, Call, CreateRepo, SaveUrl, EnsureBranch, FindClosed, Push, EnsurePull,
         PollChecks, Merge, Reads, hub, Goto, MakeBranch, PushFiles, MakePull, MergePull
<1>5. pc[r] = "save" => mine'[r].url
  BY DEF TypeOK, Session, Start, Call, CreateRepo, SaveUrl, EnsureBranch, FindClosed, Push,
         EnsurePull, PollChecks, Merge, Goto
<1>6. mine[r].url => mine'[r].url
  <2>1. CASE Start(r)
    BY <2>1 DEF Start, Goto, NothingHeld
  <2>2. CASE SaveUrl(r)
    BY <1>3, <2>2 DEF SaveUrl, TypeOK, Session
  <2>3. CASE EnsureBranch(r) \/ EnsurePull(r)
    BY <1>3, <2>3 DEF EnsureBranch, EnsurePull, Reads, TypeOK, Session
  <2>4. CASE UNCHANGED mine
    BY <2>4
  <2> QED
    BY <2>1, <2>2, <2>3, <2>4 DEF Call, CreateRepo, FindClosed, Push, PollChecks, Merge, Reads
<1> QED
  BY <1>1, <1>2, <1>3, <1>4, <1>5, <1>6, KeptByStep

(* Every step keeps the repository and its URL together. *)
LEMMA NextKept ==
  ASSUME TypeOK, RepositoryKept, NothingHeld, [Next]_vars
  PROVE  RepositoryKept' /\ NothingHeld'
<1>1. ASSUME NEW r \in Run, Start(r) \/ Call(r), UNCHANGED <<hands, auth, database, faults>>
      PROVE  RepositoryKept' /\ NothingHeld'
  BY <1>1, KeptByFlow
<1>2. ASSUME NEW r \in Run, Commit(r), UNCHANGED <<hands, auth, faults>>
      PROVE  RepositoryKept' /\ NothingHeld'
  <2>1. pc[r] # "save" /\ url' = (url \/ mine[r].url) /\ repo' = repo
    BY <1>2 DEF Commit, Endings, hub
  <2>2. ~ mine'[r].url /\ \A q \in Run \ {r} : pc'[q] = pc[q] /\ mine'[q] = mine[q]
    BY <1>2 DEF Commit, TypeOK, NoSession
  <2>3. faults' = faults
    BY <1>2
  <2>4. (url => url') /\ (mine[r].url => url')
    BY <2>1
  <2> QED
    BY <2>1, <2>2, <2>3, <2>4, KeptByStep
<1>3. ASSUME NEW r \in Run, Fault(r) PROVE RepositoryKept' /\ NothingHeld'
  <2>1. faults' > 0
    BY <1>3 DEF Fault, TypeOK
  <2>2. \A q \in Run : pc'[q] = "idle" => mine'[q] = NoSession \/ (pc[q] = "idle" /\ mine'[q] = mine[q])
    BY <1>3 DEF Fault, Crash, LoseAnswer, RateLimited, Reads, TypeOK
  <2> QED
    BY <2>1, <2>2 DEF RepositoryKept, NothingHeld, NoSession
<1>4. CASE UNCHANGED <<url, pc, mine, faults>> /\ (repo' => repo)
  BY <1>4 DEF RepositoryKept, NothingHeld
<1>5. ASSUME NEW r \in Run, Arrive(r) \/ Retry(r), UNCHANGED <<hands, auth, faults>>
      PROVE  UNCHANGED <<url, pc, mine, faults>> /\ (repo' => repo)
  BY <1>5 DEF Arrive, Retry, hub
<1>6. CI => UNCHANGED <<url, pc, mine, faults>> /\ (repo' => repo)
  BY DEF CI, RunChecks, database
<1>7. People => UNCHANGED <<url, pc, mine, faults>> /\ (repo' => repo)
  BY DEF People, HumanMerge, HumanClose, HumanDelete, MergePull, database
<1>8. UNCHANGED vars => UNCHANGED <<url, pc, mine, faults>> /\ (repo' => repo)
  BY DEF vars, hub, database
<1> QED
  BY <1>1, <1>2, <1>3, <1>4, <1>5, <1>6, <1>7, <1>8 DEF Next, Step

(***************************************************************************)
(* While nothing fails that is not an answer, ID8 has the URL of the       *)
(* repository it made, or an invocation is about to save it: no refusal,   *)
(* no failed check, no other run and no person makes it forget one         *)
(* (prepare_pr.py:464, engine.py:172).                                     *)
(***************************************************************************)
THEOREM RepositoriesKept == Spec => []RepositoryKept
<1>1. Init => RepositoryKept /\ NothingHeld
  BY DEF Init, HubInit, RepositoryKept, NothingHeld, NoSession
<1>2. TypeOK /\ RepositoryKept /\ NothingHeld /\ [Next]_vars => RepositoryKept' /\ NothingHeld'
  BY NextKept
<1> QED
  BY <1>1, <1>2, Typed, PTL DEF Spec

-----------------------------------------------------------------------------
(* Invocations go on. *)

(* Of an invocation, what the steps left depend on. *)
LEMMA Ranked ==
  ASSUME TypeOK, NEW r \in Run
  PROVE  /\ pc[r] \in {"idle"} \cup Calls \cup Endings
         /\ mine[r].recreate \in BOOLEAN
  BY DEF TypeOK, Session

(* A step of its own leaves an invocation fewer steps. *)
LEMMA CallShrinks ==
  ASSUME TypeOK, NEW r \in Run, Call(r)
  PROVE  StepsLeft(r)' < StepsLeft(r)
<1>1. /\ pc \in [Run -> {"idle"} \cup Calls \cup Endings] /\ mine \in [Run -> Session]
      /\ mine[r] \in Session /\ mine[r].recreate \in BOOLEAN
  BY Ranked DEF TypeOK
<1>2. CASE EnsureBranch(r)
  <2>1. \/ pc'[r] = "find" /\ mine' = mine
        \/ pc'[r] = "create" /\ mine[r].recreate /\ ~ mine'[r].recreate
        \/ pc'[r] = "failure" /\ ~ mine'[r].recreate
    BY <1>1, <1>2 DEF EnsureBranch, Goto, Session
  <2>2. pc[r] = "branch"
    BY <1>2 DEF EnsureBranch, Goto
  <2> QED
    BY <1>1, <2>1, <2>2 DEF StepsLeft, Rank
<1>3. CASE ~ EnsureBranch(r)
  <2>1. mine'[r].recreate = mine[r].recreate
    BY <1>1, <1>3 DEF Call, CreateRepo, SaveUrl, FindClosed, Push, EnsurePull, PollChecks, Merge,
                      Reads, Session
  <2>2. CASE CreateRepo(r) \/ SaveUrl(r) \/ FindClosed(r)
    <3>1. \/ pc[r] = "create" /\ pc'[r] \in {"save", "failure"}
          \/ pc[r] = "save" /\ pc'[r] = "branch"
          \/ pc[r] = "find" /\ pc'[r] \in {"push", "success", "failure"}
      BY <1>1, <2>2 DEF CreateRepo, SaveUrl, FindClosed, Goto
    <3> QED
      BY <1>1, <2>1, <3>1 DEF StepsLeft, Rank
  <2>3. CASE Push(r) \/ EnsurePull(r) \/ PollChecks(r) \/ Merge(r)
    <3>1. \/ pc[r] = "push" /\ pc'[r] \in {"open", "failure"}
          \/ pc[r] = "open" /\ pc'[r] \in {"checks", "failure"}
          \/ pc[r] = "checks" /\ pc'[r] \in {"merge", "failure"}
          \/ pc[r] = "merge" /\ pc'[r] \in {"success", "failure"}
      BY <1>1, <2>3 DEF Push, EnsurePull, PollChecks, Verdict, Merge, Goto
    <3> QED
      BY <1>1, <2>1, <3>1 DEF StepsLeft, Rank
  <2> QED
    BY <1>3, <2>2, <2>3 DEF Call
<1> QED
  BY <1>2, <1>3

(* So does the end of one, and what goes wrong. *)
LEMMA EndShrinks ==
  ASSUME TypeOK, NEW r \in Run, pc[r] # "idle", pc'[r] # pc[r], Commit(r) \/ Fault(r)
  PROVE  StepsLeft(r)' < StepsLeft(r)
<1>1. /\ pc[r] \in {"idle"} \cup Calls \cup Endings /\ mine[r].recreate \in BOOLEAN
  BY Ranked
<1>2. CASE pc'[r] = "idle" /\ ~ mine'[r].recreate
  BY <1>1, <1>2 DEF StepsLeft, Rank, Calls, Endings
<1>3. CASE pc[r] \in Calls /\ pc'[r] \in {"failure", "rate_limited"} /\ mine' = mine
  BY <1>1, <1>3 DEF StepsLeft, Rank, Calls
<1>4. \/ pc'[r] = "idle" /\ ~ mine'[r].recreate
      \/ pc[r] \in Calls /\ pc'[r] \in {"failure", "rate_limited"} /\ mine' = mine
  BY DEF TypeOK, Commit, Fault, Crash, LoseAnswer, RateLimited, Reads, NoSession
<1> QED
  BY <1>2, <1>3, <1>4

(***************************************************************************)
(* However people delete, merge and close meanwhile, an invocation does    *)
(* not go in circles: each of its steps leaves fewer to do                 *)
(* (prepare_pr.py:178).  With fairness, InvocationsEnd.                    *)
(***************************************************************************)
THEOREM FlowAdvances == Spec => InvocationsAdvance
<1>1. ASSUME TypeOK, [Next]_vars, NEW r \in Run, pc[r] # "idle", pc'[r] # pc[r]
      PROVE  StepsLeft(r)' < StepsLeft(r)
  <2>1. ASSUME NEW q \in Run, Start(q) \/ Call(q) \/ Commit(q) \/ Fault(q)
        PROVE  StepsLeft(r)' < StepsLeft(r)
    <3>1. \E to : pc' = [pc EXCEPT ![q] = to]
      <4>1. CASE Start(q) \/ Commit(q) \/ Fault(q)
        BY <4>1 DEF Start, Goto, Commit, Fault, Crash, LoseAnswer, RateLimited
      <4>2. CASE Call(q)
        BY <4>2 DEF Call, CreateRepo, SaveUrl, EnsureBranch, FindClosed, Push, EnsurePull,
                    PollChecks, Merge, Goto
      <4> QED
        BY <2>1, <4>1, <4>2
    <3>2. q = r
      BY <1>1, <3>1 DEF TypeOK
    <3>3. ~ Start(r)
      BY <1>1 DEF Start, Goto
    <3> QED
      BY <1>1, <2>1, <3>2, <3>3, CallShrinks, EndShrinks
  <2>2. ASSUME NEW q \in Run PROVE ~ Arrive(q) /\ ~ Retry(q)
    BY <1>1 DEF Arrive, Retry
  <2>3. ~ People /\ ~ CI /\ ~ UNCHANGED vars
    BY <1>1 DEF People, CI, vars
  <2> QED
    BY <1>1, <2>1, <2>2, <2>3 DEF Next, Step
<1>2. TypeOK /\ [Next]_vars =>
        [\A r \in Run : pc[r] # "idle" /\ pc'[r] # pc[r] => StepsLeft(r)' < StepsLeft(r)]_vars
  BY <1>1
<1> QED
  BY <1>2, Typed, PTL DEF Spec, InvocationsAdvance

=============================================================================
