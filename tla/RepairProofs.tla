---------------------------- MODULE RepairProofs ----------------------------
(***************************************************************************)
(* Proofs that Repair runs the task queue it composes, that its safety     *)
(* properties hold, and that it implements RepairGate, for every set of    *)
(* tasks, workers, calls, users and keys and every bound on attempts.      *)
(*                                                                         *)
(* Rows are copied, kept, changed and written back by several processes,   *)
(* so nothing can be said of "the" row.  The invariant instead says of     *)
(* every copy, wherever it is, that it is sound: its state and its fields  *)
(* agree, and the approvals that its state presupposes have been consumed. *)
(* Soundness is stable: a request once made keeps its action and digest,   *)
(* and once consumed stays consumed.  So a stale copy, however old, is     *)
(* still sound when it is written back.                                    *)
(***************************************************************************)
EXTENDS Repair, TaskQueueProofs

\* Run id of task t has asked, in req, for the approval of its own document.
Asked(req, id, t, action) ==
  /\ id \in Run /\ id[1] = t
  /\ req[id].state # "absent"
  /\ req[id].action = action /\ req[id].digest = id

\* ... and that approval has been consumed.
Passed(req, id, t, action) ==
  Asked(req, id, t, action) /\ req[id].state = "consumed"

NoPlan(r) == r.plan = None /\ r.planApproval = None
NoPatch(r) == r.patch = None /\ r.patchApproval = None
PlanAsked(req, r, t) == r.plan = r.planApproval /\ Asked(req, r.plan, t, "repair_plan")
PlanPassed(req, r, t) == r.plan = r.planApproval /\ Passed(req, r.plan, t, "repair_plan")
PatchAsked(req, r, t) == r.patch = r.patchApproval /\ Asked(req, r.patch, t, "publish_patch")
PatchPassed(req, r, t) == r.patch = r.patchApproval /\ Passed(req, r.patch, t, "publish_patch")

\* A row value r for task t is sound with respect to the requests req.
Sound(req, r, t) ==
  \/ r.state \in {"absent", "planning", "failed"} /\ NoPlan(r) /\ NoPatch(r)
  \/ r.state = "awaiting_plan_approval" /\ PlanAsked(req, r, t) /\ NoPatch(r)
  \/ r.state \in {"plan_approved", "patching", "failed"} /\ PlanPassed(req, r, t) /\ NoPatch(r)
  \/ r.state = "awaiting_patch_approval" /\ PlanPassed(req, r, t) /\ PatchAsked(req, r, t)
  \/ /\ r.state \in {"patch_approved", "published", "failed"}
     /\ PlanPassed(req, r, t) /\ PatchPassed(req, r, t)

RowsSound == \A t \in Task : Sound(request, row[t], t)

\* The state in which a worker's copy is at each step of a phase.
StateAt(s) ==
  IF s \in {"start", "execute"} THEN {"planning", "patching"}
  ELSE IF s = "save" THEN {"awaiting_plan_approval", "awaiting_patch_approval"}
  ELSE {"patch_approved"}

\* A worker at step s with control p holds copy r of the row of task t.
CopySound(req, s, p, t, r) ==
  /\ s # "none" => p = "processing"
  /\ s \in {"none", "load"} => r = NoRow
  /\ s \notin {"none", "load"} => r.state \in StateAt(s) /\ Sound(req, r, t)

CopiesSound ==
  \A w \in Worker : CopySound(request, step[w], pc[w], job[w].task, copy[w])

\* A call x is where its copy says.
CallSound(req, x) ==
  x # NoCall =>
    /\ x.copy.state = IF x.at = "consume" THEN Awaiting(x.phase) ELSE NextApprovedState(x.phase)
    /\ Sound(req, x.copy, x.task)

CallsSound == \A c \in Client : CallSound(request, call[c])

ShippedSound == \A p \in shipped : Passed(request, p, p[1], "publish_patch")

\* Whoever says that a repair succeeded has seen its draft.
DraftsSeen ==
  /\ \A w \in Worker : step[w] = "record" \/ job[w].outcome = "succeeded"
                         => draft[job[w].task]
  /\ SucceededHasDraft

RepairInv ==
  /\ RepairTypeOK /\ RowsSound /\ CopiesSound /\ CallsSound /\ ShippedSound /\ DraftsSeen

-----------------------------------------------------------------------------
(* Requests only grow, and soundness is stable.                            *)

\* Nothing that a sound copy relies on is lost from req to new.
Grows(req, new) ==
  \A id \in Run : req[id].state # "absent" =>
    /\ new[id].state # "absent"
    /\ new[id].action = req[id].action /\ new[id].digest = req[id].digest
    /\ req[id].state = "consumed" => new[id].state = "consumed"

Requests == [Run -> Approval!Request \cup {Approval!NoRequest}]

LEMMA AskedStable ==
  ASSUME NEW req, NEW new, Grows(req, new), NEW id, NEW t, NEW action
  PROVE  /\ Asked(req, id, t, action) => Asked(new, id, t, action)
         /\ Passed(req, id, t, action) => Passed(new, id, t, action)
BY DEF Grows, Asked, Passed

LEMMA SoundStable ==
  ASSUME NEW req, NEW new, Grows(req, new), NEW r, NEW t, Sound(req, r, t)
  PROVE  Sound(new, r, t)
BY AskedStable DEF Sound, PlanAsked, PlanPassed, PatchAsked, PatchPassed

LEMMA GrowsReflexive == \A req : Grows(req, req)
BY DEF Grows

\* A row of requests that exists has the type of a request.
LEMMA RequestType ==
  ASSUME request \in Requests, NEW id \in Run, Approval!Requested(id)
  PROVE  request[id] \in Approval!Request
BY DEF Requests, Approval!Requested, Approval!NoRequest

LEMMA CreateGrows ==
  ASSUME request \in Requests, NEW id \in Run, NEW u \in User,
         NEW action \in {"repair_plan", "publish_patch"},
         Approval!Create(id, action, id, u, Approval!Privileged)
  PROVE  /\ request' \in Requests /\ Grows(request, request')
         /\ request[id].state = "absent" /\ request'[id].state = "pending"
         /\ request'[id].action = action /\ request'[id].digest = id
         /\ \A j \in Run : j # id => request'[j] = request[j]
<1>1. /\ request'[id].state = "pending" /\ request'[id].action = action
      /\ request'[id].digest = id /\ request'[id] \in Approval!Request
  BY DEF Requests, Approval!Create, Approval!NoRequest, Approval!Request, Approval!State,
         Approval!Action, Approval!Privileged
<1>2. \A j \in Run : j # id => request'[j] = request[j]
  BY DEF Requests, Approval!Create
<1>3. request[id].state = "absent" /\ DOMAIN request' = Run
  BY DEF Requests, Approval!Create, Approval!Requested
<1>4. request' \in Requests
  BY <1>1, <1>2, <1>3 DEF Requests, Approval!Create
<1> QED BY <1>1, <1>2, <1>3, <1>4 DEF Grows

\* The other operations of the approval service change one state field.
Moves(id, s) ==
  /\ request[id] \in Approval!Request
  /\ request'[id].state = s
  /\ request'[id].action = request[id].action
  /\ request'[id].digest = request[id].digest
  /\ \A j \in Run : j # id => request'[j] = request[j]

LEMMA ConsumeMoves ==
  ASSUME request \in Requests, NEW id \in Run, NEW u \in User, NEW digest \in Run,
         NEW key \in Key, Approval!Consume(id, u, digest, key)
  PROVE  /\ request' \in Requests
         /\ \/ UNCHANGED request
            \/ Moves(id, "consumed") /\ request[id].state = "approved"
            \/ Moves(id, "expired") /\ request[id].state = "pending"
         /\ Approval!ConsumeAnswer(request[id], digest, key) \in {"consumed", "repeated"}
              => request'[id].state = "consumed"
<1> DEFINE answer == Approval!ConsumeAnswer(request[id], digest, key)
<1>1. request[id] \in Approval!Request
  BY RequestType DEF Approval!Consume
<1>2. CASE answer = "consumed"
  <2>1. /\ request[id].state = "approved"
        /\ request' = [request EXCEPT ![id] =
             [@ EXCEPT !.state = "consumed", !.consumptionKey = key, !.consumer = u]]
    BY <1>2 DEF Approval!Consume, Approval!ConsumeAnswer
  <2> QED BY <1>1, <1>2, <2>1 DEF Requests, Moves, Approval!Request, Approval!State
<1>3. CASE answer = "expired"
  <2>1. /\ request[id].state = "pending"
        /\ request' = [request EXCEPT ![id] = [@ EXCEPT !.state = "expired"]]
    BY <1>3 DEF Approval!Consume, Approval!ConsumeAnswer, Approval!IsExpired
  <2> QED BY <1>1, <1>3, <2>1 DEF Requests, Moves, Approval!Request, Approval!State
<1>4. CASE answer \notin {"consumed", "expired"}
  <2>1. UNCHANGED request
    BY <1>4 DEF Requests, Approval!Consume
  <2>2. answer = "repeated" => request[id].state = "consumed"
    BY DEF Approval!ConsumeAnswer
  <2> QED BY <1>4, <2>1, <2>2
<1> QED BY <1>2, <1>3, <1>4

LEMMA DecideMoves ==
  ASSUME request \in Requests, NEW id \in Run, NEW u \in User,
         NEW decision \in Approval!Decision, NEW key \in Key,
         Approval!Decide(id, u, decision, key)
  PROVE  /\ request' \in Requests
         /\ \/ UNCHANGED request
            \/ \E s \in {"approved", "rejected", "expired"} : Moves(id, s) /\ request[id].state = "pending"
<1> DEFINE answer == Approval!DecideAnswer(request[id], decision, key)
<1>1. request[id] \in Approval!Request
  BY RequestType DEF Approval!Decide
<1>2. CASE answer = "decided"
  <2>1. /\ request[id].state = "pending"
        /\ request' = [request EXCEPT ![id] =
             [@ EXCEPT !.state = decision, !.decisionKey = key, !.decider = u]]
    BY <1>2 DEF Approval!Decide, Approval!DecideAnswer
  <2>2. Moves(id, decision)
    BY <1>1, <2>1 DEF Requests, Moves, Approval!Request, Approval!Decision
  <2>3. request' \in Requests
    BY <1>1, <2>1 DEF Requests, Approval!Request, Approval!State, Approval!Decision
  <2> QED BY <2>1, <2>2, <2>3 DEF Approval!Decision
<1>3. CASE answer = "expired"
  <2>1. /\ request[id].state = "pending"
        /\ request' = [request EXCEPT ![id] = [@ EXCEPT !.state = "expired"]]
    BY <1>3 DEF Approval!Decide, Approval!DecideAnswer, Approval!IsExpired
  <2>2. Moves(id, "expired") /\ request' \in Requests
    BY <1>1, <2>1 DEF Requests, Moves, Approval!Request, Approval!State
  <2> QED BY <2>1, <2>2
<1>4. CASE answer \notin {"decided", "expired"}
  <2>1. UNCHANGED request
    BY <1>4 DEF Requests, Approval!Decide
  <2> QED BY <2>1
<1> QED BY <1>2, <1>3, <1>4

LEMMA CancelMoves ==
  ASSUME request \in Requests, NEW id \in Run, NEW u \in User, Approval!Cancel(id, u)
  PROVE  /\ request' \in Requests
         /\ \E s \in {"cancelled", "expired"} :
              Moves(id, s) /\ request[id].state \in {"pending", "approved"}
<1>1. request[id] \in Approval!Request
  BY RequestType DEF Approval!Cancel
<1>2. PICK s \in {"cancelled", "expired"} : request' = [request EXCEPT ![id].state = s]
  BY DEF Approval!Cancel
<1>3. request[id].state \in {"pending", "approved"}
  BY DEF Approval!Cancel, Approval!IsExpired
<1>4. Moves(id, s) /\ request' \in Requests
  BY <1>1, <1>2 DEF Requests, Moves, Approval!Request, Approval!State
<1> QED BY <1>3, <1>4

LEMMA DeadlineMoves ==
  ASSUME request \in Requests, NEW id \in Run, Approval!DeadlinePasses(id)
  PROVE  request' \in Requests /\ Moves(id, request[id].state)
<1>1. request[id] \in Approval!Request
  BY RequestType DEF Approval!DeadlinePasses
<1> QED BY <1>1 DEF Requests, Moves, Approval!DeadlinePasses, Approval!Request

\* A request that moves, and never away from consumed, only grows.
LEMMA MovesGrow ==
  ASSUME NEW id \in Run, NEW s \in Approval!State, Moves(id, s),
         request[id].state = "consumed" => s = "consumed"
  PROVE  Grows(request, request')
BY DEF Moves, Grows, Approval!Request, Approval!State

-----------------------------------------------------------------------------
(* What is left alone stays sound; what is written must be sound.          *)

LEMMA RowsKept ==
  ASSUME RowsSound, UNCHANGED row, Grows(request, request')
  PROVE  RowsSound'
BY SoundStable DEF RowsSound

LEMMA RowWritten ==
  ASSUME RepairTypeOK, RowsSound, Grows(request, request'), NEW t \in Task, NEW r,
         row' = [row EXCEPT ![t] = r], Sound(request', r, t)
  PROVE  RowsSound'
<1> SUFFICES ASSUME NEW j \in Task PROVE Sound(request', row'[j], j)
  BY DEF RowsSound
<1>1. CASE j = t
  BY <1>1 DEF RepairTypeOK
<1>2. CASE j # t
  <2>1. row'[j] = row[j]
    BY <1>2 DEF RepairTypeOK
  <2>2. Sound(request', row[j], j)
    BY SoundStable DEF RowsSound
  <2> QED BY <2>1, <2>2
<1> QED BY <1>1, <1>2

LEMMA CallsKept ==
  ASSUME CallsSound, UNCHANGED call, Grows(request, request')
  PROVE  CallsSound'
BY SoundStable DEF CallsSound, CallSound

LEMMA CallMoved ==
  ASSUME RepairTypeOK, CallsSound, Grows(request, request'), NEW c \in Client, NEW x,
         call' = [call EXCEPT ![c] = x], CallSound(request', x)
  PROVE  CallsSound'
<1> SUFFICES ASSUME NEW d \in Client PROVE CallSound(request', call'[d])
  BY DEF CallsSound
<1>1. CASE d = c
  BY <1>1 DEF RepairTypeOK
<1>2. CASE d # c
  <2>1. call'[d] = call[d]
    BY <1>2 DEF RepairTypeOK
  <2>2. CallSound(request', call[d])
    BY SoundStable DEF CallsSound, CallSound
  <2> QED BY <2>1, <2>2
<1> QED BY <1>1, <1>2

LEMMA ShippedKept ==
  ASSUME ShippedSound, UNCHANGED shipped, Grows(request, request')
  PROVE  ShippedSound'
BY AskedStable DEF ShippedSound

\* Worker v is as it was.
Idle(v) ==
  /\ step'[v] = step[v] /\ copy'[v] = copy[v] /\ pc'[v] = pc[v]
  /\ job'[v].task = job[v].task

LEMMA CopyKept ==
  ASSUME CopiesSound, Grows(request, request'), NEW v \in Worker, Idle(v)
  PROVE  CopySound(request', step'[v], pc'[v], job'[v].task, copy'[v])
<1>1. CopySound(request', step[v], pc[v], job[v].task, copy[v])
  BY SoundStable DEF CopiesSound, CopySound
<1> QED BY <1>1 DEF Idle

\* A worker step in which only worker w moves.
LEMMA CopyMoved ==
  ASSUME CopiesSound, Grows(request, request'), NEW w \in Worker,
         \A v \in Worker : v # w => Idle(v),
         CopySound(request', step'[w], pc'[w], job'[w].task, copy'[w])
  PROVE  CopiesSound'
<1> SUFFICES ASSUME NEW v \in Worker
             PROVE  CopySound(request', step'[v], pc'[v], job'[v].task, copy'[v])
  BY DEF CopiesSound
<1> QED BY CopyKept

LEMMA CopiesKept ==
  ASSUME CopiesSound, Grows(request, request'), \A v \in Worker : Idle(v)
  PROVE  CopiesSound'
<1> SUFFICES ASSUME NEW v \in Worker
             PROVE  CopySound(request', step'[v], pc'[v], job'[v].task, copy'[v])
  BY DEF CopiesSound
<1> QED BY CopyKept

\* A worker inside Process holds a job.
LEMMA WorkingJob ==
  ASSUME QueueInv, NEW w \in Worker, pc[w] = "processing"
  PROVE  job[w] \in Job /\ job[w].task \in Task /\ ThisRun(w) \in Run
BY DEF QueueInv, TypeOK, JobHeld, Job, ThisRun, Run

\* What Return does to the worker, and that nobody else notices.
LEMMA ReturnFacts ==
  ASSUME QueueInv, RepairTypeOK, NEW w \in Worker, NEW s \in Outcome, Return(w, s)
  PROVE  /\ pc[w] = "processing" /\ pc'[w] = "completing" /\ step'[w] = "none"
         /\ copy'[w] = NoRow /\ job'[w].task = job[w].task /\ job'[w].outcome = s
         /\ \A v \in Worker : v # w => Idle(v) /\ job'[v] = job[v]
         /\ UNCHANGED <<taskRows, run>>
         /\ step' \in [Worker -> {"none", "load", "start", "execute", "save", "find",
                                  "push", "open", "record"}]
         /\ copy' \in [Worker -> Row \cup {NoRow}]
         /\ seen' \in [Worker -> 0 .. MaxAttempts]
<1>1. job[w] \in Job
  BY WorkingJob DEF Return, Process
<1>2. /\ pc[w] = "processing" /\ pc'[w] = "completing"
      /\ job'[w].task = job[w].task /\ job'[w].outcome = s
      /\ \A v \in Worker : v # w => pc'[v] = pc[v] /\ job'[v] = job[v]
  BY <1>1 DEF QueueInv, TypeOK, Return, Process, Job
<1>3. /\ step'[w] = "none" /\ copy'[w] = NoRow
      /\ \A v \in Worker : v # w => step'[v] = step[v] /\ copy'[v] = copy[v]
  BY DEF RepairTypeOK, Return, Goto
<1>4. /\ step' \in [Worker -> {"none", "load", "start", "execute", "save", "find",
                               "push", "open", "record"}]
      /\ copy' \in [Worker -> Row \cup {NoRow}]
      /\ seen' \in [Worker -> 0 .. MaxAttempts]
  BY QueueAssumption DEF RepairTypeOK, Return, Goto
<1> QED BY <1>2, <1>3, <1>4 DEF Idle, Return, Process

-----------------------------------------------------------------------------
(* The processor's steps preserve the invariant.                           *)

\* A step that only moves worker w on within its phase.
LEMMA MovesOn ==
  ASSUME RepairTypeOK, NEW w \in Worker, NEW s, Goto(w, s), UNCHANGED vars,
         \A v \in Worker : v # w => copy'[v] = copy[v]
  PROVE  /\ step'[w] = s /\ pc'[w] = pc[w] /\ job' = job
         /\ \A v \in Worker : v # w => Idle(v) /\ step'[v] = step[v]
BY DEF RepairTypeOK, Goto, Idle, vars, workers

LEMMA ClaimKeeps ==
  ASSUME QueueInv, RepairInv, NEW w \in Worker, NEW t \in Task, ClaimRepair(w, t)
  PROVE  RepairInv'
<1> USE DEF RepairInv
<1>1. Grows(request, request')
  BY GrowsReflexive DEF ClaimRepair
<1>2. /\ pc[w] = "idle" /\ pc'[w] = "processing" /\ job'[w].task = t /\ job'[w].outcome = "none"
      /\ \A v \in Worker : v # w => pc'[v] = pc[v] /\ job'[v] = job[v]
  BY DEF QueueInv, TypeOK, ClaimRepair, ClaimTask
<1>3. /\ step'[w] = "load" /\ copy'[w] = copy[w]
      /\ \A v \in Worker : v # w => step'[v] = step[v] /\ copy'[v] = copy[v]
  BY DEF RepairTypeOK, ClaimRepair, Goto
<1>4. RepairTypeOK'
  BY DEF RepairTypeOK, ClaimRepair, Goto, provider
<1>5. copy[w] = NoRow
  BY <1>2 DEF CopiesSound, CopySound
<1>6. CopiesSound'
  BY <1>1, <1>2, <1>3, <1>5, CopyMoved DEF Idle, CopySound
<1>7. DraftsSeen'
  <2>1. SucceededHasDraft'
    BY DEF QueueInv, TypeOK, DraftsSeen, SucceededHasDraft, ClaimRepair, ClaimTask, provider
  <2>2. \A v \in Worker : step'[v] = "record" \/ job'[v].outcome = "succeeded"
                             => draft'[job'[v].task]
    BY <1>2, <1>3 DEF DraftsSeen, ClaimRepair, provider
  <2> QED BY <2>1, <2>2 DEF DraftsSeen
<1> QED BY <1>1, <1>4, <1>6, <1>7, RowsKept, CallsKept, ShippedKept DEF ClaimRepair, provider

\* The phase of a sound row is one that the row has consent for.
LEMMA PhaseSound ==
  ASSUME NEW r \in Row, NEW t, NEW req, Sound(req, r, t), Phase(r) # "none"
  PROVE  /\ [r EXCEPT !.state = Phase(r)] \in Row
         /\ [r EXCEPT !.state = Phase(r)].state \in {"planning", "patching", "patch_approved"}
         /\ [r EXCEPT !.state = Phase(r)].state = Phase(r)
         /\ Sound(req, [r EXCEPT !.state = Phase(r)], t)
<1> DEFINE n == [r EXCEPT !.state = Phase(r)]
<1>1. /\ n.state = Phase(r) /\ n.plan = r.plan /\ n.planApproval = r.planApproval
      /\ n.patch = r.patch /\ n.patchApproval = r.patchApproval
  BY DEF Row
<1>2. Phase(r) \in {"planning", "patching", "patch_approved"}
  BY DEF Phase
<1>3. n \in Row
  BY <1>2 DEF Row, RowState
<1>4. /\ NoPlan(n) <=> NoPlan(r)
      /\ NoPatch(n) <=> NoPatch(r)
      /\ PlanPassed(req, n, t) <=> PlanPassed(req, r, t)
      /\ PatchPassed(req, n, t) <=> PatchPassed(req, r, t)
  BY <1>1 DEF NoPlan, NoPatch, PlanPassed, PatchPassed
<1>5. CASE Phase(r) = "planning"
  <2>1. NoPlan(r) /\ NoPatch(r)
    BY <1>5 DEF Phase, Sound, NoPlan, NoPatch, PlanPassed, PatchPassed
  <2> QED BY <1>1, <1>2, <1>3, <1>4, <1>5, <2>1 DEF Sound
<1>6. CASE Phase(r) = "patching"
  <2>1. PlanPassed(req, r, t) /\ NoPatch(r)
    BY <1>6 DEF Phase, Sound, NoPlan, NoPatch, PlanPassed, PatchPassed
  <2> QED BY <1>1, <1>2, <1>3, <1>4, <1>6, <2>1 DEF Sound
<1>7. CASE Phase(r) = "patch_approved"
  <2>1. PlanPassed(req, r, t) /\ PatchPassed(req, r, t)
    BY <1>7 DEF Phase, Sound, NoPlan, NoPatch, PlanPassed, PatchPassed
  <2> QED BY <1>1, <1>2, <1>3, <1>4, <1>7, <2>1 DEF Sound
<1> QED BY <1>2, <1>5, <1>6, <1>7

LEMMA LoadKeeps ==
  ASSUME QueueInv, RepairInv, NEW w \in Worker, Load(w)
  PROVE  RepairInv'
<1> USE DEF RepairInv
<1> DEFINE t == job[w].task
           r == row[t]
           n == [r EXCEPT !.state = Phase(r)]
<1>1. pc[w] = "processing" /\ t \in Task
  BY WorkingJob DEF Load, At
<1>2. r \in Row
  BY <1>1 DEF RepairTypeOK, Load, Phase, NoRow
<1>3. Sound(request, r, t) /\ Phase(r) # "none"
  BY <1>1 DEF RowsSound, Load
<1>4. /\ n \in Row /\ n.state \in {"planning", "patching", "patch_approved"}
      /\ n.state = Phase(r) /\ Sound(request, n, t)
  BY <1>2, <1>3, PhaseSound
<1>5. /\ copy' = [copy EXCEPT ![w] = n] /\ request' = request /\ UNCHANGED vars
      /\ Goto(w, IF Phase(r) = "patch_approved" THEN "find" ELSE "start")
  BY DEF Load
<1>6. copy'[w] = n /\ \A v \in Worker : v # w => copy'[v] = copy[v]
  BY <1>5 DEF RepairTypeOK
<1>7. /\ step'[w] = IF Phase(r) = "patch_approved" THEN "find" ELSE "start"
      /\ pc'[w] = pc[w] /\ job' = job
      /\ \A v \in Worker : v # w => Idle(v) /\ step'[v] = step[v]
  BY <1>5, <1>6, MovesOn
<1>8. RepairTypeOK'
  BY <1>4, <1>5 DEF RepairTypeOK, Load, Goto, provider
<1>9. Grows(request, request')
  BY <1>5, GrowsReflexive
<1>10. CopiesSound'
  <2>1. CopySound(request', step'[w], pc'[w], job'[w].task, copy'[w])
    <3> HIDE DEF n
    <3> QED BY <1>1, <1>4, <1>5, <1>6, <1>7 DEF CopySound, StateAt
  <2> QED BY <1>7, <1>9, <2>1, CopyMoved
<1>11. DraftsSeen'
  BY <1>5, <1>7 DEF DraftsSeen, SucceededHasDraft, Load, provider, vars, taskRows
<1> QED BY <1>8, <1>9, <1>10, <1>11, RowsKept, CallsKept, ShippedKept DEF Load, provider

LEMMA StartKeeps ==
  ASSUME QueueInv, RepairInv, NEW w \in Worker, Start(w)
  PROVE  RepairInv'
<1> USE DEF RepairInv
<1>1. pc[w] = "processing" /\ job[w].task \in Task /\ step[w] = "start"
  BY WorkingJob DEF Start, At
<1>2. /\ row' = [row EXCEPT ![job[w].task] = copy[w]] /\ request' = request
      /\ UNCHANGED vars /\ copy' = copy /\ Goto(w, "execute")
  BY DEF Start
<1>3. /\ step'[w] = "execute" /\ pc'[w] = pc[w] /\ job' = job
      /\ \A v \in Worker : v # w => Idle(v) /\ step'[v] = step[v]
  BY <1>2, MovesOn
<1>4. copy[w].state \in {"planning", "patching"} /\ Sound(request, copy[w], job[w].task)
  BY <1>1 DEF CopiesSound, CopySound, StateAt
<1>5. RepairTypeOK'
  BY <1>1, <1>2 DEF RepairTypeOK, Start, Goto, provider
<1>6. Grows(request, request')
  BY <1>2, GrowsReflexive
<1>7. RowsSound'
  BY <1>1, <1>2, <1>4, <1>6, RowWritten
<1>8. CopiesSound'
  <2>1. CopySound(request', step'[w], pc'[w], job'[w].task, copy'[w])
    BY <1>1, <1>2, <1>3, <1>4 DEF CopySound, StateAt
  <2> QED BY <1>3, <1>6, <2>1, CopyMoved
<1>9. DraftsSeen'
  BY <1>2, <1>3 DEF DraftsSeen, SucceededHasDraft, Start, provider, vars, taskRows
<1> QED BY <1>5, <1>6, <1>7, <1>8, <1>9, CallsKept, ShippedKept DEF Start, provider

\* The last step of a phase: the row, if it is written, is sound, and success
\* is only returned for a draft that exists.
LEMMA ReturnKeeps ==
  ASSUME QueueInv, RepairInv, NEW w \in Worker, NEW s \in Outcome, Return(w, s),
         UNCHANGED <<request, provider, call>>,
         row' \in [Task -> Row \cup {NoRow}], RowsSound',
         s = "succeeded" => draft[job[w].task]
  PROVE  RepairInv'
<1> USE DEF RepairInv
<1>1. /\ pc[w] = "processing" /\ pc'[w] = "completing" /\ step'[w] = "none"
      /\ copy'[w] = NoRow /\ job'[w].task = job[w].task /\ job'[w].outcome = s
      /\ \A v \in Worker : v # w => Idle(v) /\ job'[v] = job[v]
      /\ UNCHANGED <<taskRows, run>>
  BY ReturnFacts
<1>2. RepairTypeOK'
  BY ReturnFacts DEF RepairTypeOK, provider
<1>3. Grows(request, request')
  BY GrowsReflexive
<1>4. CopiesSound'
  BY <1>1, <1>3, CopyMoved DEF CopySound
<1>5. DraftsSeen'
  <2>1. SucceededHasDraft'
    BY <1>1 DEF DraftsSeen, SucceededHasDraft, taskRows, provider
  <2>2. \A v \in Worker : step'[v] = "record" \/ job'[v].outcome = "succeeded"
                             => draft'[job'[v].task]
    BY <1>1 DEF DraftsSeen, Idle, provider
  <2> QED BY <2>1, <2>2 DEF DraftsSeen
<1> QED BY <1>2, <1>3, <1>4, <1>5, CallsKept, ShippedKept DEF provider

\* A worker inside a phase holds a row of its own task, and a sound one.
LEMMA WorkingCopy ==
  ASSUME QueueInv, RepairInv, NEW w \in Worker, pc[w] = "processing",
         step[w] \notin {"none", "load"}
  PROVE  /\ job[w].task \in Task /\ copy[w] \in Row
         /\ copy[w].state \in StateAt(step[w]) /\ Sound(request, copy[w], job[w].task)
<1>1. job[w].task \in Task
  BY WorkingJob
<1>2. copy[w].state \in StateAt(step[w]) /\ Sound(request, copy[w], job[w].task)
  BY DEF RepairInv, CopiesSound, CopySound
<1>3. copy[w] # NoRow
  BY <1>2 DEF StateAt, NoRow
<1> QED BY <1>1, <1>2, <1>3 DEF RepairInv, RepairTypeOK

LEMMA NothingToRunKeeps ==
  ASSUME QueueInv, RepairInv, NEW w \in Worker, NothingToRun(w)
  PROVE  RepairInv'
<1>1. RowsSound' /\ row' \in [Task -> Row \cup {NoRow}]
  BY GrowsReflexive, RowsKept DEF NothingToRun, RepairInv, RepairTypeOK
<1> QED BY <1>1, ReturnKeeps DEF NothingToRun, Outcome

LEMMA PersistFailsKeeps ==
  ASSUME QueueInv, RepairInv, NEW w \in Worker, PersistFails(w)
  PROVE  RepairInv'
<1>1. RowsSound' /\ row' \in [Task -> Row \cup {NoRow}]
  BY GrowsReflexive, RowsKept DEF PersistFails, RepairInv, RepairTypeOK
<1> QED BY <1>1, ReturnKeeps DEF PersistFails, Outcome

LEMMA SaveKeeps ==
  ASSUME QueueInv, RepairInv, NEW w \in Worker, Save(w)
  PROVE  RepairInv'
<1>1. /\ job[w].task \in Task /\ copy[w] \in Row
      /\ Sound(request, copy[w], job[w].task)
  BY WorkingCopy DEF Save, At
<1>2. row' = [row EXCEPT ![job[w].task] = copy[w]] /\ request' = request
  BY DEF Save
<1>3. RowsSound'
  BY <1>1, <1>2, GrowsReflexive, RowWritten DEF RepairInv
<1>4. row' \in [Task -> Row \cup {NoRow}]
  BY <1>1, <1>2 DEF RepairInv, RepairTypeOK
<1> QED BY <1>3, <1>4, ReturnKeeps DEF Save, Outcome

\* A sound row stays sound when its phase is given up, or done.
LEMMA SettledSound ==
  ASSUME NEW r \in Row, NEW t, NEW req, Sound(req, r, t), NEW s,
         \/ s = "failed" /\ r.state \in {"planning", "patching", "patch_approved"}
         \/ s = "published" /\ r.state = "patch_approved"
  PROVE  [r EXCEPT !.state = s] \in Row /\ Sound(req, [r EXCEPT !.state = s], t)
<1> DEFINE n == [r EXCEPT !.state = s]
<1>1. /\ n.state = s /\ n.plan = r.plan /\ n.planApproval = r.planApproval
      /\ n.patch = r.patch /\ n.patchApproval = r.patchApproval
  BY DEF Row
<1>2. n \in Row
  BY DEF Row, RowState
<1>3. /\ NoPlan(n) <=> NoPlan(r)
      /\ NoPatch(n) <=> NoPatch(r)
      /\ PlanPassed(req, n, t) <=> PlanPassed(req, r, t)
      /\ PatchPassed(req, n, t) <=> PatchPassed(req, r, t)
  BY <1>1 DEF NoPlan, NoPatch, PlanPassed, PatchPassed
<1> QED BY <1>1, <1>2, <1>3 DEF Sound

LEMMA RecordKeeps ==
  ASSUME QueueInv, RepairInv, NEW w \in Worker, Record(w)
  PROVE  RepairInv'
<1> DEFINE n == [copy[w] EXCEPT !.state = "published"]
<1>1. /\ job[w].task \in Task /\ copy[w] \in Row /\ copy[w].state = "patch_approved"
      /\ Sound(request, copy[w], job[w].task)
  BY WorkingCopy DEF Record, At, StateAt
<1>2. row' = [row EXCEPT ![job[w].task] = n] /\ request' = request
  BY DEF Record
<1>3. n \in Row /\ Sound(request', n, job[w].task)
  BY <1>1, <1>2, SettledSound
<1> HIDE DEF n
<1>4. RowsSound'
  BY <1>1, <1>2, <1>3, GrowsReflexive, RowWritten DEF RepairInv
<1>5. row' \in [Task -> Row \cup {NoRow}]
  BY <1>2, <1>3 DEF RepairInv, RepairTypeOK
<1>6. draft[job[w].task]
  BY DEF RepairInv, DraftsSeen, Record, At
<1> QED BY <1>4, <1>5, <1>6, ReturnKeeps DEF Record, Outcome

LEMMA FailKeeps ==
  ASSUME QueueInv, RepairInv, NEW w \in Worker, Fail(w)
  PROVE  RepairInv'
<1> DEFINE n == [copy[w] EXCEPT !.state = "failed"]
<1>1. /\ job[w].task \in Task /\ copy[w] \in Row
      /\ copy[w].state \in {"planning", "patching", "patch_approved"}
      /\ Sound(request, copy[w], job[w].task)
  BY WorkingCopy DEF Fail, At, StateAt
<1>2. row' = [row EXCEPT ![job[w].task] = n] /\ request' = request
  BY DEF Fail
<1>3. n \in Row /\ Sound(request', n, job[w].task)
  BY <1>1, <1>2, SettledSound
<1> HIDE DEF n
<1>4. RowsSound'
  BY <1>1, <1>2, <1>3, GrowsReflexive, RowWritten DEF RepairInv
<1>5. row' \in [Task -> Row \cup {NoRow}]
  BY <1>2, <1>3 DEF RepairInv, RepairTypeOK
<1> QED BY <1>4, <1>5, ReturnKeeps DEF Fail, Outcome

\* A copy that has just asked for the approval of its new document.
LEMMA PlanAskedSound ==
  ASSUME NEW r \in Row, NEW t, NEW req, NEW id \in Run, Sound(req, r, t),
         r.state = "planning", Asked(req, id, t, "repair_plan"), NEW n,
         n = [r EXCEPT !.state = "awaiting_plan_approval", !.plan = id, !.planApproval = id]
  PROVE  n \in Row /\ n.state = "awaiting_plan_approval" /\ Sound(req, n, t)
<1>1. /\ n \in Row /\ n.state = "awaiting_plan_approval" /\ n.plan = id /\ n.planApproval = id
      /\ n.patch = r.patch /\ n.patchApproval = r.patchApproval
  BY DEF Row, RowState
<1>2. NoPatch(r)
  BY DEF Sound
<1> QED BY <1>1, <1>2 DEF Sound, PlanAsked, NoPatch

LEMMA PatchAskedSound ==
  ASSUME NEW r \in Row, NEW t, NEW req, NEW id \in Run, Sound(req, r, t),
         r.state = "patching", Asked(req, id, t, "publish_patch"), NEW n,
         n = [r EXCEPT !.state = "awaiting_patch_approval", !.patch = id, !.patchApproval = id]
  PROVE  n \in Row /\ n.state = "awaiting_patch_approval" /\ Sound(req, n, t)
<1>1. /\ n \in Row /\ n.state = "awaiting_patch_approval" /\ n.patch = id /\ n.patchApproval = id
      /\ n.plan = r.plan /\ n.planApproval = r.planApproval
  BY DEF Row, RowState
<1>2. PlanPassed(req, r, t)
  BY DEF Sound
<1> QED BY <1>1, <1>2 DEF Sound, PlanPassed, PatchAsked

LEMMA RequestApprovalKeeps ==
  ASSUME QueueInv, RepairInv, NEW w \in Worker, NEW u \in User, RequestApproval(w, u)
  PROVE  RepairInv'
<1> USE DEF RepairInv
<1> DEFINE t == job[w].task
           id == ThisRun(w)
           c == copy[w]
           planning == c.state = "planning"
           action == IF planning THEN "repair_plan" ELSE "publish_patch"
           n == IF planning
                THEN [c EXCEPT !.state = "awaiting_plan_approval", !.plan = id,
                               !.planApproval = id]
                ELSE [c EXCEPT !.state = "awaiting_patch_approval", !.patch = id,
                               !.patchApproval = id]
<1>1. /\ pc[w] = "processing" /\ step[w] = "execute"
      /\ Approval!Create(id, action, id, u, Approval!Privileged)
      /\ copy' = [copy EXCEPT ![w] = n] /\ Goto(w, "save")
      /\ UNCHANGED <<vars, row, seen, provider, call>>
  BY DEF RequestApproval, At
<1>2. /\ t \in Task /\ c \in Row /\ c.state \in {"planning", "patching"}
      /\ Sound(request, c, t)
  BY <1>1, WorkingCopy DEF StateAt
<1>3. id \in Run /\ id[1] = t
  BY <1>1, WorkingJob DEF ThisRun
<1>4. /\ request' \in Requests /\ Grows(request, request')
      /\ Asked(request', id, t, action)
  BY <1>1, <1>3, CreateGrows DEF RepairTypeOK, Requests, Asked
<1>5. n \in Row /\ n.state \in StateAt("save") /\ Sound(request', n, t)
  <2>1. Sound(request', c, t)
    BY <1>2, <1>4, SoundStable
  <2> HIDE DEF id, t, c
  <2>2. CASE planning
    <3>1. c.state = "planning" /\ Asked(request', id, t, "repair_plan")
      BY <1>4, <2>2
    <3>2. n = [c EXCEPT !.state = "awaiting_plan_approval", !.plan = id, !.planApproval = id]
      BY <2>2
    <3> HIDE DEF n
    <3>3. n \in Row /\ n.state = "awaiting_plan_approval" /\ Sound(request', n, t)
      BY <1>2, <1>3, <2>1, <3>1, <3>2, PlanAskedSound
    <3> QED BY <3>3 DEF StateAt
  <2>3. CASE ~planning
    <3>1. c.state = "patching" /\ Asked(request', id, t, "publish_patch")
      BY <1>2, <1>4, <2>3
    <3>2. n = [c EXCEPT !.state = "awaiting_patch_approval", !.patch = id, !.patchApproval = id]
      BY <2>3
    <3> HIDE DEF n
    <3>3. n \in Row /\ n.state = "awaiting_patch_approval" /\ Sound(request', n, t)
      BY <1>2, <1>3, <2>1, <3>1, <3>2, PatchAskedSound
    <3> QED BY <3>3 DEF StateAt
  <2> QED BY <2>2, <2>3
<1> HIDE DEF n
<1>6. copy'[w] = n /\ \A v \in Worker : v # w => copy'[v] = copy[v]
  BY <1>1 DEF RepairTypeOK
<1>7. /\ step'[w] = "save" /\ pc'[w] = pc[w] /\ job' = job
      /\ \A v \in Worker : v # w => Idle(v) /\ step'[v] = step[v]
  BY <1>1, <1>6, MovesOn
<1>8. RepairTypeOK'
  BY <1>1, <1>4, <1>5 DEF RepairTypeOK, Requests, Goto, provider
<1>9. CopiesSound'
  <2>1. CopySound(request', step'[w], pc'[w], job'[w].task, copy'[w])
    BY <1>1, <1>5, <1>6, <1>7 DEF CopySound
  <2> QED BY <1>4, <1>7, <2>1, CopyMoved
<1>10. DraftsSeen'
  BY <1>1, <1>7 DEF DraftsSeen, SucceededHasDraft, provider, vars, taskRows
<1> QED BY <1>1, <1>4, <1>8, <1>9, <1>10, RowsKept, CallsKept, ShippedKept DEF provider

\* A step of a publishing worker that touches nothing but the provider.
LEMMA PublishingKeeps ==
  ASSUME QueueInv, RepairInv, NEW w \in Worker, pc[w] = "processing",
         step[w] \in {"find", "push", "open"}, NEW s \in {"push", "open", "record"},
         Goto(w, s), UNCHANGED <<vars, row, request, copy, call>>,
         seen' \in [Worker -> 0 .. MaxAttempts], head' \in [Task -> 0 .. MaxAttempts],
         draft' \in [Task -> BOOLEAN], \A t \in Task : draft[t] => draft'[t],
         s = "record" => draft'[job[w].task],
         shipped' \in {shipped, shipped \cup {copy[w].patch}}
  PROVE  RepairInv'
<1> USE DEF RepairInv
<1>1. /\ job[w].task \in Task /\ copy[w] \in Row /\ copy[w].state = "patch_approved"
      /\ Sound(request, copy[w], job[w].task)
  BY WorkingCopy DEF StateAt
<1>2. /\ step'[w] = s /\ pc'[w] = pc[w] /\ job' = job
      /\ \A v \in Worker : v # w => Idle(v) /\ step'[v] = step[v]
  BY MovesOn
<1>3. Passed(request, copy[w].patch, job[w].task, "publish_patch")
  BY <1>1 DEF Sound, PatchPassed
<1>4. copy[w].patch \in Run /\ copy[w].patch[1] = job[w].task
  BY <1>3 DEF Passed, Asked
<1>5. Grows(request, request')
  BY GrowsReflexive
<1>6. RepairTypeOK'
  BY <1>4 DEF RepairTypeOK, Goto
<1>7. CopiesSound'
  <2>1. CopySound(request', step'[w], pc'[w], job'[w].task, copy'[w])
    BY <1>1, <1>2 DEF CopySound, StateAt
  <2> QED BY <1>2, <1>5, <2>1, CopyMoved
<1>8. ShippedSound'
  BY <1>3, <1>4 DEF ShippedSound
<1>9. DraftsSeen'
  <2>1. SucceededHasDraft'
    BY DEF DraftsSeen, SucceededHasDraft, vars, taskRows
  <2>2. ASSUME NEW v \in Worker, step'[v] = "record" \/ job'[v].outcome = "succeeded"
        PROVE  draft'[job'[v].task]
    <3>1. CASE v = w
      <4>1. CASE s = "record"
        BY <1>2, <3>1, <4>1
      <4>2. CASE s # "record"
        BY <1>1, <1>2, <2>2, <3>1, <4>2 DEF DraftsSeen
      <4> QED BY <4>1, <4>2
    <3>2. CASE v # w
      <4>1. step'[v] = step[v] /\ job'[v] = job[v]
        BY <1>2, <3>2
      <4>2. draft[job[v].task] /\ job[v] # NoJob
        BY <2>2, <4>1 DEF DraftsSeen, NoJob, QueueInv, JobHeld, CopiesSound, CopySound
      <4>3. job[v].task \in Task
        BY <4>2 DEF QueueInv, TypeOK, Job
      <4> QED BY <4>1, <4>2, <4>3
    <3> QED BY <3>1, <3>2
  <2> QED BY <2>1, <2>2 DEF DraftsSeen
<1> QED BY <1>5, <1>6, <1>7, <1>8, <1>9, RowsKept, CallsKept

LEMMA FindDraftKeeps ==
  ASSUME QueueInv, RepairInv, NEW w \in Worker, FindDraft(w)
  PROVE  RepairInv'
BY PublishingKeeps DEF RepairInv, RepairTypeOK, FindDraft, At, provider

LEMMA ReadHeadKeeps ==
  ASSUME QueueInv, RepairInv, NEW w \in Worker, ReadHead(w)
  PROVE  RepairInv'
<1>1. pc[w] = "processing" /\ step[w] = "find" /\ job[w].task \in Task
  BY WorkingJob DEF ReadHead, At
<1>2. seen' \in [Worker -> 0 .. MaxAttempts]
  BY <1>1 DEF RepairInv, RepairTypeOK, ReadHead
<1> QED BY <1>1, <1>2, PublishingKeeps DEF RepairInv, RepairTypeOK, ReadHead, provider

LEMMA PushKeeps ==
  ASSUME QueueInv, RepairInv, NEW w \in Worker, Push(w)
  PROVE  RepairInv'
<1>1. pc[w] = "processing" /\ step[w] = "push" /\ job[w] \in Job /\ job[w].task \in Task
  BY WorkingJob DEF Push, At
<1>2. job[w].attempt \in 0 .. MaxAttempts
  BY <1>1, QueueAssumption DEF Job, Attempt
<1>3. head' \in [Task -> 0 .. MaxAttempts]
  BY <1>1, <1>2 DEF RepairInv, RepairTypeOK, Push
<1> QED BY <1>1, <1>3, PublishingKeeps DEF RepairInv, RepairTypeOK, Push

LEMMA OpenDraftKeeps ==
  ASSUME QueueInv, RepairInv, NEW w \in Worker, OpenDraft(w)
  PROVE  RepairInv'
<1>1. pc[w] = "processing" /\ step[w] = "open" /\ job[w].task \in Task
  BY WorkingJob DEF OpenDraft, At
<1>2. /\ draft' \in [Task -> BOOLEAN] /\ draft'[job[w].task]
      /\ \A t \in Task : draft[t] => draft'[t]
  BY <1>1 DEF RepairInv, RepairTypeOK, OpenDraft
<1> QED BY <1>1, <1>2, PublishingKeeps DEF RepairInv, RepairTypeOK, OpenDraft

\* A step of the queue that moves no worker inside a phase, and that no worker
\* without a draft makes succeed.
LEMMA QueueStepKeeps ==
  ASSUME RepairInv, UNCHANGED repairVars, SucceededHasDraft',
         \A v \in Worker : step[v] # "none" => pc'[v] = pc[v] /\ job'[v].task = job[v].task,
         \A v \in Worker : job'[v].outcome = "succeeded" => job'[v] = job[v]
  PROVE  RepairInv'
<1> USE DEF RepairInv
<1>1. UNCHANGED <<row, request, step, copy, seen, head, draft, shipped, call>>
  BY DEF repairVars, local, provider
<1>2. RepairTypeOK'
  BY <1>1 DEF RepairTypeOK
<1>3. Grows(request, request')
  BY <1>1, GrowsReflexive
<1>4. CopiesSound'
  BY <1>1 DEF CopiesSound, CopySound
<1>5. DraftsSeen'
  <2>1. \A v \in Worker : step'[v] = "record" \/ job'[v].outcome = "succeeded"
                             => draft'[job'[v].task]
    BY <1>1 DEF DraftsSeen
  <2> QED BY <2>1 DEF DraftsSeen
<1> QED BY <1>1, <1>2, <1>3, <1>4, <1>5, RowsKept, CallsKept, ShippedKept

LEMMA CompleteKeeps ==
  ASSUME QueueInv, RepairInv, NEW w \in Worker, CompleteRepair(w)
  PROVE  RepairInv'
<1>1. pc[w] = "completing" /\ job[w] \in Job
  BY DEF QueueInv, TypeOK, JobHeld, CompleteRepair, CompleteTask
<1>2. step[w] = "none"
  BY <1>1 DEF RepairInv, CopiesSound, CopySound
<1>3. /\ job'[w] = NoJob
      /\ \A v \in Worker : v # w => pc'[v] = pc[v] /\ job'[v] = job[v]
  BY DEF QueueInv, TypeOK, CompleteRepair, CompleteTask
<1>4. SucceededHasDraft'
  <2>1. draft' = draft
    BY DEF CompleteRepair, repairVars, provider
  <2>2. \A t \in Task : status'[t] = "succeeded" =>
          status[t] = "succeeded" \/ (t = job[w].task /\ job[w].outcome = "succeeded")
    BY DEF QueueInv, TypeOK, CompleteRepair, CompleteTask
  <2> QED BY <2>1, <2>2 DEF RepairInv, DraftsSeen, SucceededHasDraft
<1> QED BY <1>2, <1>3, <1>4, QueueStepKeeps DEF CompleteRepair, NoJob

LEMMA CrashKeeps ==
  ASSUME QueueInv, RepairInv, NEW w \in Worker, CrashRepair(w)
  PROVE  RepairInv'
<1> USE DEF RepairInv
<1>1. /\ job'[w] = NoJob /\ UNCHANGED <<taskRows, run>>
      /\ \A v \in Worker : v # w => pc'[v] = pc[v] /\ job'[v] = job[v]
  BY DEF QueueInv, TypeOK, CrashRepair, Crash
<1>2. /\ step'[w] = "none" /\ copy'[w] = NoRow
      /\ \A v \in Worker : v # w => step'[v] = step[v] /\ copy'[v] = copy[v]
  BY DEF RepairTypeOK, CrashRepair, Goto
<1>3. RepairTypeOK'
  BY QueueAssumption DEF RepairTypeOK, CrashRepair, Goto, provider
<1>4. Grows(request, request')
  BY GrowsReflexive DEF CrashRepair
<1>5. CopiesSound'
  BY <1>1, <1>2, <1>4, CopyMoved DEF CopySound, Idle
<1>6. DraftsSeen'
  <2>1. SucceededHasDraft'
    BY <1>1 DEF DraftsSeen, SucceededHasDraft, taskRows, CrashRepair, provider
  <2>2. \A v \in Worker : step'[v] = "record" \/ job'[v].outcome = "succeeded"
                             => draft'[job'[v].task]
    BY <1>1, <1>2 DEF DraftsSeen, NoJob, CrashRepair, provider
  <2> QED BY <2>1, <2>2 DEF DraftsSeen
<1> QED BY <1>3, <1>4, <1>5, <1>6, RowsKept, CallsKept, ShippedKept DEF CrashRepair, provider

LEMMA RestartKeeps ==
  ASSUME QueueInv, RepairInv, NEW w \in Worker, RestartWorker(w)
  PROVE  RepairInv'
<1>1. step[w] = "none"
  BY DEF RepairInv, CopiesSound, CopySound, RestartWorker, Restart
<1>2. \A v \in Worker : v # w => pc'[v] = pc[v]
  BY DEF QueueInv, TypeOK, RestartWorker, Restart
<1>3. SucceededHasDraft' /\ job' = job
  BY DEF RepairInv, DraftsSeen, SucceededHasDraft, taskRows, repairVars, provider,
         RestartWorker, Restart
<1> QED BY <1>1, <1>2, <1>3, QueueStepKeeps DEF RestartWorker

-----------------------------------------------------------------------------
(* So do the steps of the API.                                             *)

LEMMA TaskStepKeeps ==
  ASSUME QueueInv, RepairInv, NEW t \in Task, RepairTaskStep(t)
  PROVE  RepairInv'
<1>1. CASE CreateRepair(t)
  <2> USE DEF RepairInv
  <2> DEFINE n == [NoRow EXCEPT !.state = "planning"]
  <2>1. row' = [row EXCEPT ![t] = n]
        /\ UNCHANGED <<vars, request, step, copy, seen, head, draft, shipped, call>>
    BY <1>1 DEF CreateRepair, InsertRow, local, provider
  <2>2. n \in Row /\ n.state = "planning" /\ NoPlan(n) /\ NoPatch(n)
    BY DEF Row, RowState, NoRow, NoPlan, NoPatch
  <2> HIDE DEF n
  <2>3. Sound(request', n, t)
    BY <2>2 DEF Sound
  <2>4. Grows(request, request')
    BY <2>1, GrowsReflexive
  <2>5. RepairTypeOK'
    BY <2>1, <2>2 DEF RepairTypeOK
  <2>6. RowsSound'
    BY <2>1, <2>3, <2>4, RowWritten
  <2>7. CopiesSound'
    BY <2>1, <2>4, CopiesKept DEF Idle, vars, workers
  <2>8. DraftsSeen'
    BY <2>1 DEF DraftsSeen, SucceededHasDraft, vars, taskRows, workers
  <2> QED BY <2>1, <2>4, <2>5, <2>6, <2>7, <2>8, CallsKept, ShippedKept
<1>2. CASE CreateRepairTask(t) \/ CancelRepairTask(t) \/ RetryRepairTask(t) \/ RepairLeaseExpires(t)
  <2>1. UNCHANGED repairVars /\ UNCHANGED workers
    BY <1>2 DEF CreateRepairTask, CancelRepairTask, RetryRepairTask, RepairLeaseExpires,
                CreateTask, CancelTask, RetryTask, LeaseExpires
  <2>2. \A j \in Task : status'[j] = "succeeded" => status[j] = "succeeded"
    BY <1>2 DEF CreateRepairTask, CancelRepairTask, RetryRepairTask, RepairLeaseExpires,
                CreateTask, CancelTask, RetryTask, LeaseExpires, QueueInv, TypeOK
  <2>3. SucceededHasDraft'
    BY <2>1, <2>2 DEF RepairInv, DraftsSeen, SucceededHasDraft, repairVars, provider
  <2> QED BY <2>1, <2>3, QueueStepKeeps DEF workers
<1> QED BY <1>1, <1>2 DEF RepairTaskStep

\* A step of the API that only lets requests grow and rows and calls be sound.
LEMMA CallKeeps ==
  ASSUME RepairInv, UNCHANGED <<workers, local, provider>>,
         \A t \in Task : status'[t] = "succeeded" => status[t] = "succeeded",
         request' \in Requests, Grows(request, request'), row' \in [Task -> Row \cup {NoRow}], RowsSound',
         call' \in [Client -> Call \cup {NoCall}], CallsSound'
  PROVE  RepairInv'
<1> USE DEF RepairInv
<1>1. UNCHANGED <<step, copy, seen, head, draft, shipped, pc, job>>
  BY DEF local, provider, workers
<1>2. RepairTypeOK'
  BY <1>1 DEF RepairTypeOK, Requests
<1>3. CopiesSound'
  BY <1>1, CopiesKept DEF Idle
<1>4. DraftsSeen'
  BY <1>1 DEF DraftsSeen, SucceededHasDraft
<1> QED BY <1>1, <1>2, <1>3, <1>4, ShippedKept

LEMMA ApprovalKeeps ==
  ASSUME RepairInv, NEW id \in Run, ApprovalStep(id)
  PROVE  RepairInv'
<1> USE DEF RepairInv
<1>1. request \in Requests
  BY DEF RepairTypeOK, Requests
<1>2. request' \in Requests /\ Grows(request, request')
  <2>1. CASE Approval!DeadlinePasses(id)
    <3>1. request' \in Requests /\ Moves(id, request[id].state)
      BY <1>1, <2>1, DeadlineMoves
    <3>2. request[id].state \in Approval!State
      BY <3>1 DEF Moves, Approval!Request
    <3> QED BY <3>1, <3>2, MovesGrow
  <2>2. ASSUME NEW u \in User, NEW decision \in Approval!Decision, NEW key \in Key,
               Approval!Decide(id, u, decision, key)
        PROVE  request' \in Requests /\ Grows(request, request')
    <3>1. /\ request' \in Requests
          /\ \/ UNCHANGED request
             \/ \E s \in {"approved", "rejected", "expired"} :
                  Moves(id, s) /\ request[id].state = "pending"
      BY <1>1, <2>2, DecideMoves
    <3> QED BY <3>1, MovesGrow, GrowsReflexive DEF Approval!State
  <2>3. ASSUME NEW u \in User, NEW digest \in Run, NEW key \in Key,
               Approval!Consume(id, u, digest, key)
        PROVE  request' \in Requests /\ Grows(request, request')
    <3>1. /\ request' \in Requests
          /\ \/ UNCHANGED request
             \/ Moves(id, "consumed")
             \/ Moves(id, "expired") /\ request[id].state = "pending"
      BY <1>1, <2>3, ConsumeMoves
    <3> QED BY <3>1, MovesGrow, GrowsReflexive DEF Approval!State
  <2>4. ASSUME NEW u \in User, Approval!Cancel(id, u)
        PROVE  request' \in Requests /\ Grows(request, request')
    <3>1. /\ request' \in Requests
          /\ \E s \in {"cancelled", "expired"} :
               Moves(id, s) /\ request[id].state \in {"pending", "approved"}
      BY <1>1, <2>4, CancelMoves
    <3> QED BY <3>1, MovesGrow DEF Approval!State
  <2> QED BY <2>1, <2>2, <2>3, <2>4 DEF ApprovalStep
<1>3. UNCHANGED <<status, workers, row, local, provider, call>>
  BY DEF ApprovalStep, vars, taskRows
<1>4. RowsSound' /\ CallsSound'
  BY <1>2, <1>3, RowsKept, CallsKept
<1> QED BY <1>2, <1>3, <1>4, CallKeeps DEF RepairTypeOK

\* The approval that a waiting row names is that of its own document.
LEMMA AwaitedAsked ==
  ASSUME NEW req, NEW r, NEW t, Sound(req, r, t), NEW phase \in {"plan", "patch"},
         r.state = Awaiting(phase)
  PROVE  Asked(req, ApprovalOf(r, phase), t, ActionOf(phase))
BY DEF Sound, Awaiting, ApprovalOf, ActionOf, PlanAsked, PatchAsked

\* Once that approval is consumed, the row may move on.
LEMMA ApprovedSound ==
  ASSUME NEW req, NEW r \in Row, NEW t, Sound(req, r, t), NEW phase \in {"plan", "patch"},
         r.state = Awaiting(phase), req[ApprovalOf(r, phase)].state = "consumed", NEW n,
         n = [r EXCEPT !.state = NextApprovedState(phase)]
  PROVE  n \in Row /\ n.state = NextApprovedState(phase) /\ Sound(req, n, t)
<1>1. /\ n \in Row /\ n.state = NextApprovedState(phase) /\ n.plan = r.plan
      /\ n.planApproval = r.planApproval
      /\ n.patch = r.patch /\ n.patchApproval = r.patchApproval
  BY DEF Row, RowState, NextApprovedState
<1>2. CASE phase = "plan"
  <2>1. PlanPassed(req, r, t) /\ NoPatch(r)
    BY <1>2 DEF Sound, Awaiting, ApprovalOf, PlanAsked, PlanPassed, Passed
  <2> QED BY <1>1, <1>2, <2>1 DEF Sound, NextApprovedState, PlanPassed, NoPatch
<1>3. CASE phase = "patch"
  <2>1. PlanPassed(req, r, t) /\ PatchPassed(req, r, t)
    BY <1>3 DEF Sound, Awaiting, ApprovalOf, PatchAsked, PatchPassed, Passed
  <2> QED BY <1>1, <1>3, <2>1 DEF Sound, NextApprovedState, PlanPassed, PatchPassed
<1> QED BY <1>2, <1>3

LEMMA BeginConsumeKeeps ==
  ASSUME RepairInv, NEW c \in Client, NEW t \in Task, NEW phase \in {"plan", "patch"},
         BeginConsume(c, t, phase)
  PROVE  RepairInv'
<1> USE DEF RepairInv
<1> DEFINE x == [at |-> "consume", task |-> t, phase |-> phase, copy |-> row[t]]
<1>1. /\ row[t].state = Awaiting(phase) /\ call' = [call EXCEPT ![c] = x]
      /\ UNCHANGED <<status, workers, row, request, local, provider>>
  BY DEF BeginConsume, vars, taskRows
<1>2. row[t] \in Row
  BY <1>1 DEF RepairTypeOK, Awaiting, NoRow
<1>3. x \in Call /\ CallSound(request', x)
  BY <1>1, <1>2 DEF Call, CallSound, RowsSound
<1> HIDE DEF x
<1>4. Grows(request, request')
  BY <1>1, GrowsReflexive
<1>5. CallsSound' /\ RowsSound'
  BY <1>1, <1>3, <1>4, CallMoved, RowsKept
<1>6. call' \in [Client -> Call \cup {NoCall}]
  BY <1>1, <1>3 DEF RepairTypeOK
<1> QED BY <1>1, <1>4, <1>5, <1>6, CallKeeps DEF RepairTypeOK, Requests

\* What a call in progress is.
LEMMA CallInProgress ==
  ASSUME RepairInv, NEW c \in Client, call[c].at # "none"
  PROVE  /\ call[c] \in Call /\ call[c].task \in Task /\ call[c].copy \in Row
         /\ call[c].phase \in {"plan", "patch"}
         /\ Sound(request, call[c].copy, call[c].task)
         /\ call[c].copy.state = IF call[c].at = "consume" THEN Awaiting(call[c].phase)
                                 ELSE NextApprovedState(call[c].phase)
<1>1. call[c] # NoCall
  BY DEF NoCall
<1>2. call[c] \in Call
  BY <1>1 DEF RepairInv, RepairTypeOK
<1> QED BY <1>1, <1>2 DEF RepairInv, CallsSound, CallSound, Call

LEMMA ConsumeKeeps ==
  ASSUME RepairInv, NEW c \in Client, NEW u \in User, NEW digest \in Run, NEW key \in Key,
         Consume(c, u, digest, key)
  PROVE  RepairInv'
<1> USE DEF RepairInv
<1> DEFINE y == call[c]
           phase == y.phase
           id == ApprovalOf(y.copy, phase)
           n == [y.copy EXCEPT !.state = NextApprovedState(phase)]
           x == [y EXCEPT !.at = "update", !.copy = n]
<1>1. /\ y.at = "consume" /\ Approval!Consume(id, u, digest, key)
      /\ call' = [call EXCEPT ![c] = IF Consumed(id, phase, digest, key) THEN x ELSE NoCall]
      /\ UNCHANGED <<status, workers, row, local, provider>>
  BY DEF Consume, vars, taskRows
<1>2. /\ y \in Call /\ y.task \in Task /\ y.copy \in Row /\ phase \in {"plan", "patch"}
      /\ Sound(request, y.copy, y.task) /\ y.copy.state = Awaiting(phase)
  BY <1>1, CallInProgress
<1>3. id \in Run
  BY <1>2, AwaitedAsked DEF Asked
<1>4. /\ request' \in Requests
      /\ \/ UNCHANGED request
         \/ Moves(id, "consumed")
         \/ Moves(id, "expired") /\ request[id].state = "pending"
      /\ Approval!ConsumeAnswer(request[id], digest, key) \in {"consumed", "repeated"}
           => request'[id].state = "consumed"
  <2> HIDE DEF id
  <2> QED BY <1>1, <1>3, ConsumeMoves DEF RepairTypeOK, Requests
<1>5. Grows(request, request')
  <2> HIDE DEF id
  <2> QED BY <1>3, <1>4, MovesGrow, GrowsReflexive DEF Approval!State
<1>6. ASSUME Consumed(id, phase, digest, key)
      PROVE  x \in Call /\ CallSound(request', x)
  <2>1. request'[id].state = "consumed"
    BY <1>4, <1>6 DEF Consumed
  <2>2. Sound(request', y.copy, y.task)
    BY <1>2, <1>5, SoundStable
  <2>3. n \in Row /\ n.state = NextApprovedState(phase) /\ Sound(request', n, y.task)
    BY <1>2, <2>1, <2>2, ApprovedSound
  <2> HIDE DEF n
  <2>4. x \in Call /\ x.at = "update" /\ x.copy = n /\ x.task = y.task /\ x.phase = phase
    BY <1>2, <2>3 DEF Call
  <2> QED BY <2>3, <2>4 DEF CallSound
<1>7. CallSound(request', NoCall)
  BY DEF CallSound
<1> DEFINE z == IF Consumed(id, phase, digest, key) THEN x ELSE NoCall
<1>8. z \in Call \cup {NoCall} /\ CallSound(request', z) /\ call' = [call EXCEPT ![c] = z]
  BY <1>1, <1>6, <1>7
<1> HIDE DEF z
<1>9. CallsSound' /\ RowsSound'
  BY <1>1, <1>5, <1>8, CallMoved, RowsKept
<1>10. call' \in [Client -> Call \cup {NoCall}]
  BY <1>8 DEF RepairTypeOK
<1> QED BY <1>1, <1>4, <1>5, <1>9, <1>10, CallKeeps DEF RepairTypeOK

LEMMA UpdateRowKeeps ==
  ASSUME RepairInv, NEW c \in Client, UpdateRow(c)
  PROVE  RepairInv'
<1> USE DEF RepairInv
<1> DEFINE y == call[c]
           x == [y EXCEPT !.at = "retry"]
<1>1. /\ y.at = "update" /\ row' = [row EXCEPT ![y.task] = y.copy]
      /\ call' = [call EXCEPT ![c] = x]
      /\ UNCHANGED <<status, workers, request, local, provider>>
  BY DEF UpdateRow, vars, taskRows
<1>2. /\ y \in Call /\ y.task \in Task /\ y.copy \in Row
      /\ Sound(request, y.copy, y.task) /\ y.copy.state = NextApprovedState(y.phase)
  BY <1>1, CallInProgress
<1>3. Grows(request, request')
  BY <1>1, GrowsReflexive
<1>4. x \in Call /\ CallSound(request', x)
  BY <1>1, <1>2 DEF Call, CallSound
<1> HIDE DEF x
<1>5. RowsSound'
  BY <1>1, <1>2, <1>3, RowWritten
<1>6. CallsSound'
  BY <1>1, <1>3, <1>4, CallMoved
<1>7. /\ row' \in [Task -> Row \cup {NoRow}]
      /\ call' \in [Client -> Call \cup {NoCall}]
  BY <1>1, <1>2, <1>4 DEF RepairTypeOK
<1> QED BY <1>1, <1>3, <1>5, <1>6, <1>7, CallKeeps DEF RepairTypeOK, Requests

LEMMA CallEndsKeeps ==
  ASSUME QueueInv, RepairInv, NEW c \in Client, Resume(c) \/ CallDies(c)
  PROVE  RepairInv'
<1> USE DEF RepairInv
<1>1. /\ call' = [call EXCEPT ![c] = NoCall]
      /\ UNCHANGED <<workers, row, request, local, provider>>
  BY DEF Resume, CallDies, RetryTask, vars
<1>2. \A t \in Task : status'[t] = "succeeded" => status[t] = "succeeded"
  BY DEF Resume, CallDies, RetryTask, vars, taskRows, QueueInv, TypeOK
<1>3. Grows(request, request') /\ CallSound(request', NoCall)
  BY <1>1, GrowsReflexive DEF CallSound
<1>4. CallsSound' /\ RowsSound'
  BY <1>1, <1>3, CallMoved, RowsKept
<1>5. call' \in [Client -> Call \cup {NoCall}]
  BY <1>1 DEF RepairTypeOK
<1> QED BY <1>1, <1>2, <1>3, <1>4, <1>5, CallKeeps DEF RepairTypeOK, Requests

-----------------------------------------------------------------------------
(* The queue inside the repair, and the invariant.                         *)

LEMMA RepairInitInv == RepairInit => RepairInv
<1> SUFFICES ASSUME RepairInit PROVE RepairInv
  OBVIOUS
<1> USE DEF RepairInit
<1>1. RepairTypeOK
  BY QueueAssumption DEF RepairTypeOK
<1>2. RowsSound /\ CallsSound /\ ShippedSound
  BY DEF RowsSound, Sound, NoRow, NoPlan, NoPatch, CallsSound, CallSound, ShippedSound
<1>3. CopiesSound
  BY DEF CopiesSound, CopySound
<1>4. DraftsSeen
  BY DEF Init, DraftsSeen, SucceededHasDraft, NoJob
<1> QED BY <1>1, <1>2, <1>3, <1>4 DEF RepairInv

\* Every step of the repair is a step of the queue, or does not concern it.
LEMMA RepairStepIsQueueStep ==
  ASSUME RepairInv, [RepairNext]_allVars
  PROVE  [Next]_vars
<1>1. CASE UNCHANGED allVars
  BY <1>1 DEF allVars
<1>2. ASSUME NEW w \in Worker, ProcessorStep(w)
      PROVE  [Next]_vars
  <2>1. ASSUME NEW s \in Outcome, Return(w, s)
        PROVE  Next
    BY <2>1 DEF Return, Next, WorkerStep
  <2>2. ASSUME NothingToRun(w) \/ Save(w) \/ Record(w) \/ Fail(w) \/ PersistFails(w)
        PROVE  Next
    BY <2>1, <2>2 DEF NothingToRun, Save, Record, Fail, PersistFails, Outcome
  <2>3. ASSUME \/ \E t \in Task : ClaimRepair(w, t)
               \/ CompleteRepair(w) \/ CrashRepair(w) \/ RestartWorker(w)
        PROVE  Next
    BY <2>3 DEF ClaimRepair, CompleteRepair, CrashRepair, RestartWorker, Next, WorkerStep
  <2>4. ASSUME \/ Load(w) \/ Start(w) \/ FindDraft(w) \/ ReadHead(w) \/ Push(w) \/ OpenDraft(w)
               \/ \E u \in User : RequestApproval(w, u)
        PROVE  UNCHANGED vars
    BY <2>4 DEF Load, Start, FindDraft, ReadHead, Push, OpenDraft, RequestApproval
  <2> QED BY <1>2, <2>2, <2>3, <2>4 DEF ProcessorStep
<1>3. ASSUME NEW c \in Client, CallStep(c)
      PROVE  [Next]_vars
  <2>1. CASE Resume(c)
    <3>1. call[c].task \in Task
      BY <2>1, CallInProgress DEF Resume
    <3> QED BY <2>1, <3>1 DEF Resume, Next, TaskStep
  <2>2. CASE ~Resume(c)
    BY <1>3, <2>2 DEF CallStep, BeginConsume, Consume, UpdateRow, CallDies
  <2> QED BY <2>1, <2>2
<1>4. ASSUME NEW t \in Task, RepairTaskStep(t)
      PROVE  [Next]_vars
  BY <1>4 DEF RepairTaskStep, CreateRepairTask, CreateRepair, CancelRepairTask,
              RetryRepairTask, RepairLeaseExpires, Next, TaskStep
<1>5. ASSUME NEW id \in Run, ApprovalStep(id)
      PROVE  [Next]_vars
  BY <1>5 DEF ApprovalStep
<1> QED BY <1>1, <1>2, <1>3, <1>4, <1>5 DEF RepairNext

LEMMA RepairStepKeepsInv ==
  ASSUME QueueInv, RepairInv, [RepairNext]_allVars
  PROVE  RepairInv'
<1>1. CASE UNCHANGED allVars
  <2>1. UNCHANGED <<status, pc, job, repairVars>>
    BY <1>1 DEF allVars, vars, taskRows, workers
  <2>2. SucceededHasDraft'
    BY <2>1 DEF RepairInv, DraftsSeen, SucceededHasDraft, repairVars, provider
  <2> QED BY <2>1, <2>2, QueueStepKeeps
<1>2. ASSUME NEW w \in Worker, ProcessorStep(w)
      PROVE  RepairInv'
  BY <1>2, ClaimKeeps, LoadKeeps, NothingToRunKeeps, StartKeeps, SaveKeeps,
     RequestApprovalKeeps, FindDraftKeeps, ReadHeadKeeps, PushKeeps, OpenDraftKeeps, RecordKeeps,
     FailKeeps, PersistFailsKeeps, CompleteKeeps, CrashKeeps, RestartKeeps
     DEF ProcessorStep
<1>3. ASSUME NEW c \in Client, CallStep(c)
      PROVE  RepairInv'
  BY <1>3, BeginConsumeKeeps, ConsumeKeeps, UpdateRowKeeps, CallEndsKeeps DEF CallStep
<1> QED BY <1>1, <1>2, <1>3, TaskStepKeeps, ApprovalKeeps DEF RepairNext

\* The inductive invariant of the composition: that of the queue, and that
\* every copy of a row, kept by the table, a worker or a ConsumeApproval call,
\* is sound.
THEOREM RepairInvariant == RepairSpec => [](QueueInv /\ RepairInv)
<1>1. RepairInit => QueueInv /\ RepairInv
  BY InitInv, RepairInitInv DEF RepairInit
<1>2. QueueInv /\ RepairInv /\ [RepairNext]_allVars => (QueueInv /\ RepairInv)'
  BY NextInv, RepairStepIsQueueStep, RepairStepKeepsInv
<1> QED BY <1>1, <1>2, PTL DEF RepairSpec

\* Whatever the repair does to the queue are the queue's own operations, so
\* every theorem about TaskQueue holds of the tasks of repairs.
THEOREM RepairRunsQueue == RepairSpec => Spec
<1>1. RepairInit => Init
  BY DEF RepairInit
<1>2. RepairInv /\ [RepairNext]_allVars => [Next]_vars
  BY RepairStepIsQueueStep
<1> QED BY <1>1, <1>2, RepairInvariant, PTL DEF RepairSpec, Spec

\* Every variable of the repair keeps to its type.
THEOREM RepairTypes == RepairSpec => []RepairTypeOK
<1>1. RepairInv => RepairTypeOK
  BY DEF RepairInv
<1> QED BY <1>1, RepairInvariant, PTL

\* Processor.Process generates a patch only for a plan, and publishes only a
\* patch, whose approval was consumed with its digest: for any number of
\* workers, concurrent ConsumeApproval calls, crashes and retries.
THEOREM ConsentIsExact == RepairSpec => []ExactConsent
<1>1. RepairInv => ExactConsent
  <2> SUFFICES ASSUME RepairInv, NEW w \in Worker
               PROVE  /\ copy[w].state = "patching" =>
                           Granted(copy[w].planApproval, "repair_plan", copy[w].plan)
                      /\ copy[w].state = "patch_approved" =>
                           Granted(copy[w].patchApproval, "publish_patch", copy[w].patch)
    BY DEF ExactConsent
  <2>1. CASE step[w] \in {"none", "load"}
    BY <2>1 DEF RepairInv, CopiesSound, CopySound, NoRow
  <2>2. CASE step[w] \notin {"none", "load"}
    <3>1. Sound(request, copy[w], job[w].task)
      BY <2>2 DEF RepairInv, CopiesSound, CopySound
    <3> QED BY <3>1 DEF Sound, PlanPassed, PatchPassed, Passed, Asked, Granted
  <2> QED BY <2>1, <2>2
<1> QED BY <1>1, RepairInvariant, PTL

\* CompleteTask records that a repair succeeded only if its draft exists.
THEOREM SuccessHasDraft == RepairSpec => []SucceededHasDraft
<1>1. RepairInv => SucceededHasDraft
  BY DEF RepairInv, DraftsSeen
<1> QED BY <1>1, RepairInvariant, PTL

-----------------------------------------------------------------------------
(* The repair implements RepairGate.                                       *)

\* The document that an approval request stands for.
Doc(q) ==
  [kind |-> IF q.state = "absent" THEN "none" ELSE q.action,
   consent |-> IF q.state = "absent" THEN "none"
               ELSE IF q.state = "consumed" THEN "granted"
               ELSE IF q.state \in {"pending", "approved"} THEN "open"
               ELSE "refused"]

\* Request id takes one step of its life, and no other request does.
RequestMoves(id) ==
  \E s \in Approval!State :
    /\ Moves(id, s)
    /\ s = request[id].state \/ request[id].state \in {"pending", "approved"}

\* What a step of the repair does to requests and shipped patches.
LEMMA RequestStep ==
  ASSUME QueueInv, RepairInv, [RepairNext]_allVars
  PROVE  \/ UNCHANGED <<request, shipped>>
         \/ UNCHANGED shipped /\ \E id \in Run : RequestMoves(id)
         \/ \E w \in Worker : Push(w)
         \/ \E w \in Worker, u \in User : RequestApproval(w, u)
<1>1. request \in Requests
  BY DEF RepairInv, RepairTypeOK, Requests
<1>2. ASSUME NEW id \in Run, NEW u \in User, NEW digest \in Run, NEW key \in Key,
             Approval!Consume(id, u, digest, key)
      PROVE  UNCHANGED request \/ RequestMoves(id)
  <2>1. \/ UNCHANGED request
        \/ Moves(id, "consumed") /\ request[id].state = "approved"
        \/ Moves(id, "expired") /\ request[id].state = "pending"
    BY <1>1, <1>2, ConsumeMoves
  <2> QED BY <2>1 DEF RequestMoves, Approval!State
<1>3. ASSUME NEW id \in Run, ApprovalStep(id)
      PROVE  UNCHANGED shipped /\ (UNCHANGED request \/ RequestMoves(id))
  <2>1. CASE Approval!DeadlinePasses(id)
    <3>1. Moves(id, request[id].state)
      BY <1>1, <2>1, DeadlineMoves
    <3>2. request[id].state \in Approval!State
      BY <3>1 DEF Moves, Approval!Request
    <3> QED BY <1>3, <3>1, <3>2 DEF RequestMoves, ApprovalStep, provider
  <2>2. ASSUME NEW u \in User, NEW decision \in Approval!Decision, NEW key \in Key,
               Approval!Decide(id, u, decision, key)
        PROVE  UNCHANGED request \/ RequestMoves(id)
    <3>1. \/ UNCHANGED request
          \/ \E s \in {"approved", "rejected", "expired"} :
               Moves(id, s) /\ request[id].state = "pending"
      BY <1>1, <2>2, DecideMoves
    <3> QED BY <3>1 DEF RequestMoves, Approval!State
  <2>3. ASSUME NEW u \in User, Approval!Cancel(id, u)
        PROVE  RequestMoves(id)
    <3>1. \E s \in {"cancelled", "expired"} :
            Moves(id, s) /\ request[id].state \in {"pending", "approved"}
      BY <1>1, <2>3, CancelMoves
    <3> QED BY <3>1 DEF RequestMoves, Approval!State
  <2> QED BY <1>2, <1>3, <2>1, <2>2, <2>3 DEF ApprovalStep, provider
<1>4. ASSUME NEW c \in Client, CallStep(c)
      PROVE  UNCHANGED shipped /\ (UNCHANGED request \/ \E id \in Run : RequestMoves(id))
  <2>1. ASSUME NEW u \in User, NEW digest \in Run, NEW key \in Key, Consume(c, u, digest, key)
        PROVE  UNCHANGED shipped /\ (UNCHANGED request \/ \E id \in Run : RequestMoves(id))
    <3>1. ApprovalOf(call[c].copy, call[c].phase) \in Run
      BY <2>1, CallInProgress, AwaitedAsked DEF Consume, Asked
    <3>2. Approval!Consume(ApprovalOf(call[c].copy, call[c].phase), u, digest, key)
      BY <2>1 DEF Consume
    <3> QED BY <1>2, <2>1, <3>1, <3>2 DEF Consume, provider
  <2>2. ASSUME \/ \E t \in Task, phase \in {"plan", "patch"} : BeginConsume(c, t, phase)
               \/ UpdateRow(c) \/ Resume(c) \/ CallDies(c)
        PROVE  UNCHANGED <<request, shipped>>
    BY <2>2 DEF BeginConsume, UpdateRow, Resume, CallDies, provider
  <2> QED BY <1>4, <2>1, <2>2 DEF CallStep
<1>5. ASSUME NEW w \in Worker, ProcessorStep(w), ~Push(w),
             ~ \E u \in User : RequestApproval(w, u)
      PROVE  UNCHANGED <<request, shipped>>
  BY <1>5 DEF ProcessorStep, ClaimRepair, Load, NothingToRun, Start, Save, FindDraft, ReadHead,
              OpenDraft, Record, Fail, PersistFails, CompleteRepair, CrashRepair, RestartWorker,
              repairVars, provider
<1>6. ASSUME NEW t \in Task, RepairTaskStep(t)
      PROVE  UNCHANGED <<request, shipped>>
  BY <1>6 DEF RepairTaskStep, CreateRepairTask, CreateRepair, CancelRepairTask,
              RetryRepairTask, RepairLeaseExpires, repairVars, provider
<1>7. CASE UNCHANGED allVars
  BY <1>7 DEF allVars, repairVars, provider
<1> QED BY <1>3, <1>4, <1>5, <1>6, <1>7 DEF RepairNext

\* What asking for an approval does to the requests.
LEMMA AsksApproval ==
  ASSUME QueueInv, RepairInv, NEW w \in Worker, NEW u \in User, RequestApproval(w, u)
  PROVE  \E id \in Run, action \in Gate!Kind :
           /\ id[1] = job[w].task
           /\ action = "publish_patch" => PlanPassed(request, copy[w], job[w].task)
           /\ request[id].state = "absent" /\ request'[id].state = "pending"
           /\ request'[id].action = action
           /\ \A j \in Run : j # id => request'[j] = request[j]
           /\ UNCHANGED shipped
<1> DEFINE id == ThisRun(w)
           action == IF copy[w].state = "planning" THEN "repair_plan" ELSE "publish_patch"
<1>1. /\ pc[w] = "processing" /\ step[w] = "execute"
      /\ Approval!Create(id, action, id, u, Approval!Privileged) /\ UNCHANGED shipped
  BY DEF RequestApproval, At, provider
<1>2. id \in Run /\ id[1] = job[w].task
  BY <1>1, WorkingJob DEF ThisRun
<1>3. /\ copy[w].state \in {"planning", "patching"}
      /\ Sound(request, copy[w], job[w].task)
  BY <1>1, WorkingCopy DEF StateAt
<1>4. action = "publish_patch" => PlanPassed(request, copy[w], job[w].task)
  BY <1>3 DEF Sound
<1>5. action \in {"repair_plan", "publish_patch"}
  OBVIOUS
<1> HIDE DEF id, action
<1>6. /\ request[id].state = "absent" /\ request'[id].state = "pending"
      /\ request'[id].action = action
      /\ \A j \in Run : j # id => request'[j] = request[j]
  BY <1>1, <1>2, <1>5, CreateGrows DEF RepairInv, RepairTypeOK, Requests
<1> QED BY <1>1, <1>2, <1>4, <1>5, <1>6 DEF Gate!Kind

\* How the view of the documents follows the requests.
LEMMA ViewFacts ==
  /\ \A id \in Run : DocView[id] = Doc(request[id])
  /\ UNCHANGED request => DocView' = DocView
  /\ \A id \in Run : (\A j \in Run : j # id => request'[j] = request[j])
       => DocView' = [DocView EXCEPT ![id] = Doc(request'[id])]
<1>1. \A id \in Run : DocView[id] = Doc(request[id])
  BY DEF DocView, Doc
<1>2. UNCHANGED request => DocView' = DocView
  BY DEF DocView
<1>3. ASSUME NEW id \in Run, \A j \in Run : j # id => request'[j] = request[j]
      PROVE  DocView' = [DocView EXCEPT ![id] = Doc(request'[id])]
  BY <1>3 DEF DocView, Doc
<1> QED BY <1>1, <1>2, <1>3

LEMMA GateStep ==
  ASSUME QueueInv, RepairInv, [RepairNext]_allVars
  PROVE  [Gate!Next]_<<DocView, shipped>>
<1> USE DEF Gate!Doc, Run
<1>1. CASE UNCHANGED <<request, shipped>>
  BY <1>1, ViewFacts
<1>2. ASSUME NEW id \in Run, RequestMoves(id), UNCHANGED shipped
      PROVE  [Gate!Next]_<<DocView, shipped>>
  <2>1. PICK s \in Approval!State :
          /\ Moves(id, s)
          /\ s = request[id].state \/ request[id].state \in {"pending", "approved"}
    BY <1>2 DEF RequestMoves
  <2>2. /\ DocView[id] = Doc(request[id])
        /\ DocView' = [DocView EXCEPT ![id] = Doc(request'[id])]
        /\ DocView = [d \in Run |-> DocView[d]]
    BY <2>1, ViewFacts DEF Moves, DocView
  <2>3. CASE Doc(request'[id]) = Doc(request[id])
    <3>1. DocView' = DocView
      BY <2>2, <2>3
    <3> QED BY <1>2, <3>1
  <2>4. CASE Doc(request'[id]) # Doc(request[id])
    <3>1. request[id].state \in {"pending", "approved"} /\ s \notin {"pending", "approved"}
      BY <2>1, <2>4 DEF Moves, Doc, Approval!Request
    <3>2. DocView[id] = [kind |-> request[id].action, consent |-> "open"]
      BY <2>2, <3>1 DEF Doc
    <3>3. PICK consent \in {"granted", "refused"} :
            Doc(request'[id]) = [kind |-> request[id].action, consent |-> consent]
      BY <2>1, <3>1 DEF Doc, Moves, Approval!State
    <3>4. Doc(request'[id]) = [DocView[id] EXCEPT !.consent = consent]
      BY <3>2, <3>3
    <3>5. Gate!Settle(id)
      <4>1. DocView' = [DocView EXCEPT ![id].consent = consent]
        BY <2>2, <3>4
      <4>2. DocView[id].consent = "open"
        BY <3>2
      <4> QED BY <1>2, <4>1, <4>2 DEF Gate!Settle
    <3> QED BY <3>5 DEF Gate!Next
  <2> QED BY <2>3, <2>4
<1>3. ASSUME NEW w \in Worker, Push(w)
      PROVE  Gate!Next
  <2> DEFINE d == copy[w].patch
  <2>1. copy[w].state = "patch_approved" /\ Sound(request, copy[w], job[w].task)
    BY <1>3, WorkingCopy DEF Push, At, StateAt
  <2>2. Passed(request, d, job[w].task, "publish_patch")
    BY <2>1 DEF Sound, PatchPassed
  <2>3. d \in Run /\ Doc(request[d]) = [kind |-> "publish_patch", consent |-> "granted"]
    BY <2>2 DEF Passed, Asked, Doc
  <2>4. shipped' = shipped \cup {d} /\ DocView' = DocView
    BY <1>3, ViewFacts DEF Push
  <2>5. Gate!Ship(d)
    BY <2>3, <2>4, ViewFacts DEF Gate!Ship, Gate!Has
  <2> QED BY <2>3, <2>5 DEF Gate!Next
<1>4. ASSUME NEW w \in Worker, NEW u \in User, RequestApproval(w, u)
      PROVE  Gate!Next
  <2>1. PICK id \in Run, action \in Gate!Kind :
          /\ id[1] = job[w].task
          /\ action = "publish_patch" => PlanPassed(request, copy[w], job[w].task)
          /\ request[id].state = "absent" /\ request'[id].state = "pending"
          /\ request'[id].action = action
          /\ \A j \in Run : j # id => request'[j] = request[j]
          /\ UNCHANGED shipped
    BY <1>4, AsksApproval
  <2>2. /\ DocView[id] = Gate!Blank
        /\ DocView' = [DocView EXCEPT ![id] = [kind |-> action, consent |-> "open"]]
    <3>1. Doc(request[id]) = Gate!Blank
      BY <2>1 DEF Doc, Gate!Blank
    <3>2. Doc(request'[id]) = [kind |-> action, consent |-> "open"]
      BY <2>1 DEF Doc
    <3> QED BY <2>1, <3>1, <3>2, ViewFacts
  <2>3. ASSUME action = "publish_patch"
        PROVE  \E p \in Run : p[1] = id[1] /\ Gate!Has(p, "repair_plan", "granted")
    <3>1. Passed(request, copy[w].plan, job[w].task, "repair_plan")
      BY <2>1, <2>3 DEF PlanPassed
    <3>2. /\ copy[w].plan \in Run /\ copy[w].plan[1] = id[1]
          /\ Doc(request[copy[w].plan]) = [kind |-> "repair_plan", consent |-> "granted"]
      BY <2>1, <3>1 DEF Passed, Asked, Doc
    <3> QED BY <3>2, ViewFacts DEF Gate!Has
  <2>4. Gate!Propose(id)
    BY <2>1, <2>2, <2>3 DEF Gate!Propose
  <2> QED BY <2>4 DEF Gate!Next
<1> QED BY <1>1, <1>2, <1>3, <1>4, RequestStep

\* Issue repair implements RepairGate: whatever the queue, the workers, stale
\* copies and crashes do, a document is settled once, a patch is proposed only
\* for a task with a granted plan, and only a granted patch is pushed.
THEOREM RepairImplementsGate == RepairSpec => ImplementsGate
<1>1. RepairInit => Gate!Init
  <2> SUFFICES ASSUME RepairInit PROVE Gate!Init
    OBVIOUS
  <2>1. DocView = [d \in Run |-> Gate!Blank]
    BY DEF RepairInit, DocView, Approval!NoRequest, Gate!Blank
  <2> QED BY <2>1 DEF RepairInit, Gate!Init, Gate!Doc, Run
<1>2. QueueInv /\ RepairInv /\ [RepairNext]_allVars => [Gate!Next]_<<DocView, shipped>>
  BY GateStep
<1> QED BY <1>1, <1>2, RepairInvariant, PTL DEF RepairSpec, ImplementsGate, Gate!Spec
=============================================================================
