-------------------------------- MODULE Repair --------------------------------
(***************************************************************************)
(* Issue repair: the rows of issue_repairs, the processor that runs one    *)
(* phase of a repair per queue claim, the calls of ConsumeApproval that    *)
(* resume a repair, and the draft pull request at the provider.  It        *)
(* composes TaskQueue, whose tasks are here the issue_repair tasks, and    *)
(* Approvals.                                                              *)
(*                                                                         *)
(* Unlike a queue operation, a phase and a ConsumeApproval call are not    *)
(* transactions: both read the row, work on their copy, call the approval  *)
(* service and the queue, and write the whole row back (store.Update has   *)
(* no version check), so each is a sequence of actions that anything may   *)
(* interleave and a crash may cut off.                                     *)
(*                                                                         *)
(* A claim runs one phase, and a phase makes at most one document and asks *)
(* for at most one approval; so the run names the plan or patch it made,   *)
(* that document's digest, and the approval request.                       *)
(***************************************************************************)
EXTENDS TaskQueue

CONSTANTS
  Client,   \* the concurrent calls of ConsumeApproval
  Key,      \* idempotency keys
  User,     \* the users that use the approval and repair endpoints
  RoleOf    \* RoleOf[u]: the role of user u

VARIABLES
  row,       \* row[t]: the row of issue_repairs for task t
  request,   \* request[r]: the approval request that run r made
  step,      \* how far a worker is in Processor.Process
  copy,      \* the worker's copy of the row
  seen,      \* the branch head a publishing worker has read
  head,      \* head[t]: the attempt that pushed the last commit of the branch
  draft,     \* draft[t]: whether the draft pull request exists
  shipped,   \* the patches pushed to repair branches
  call       \* the state of a ConsumeApproval call

Run == Task \X Attempt

Approval == INSTANCE Approvals WITH Approval <- Run, Digest <- Run

provider == <<head, draft, shipped>>
local == <<step, copy, seen>>
repairVars == <<row, request, local, provider, call>>
allVars == <<vars, repairVars>>

RowState == {"planning", "awaiting_plan_approval", "plan_approved", "patching",
             "awaiting_patch_approval", "patch_approved", "published", "failed"}

NoRow == [state |-> "absent", plan |-> None, planApproval |-> None,
          patch |-> None, patchApproval |-> None]
Row == [state : RowState, plan : Run \cup {None}, planApproval : Run \cup {None},
        patch : Run \cup {None}, patchApproval : Run \cup {None}]

NoCall == [at |-> "none", task |-> None, phase |-> "none", copy |-> NoRow]
Call == [at : {"consume", "update", "retry"}, task : Task,
         phase : {"plan", "patch"}, copy : Row]

ThisRun(w) == <<job[w].task, job[w].attempt>>

-----------------------------------------------------------------------------
(* Creating a repair: the task first, then the row, so a worker may claim   *)
(* the task in between.  A repeated delivery finds both by their source     *)
(* key; BindAutomationTask and CreateFromDiagnosis insert the row likewise. *)

CreateRepairTask(t) == CreateTask(t) /\ UNCHANGED repairVars

\* ON CONFLICT (source_key) returns the row that is there.
InsertRow(t) ==
  /\ row[t] = NoRow
  /\ row' = [row EXCEPT ![t] = [NoRow EXCEPT !.state = "planning"]]

CreateRepair(t) ==
  /\ Exists(t)
  /\ InsertRow(t)
  /\ UNCHANGED <<vars, request, local, provider, call>>

-----------------------------------------------------------------------------
(* The processor.                                                          *)

\* Mutant: a repair is taken up at its last document, approved or not.
PhaseTrustsDocument(r) ==
  IF r.state = "planning" THEN "planning"
  ELSE IF r.patch # None THEN "patch_approved"
  ELSE IF r.plan # None THEN "patching" ELSE "none"

\* The phase Process runs for row r, named by the state it works in.  A failed
\* repair is taken up again at the last document that has an approval.
Phase(r) ==
  IF r.state = "failed"
  THEN IF r.patch # None /\ r.patchApproval # None THEN "patch_approved"
       ELSE IF r.plan # None /\ r.planApproval # None THEN "patching"
       ELSE "planning"
  ELSE IF r.state = "plan_approved" THEN "patching"
  ELSE IF r.state \in {"planning", "patch_approved"} THEN r.state
  ELSE "none"

At(w, s) == pc[w] = "processing" /\ step[w] = s

Goto(w, s) == step' = [step EXCEPT ![w] = s]

\* Process returns an outcome to RunQueue and forgets its local variables.
Return(w, outcome) ==
  /\ Process(w, outcome)
  /\ Goto(w, "none")
  /\ copy' = [copy EXCEPT ![w] = NoRow]
  /\ seen' = [seen EXCEPT ![w] = 0]

ClaimRepair(w, t) ==
  /\ ClaimTask(w, t)
  /\ Goto(w, "load")
  /\ UNCHANGED <<row, request, copy, seen, provider, call>>

\* GetByTask, and the switch on the state of the row.
Load(w) ==
  LET r == row[job[w].task]
  IN /\ At(w, "load") /\ Phase(r) # "none"
     /\ copy' = [copy EXCEPT ![w] = [r EXCEPT !.state = Phase(r)]]
     /\ Goto(w, IF Phase(r) = "patch_approved" THEN "find" ELSE "start")
     /\ UNCHANGED <<vars, row, request, seen, provider, call>>

\* m8_repair_not_found or m8_invalid_state: the task fails, the row stays.
NothingToRun(w) ==
  /\ At(w, "load") /\ Phase(row[job[w].task]) = "none"
  /\ Return(w, "failed")
  /\ UNCHANGED <<row, request, provider, call>>

\* generatePlan and generatePatch persist the state they work in.
Start(w) ==
  /\ At(w, "start")
  /\ row' = [row EXCEPT ![job[w].task] = copy[w]]
  /\ Goto(w, "execute")
  /\ UNCHANGED <<vars, request, copy, seen, provider, call>>

\* The execution returns a valid document, and an approval is asked for it.
RequestApproval(w, u) ==
  LET r == ThisRun(w)
      planning == copy[w].state = "planning"
  IN /\ At(w, "execute")
     /\ Approval!Create(r, IF planning THEN "repair_plan" ELSE "publish_patch", r, u,
                        Approval!Privileged)
     /\ copy' = [copy EXCEPT ![w] =
          IF planning
          THEN [@ EXCEPT !.state = "awaiting_plan_approval", !.plan = r, !.planApproval = r]
          ELSE [@ EXCEPT !.state = "awaiting_patch_approval", !.patch = r, !.patchApproval = r]]
     /\ Goto(w, "save")
     /\ UNCHANGED <<vars, row, seen, provider, call>>

\* Update writes the row and reads it back; if only the reading fails, the row is
\* written and the outcome is m8_state_persist_failed.
Save(w) ==
  /\ At(w, "save")
  /\ row' = [row EXCEPT ![job[w].task] = copy[w]]
  /\ \E outcome \in {"awaiting_approval", "failed"} : Return(w, outcome)
  /\ UNCHANGED <<request, provider, call>>

\* Mutant: a branch that has a commit is taken for a draft.
FindBranch(w) ==
  /\ At(w, "find") /\ (draft[job[w].task] \/ head[job[w].task] # 0)
  /\ Goto(w, "record")
  /\ UNCHANGED <<vars, row, request, copy, seen, provider, call>>

\* PublishDraft looks for the draft of an earlier attempt, first of all and again
\* when the branch cannot be created.
FindDraft(w) ==
  /\ At(w, "find") /\ draft[job[w].task]
  /\ Goto(w, "record")
  /\ UNCHANGED <<vars, row, request, copy, seen, provider, call>>

\* There is none, or the lookup failed, which counts as none: the head of the
\* repair branch, or the base commit, is the parent to build on.
ReadHead(w) ==
  /\ At(w, "find")
  /\ seen' = [seen EXCEPT ![w] = head[job[w].task]]
  /\ Goto(w, "push")
  /\ UNCHANGED <<vars, row, request, copy, provider, call>>

\* The branch moves to the new commit, if it is a fast-forward.
Push(w) ==
  LET t == job[w].task
  IN /\ At(w, "push") /\ head[t] = seen[w]
     /\ head' = [head EXCEPT ![t] = job[w].attempt]
     /\ shipped' = shipped \cup {copy[w].patch}
     /\ Goto(w, "open")
     /\ UNCHANGED <<vars, row, request, copy, seen, draft, call>>

\* Opening a draft that another worker has just opened finds that one.
OpenDraft(w) ==
  /\ At(w, "open")
  /\ draft' = [draft EXCEPT ![job[w].task] = TRUE]
  /\ Goto(w, "record")
  /\ UNCHANGED <<vars, row, request, copy, seen, head, shipped, call>>

Record(w) ==
  /\ At(w, "record")
  /\ row' = [row EXCEPT ![job[w].task] = [copy[w] EXCEPT !.state = "published"]]
  /\ \E outcome \in {"succeeded", "failed"} : Return(w, outcome)
  /\ UNCHANGED <<request, provider, call>>

\* A failing execution, invalid output, a failing approval service or provider, or
\* an answer of the provider that is lost after it did what it was asked.
Fail(w) ==
  /\ \E s \in {"execute", "find", "push", "open", "record"} : At(w, s)
  /\ row' = [row EXCEPT ![job[w].task] = [copy[w] EXCEPT !.state = "failed"]]
  /\ Return(w, "failed")
  /\ UNCHANGED <<request, provider, call>>

\* m8_state_persist_failed: the row could not be written.
PersistFails(w) ==
  /\ pc[w] = "processing" /\ step[w] \notin {"none", "load"}
  /\ Return(w, "failed")
  /\ UNCHANGED <<row, request, provider, call>>

CompleteRepair(w) == CompleteTask(w) /\ UNCHANGED repairVars

CrashRepair(w) ==
  /\ Crash(w)
  /\ Goto(w, "none")
  /\ copy' = [copy EXCEPT ![w] = NoRow]
  /\ seen' = [seen EXCEPT ![w] = 0]
  /\ UNCHANGED <<row, request, provider, call>>

RestartWorker(w) == Restart(w) /\ UNCHANGED repairVars

-----------------------------------------------------------------------------
(* ConsumeApproval, and the other calls of users.                          *)

Awaiting(phase) == IF phase = "plan" THEN "awaiting_plan_approval"
                                     ELSE "awaiting_patch_approval"

\* Mutant: the state of the approval is written instead of the repair's own.
NextApprovedStateOfApproval(phase) == "approved"

NextApprovedState(phase) == IF phase = "plan" THEN "plan_approved" ELSE "patch_approved"
ApprovalOf(r, phase) == IF phase = "plan" THEN r.planApproval ELSE r.patchApproval
ActionOf(phase) == IF phase = "plan" THEN "repair_plan" ELSE "publish_patch"

\* The row is read; a repair that is not awaiting this approval ends the call,
\* without an error if the approval has been taken up before.
BeginConsume(c, t, phase) ==
  /\ call[c] = NoCall
  /\ row[t].state = Awaiting(phase) /\ ApprovalOf(row[t], phase) # None
  /\ call' = [call EXCEPT ![c] = [at |-> "consume", task |-> t, phase |-> phase,
                                  copy |-> row[t]]]
  /\ UNCHANGED <<vars, row, request, local, provider>>

\* Mutant: the caller goes on whatever the gate answers.
ConsumedUnchecked(id, phase, digest, key) == TRUE

\* What the gate must have answered for the call to go on.
Consumed(id, phase, digest, key) ==
  /\ Approval!ConsumeAnswer(request[id], digest, key) \in {"consumed", "repeated"}
  /\ request[id].action = ActionOf(phase)

Consume(c, u, digest, key) ==
  LET phase == call[c].phase
      id == ApprovalOf(call[c].copy, phase)
  IN /\ call[c].at = "consume"
     /\ Approval!Consume(id, u, digest, key)
     /\ call' = [call EXCEPT ![c] =
          IF Consumed(id, phase, digest, key)
          THEN [@ EXCEPT !.at = "update", !.copy.state = NextApprovedState(phase)]
          ELSE NoCall]
     /\ UNCHANGED <<vars, row, local, provider>>

\* The whole row is written from the copy read at the beginning of the call.
UpdateRow(c) ==
  /\ call[c].at = "update"
  /\ row' = [row EXCEPT ![call[c].task] = call[c].copy]
  /\ call' = [call EXCEPT ![c].at = "retry"]
  /\ UNCHANGED <<vars, request, local, provider>>

\* Queue the task again; a task that cannot be retried makes the call fail.
Resume(c) ==
  /\ call[c].at = "retry"
  /\ \/ RetryTask(call[c].task)
     \/ ~CanTransition(status[call[c].task], "queued") /\ UNCHANGED vars
  /\ call' = [call EXCEPT ![c] = NoCall]
  /\ UNCHANGED <<row, request, local, provider>>

\* The server dies, or the database refuses, between two steps of the call.
CallDies(c) ==
  /\ call[c].at \in {"update", "retry"}
  /\ call' = [call EXCEPT ![c] = NoCall]
  /\ UNCHANGED <<vars, row, request, local, provider>>

\* The approval endpoints, which know nothing of repairs.  That a deadline
\* passes is of no consequence once a request has been decided.  A call that is
\* refused, or repeated, changes nothing and is no step.
ApprovalStep(id) ==
  /\ \/ request[id].state = "pending" /\ Approval!DeadlinePasses(id)
     \/ \E u \in User :
          \/ \E decision \in Approval!Decision, key \in Key :
               Approval!Decide(id, u, decision, key)
          \/ \E digest \in Run, key \in Key : Approval!Consume(id, u, digest, key)
          \/ Approval!Cancel(id, u)
  /\ request' # request
  /\ UNCHANGED <<vars, row, local, provider, call>>

\* The task endpoints, which know nothing of repairs either.
CancelRepairTask(t) == CancelTask(t) /\ UNCHANGED repairVars
RetryRepairTask(t) == RetryTask(t) /\ UNCHANGED repairVars
RepairLeaseExpires(t) == LeaseExpires(t) /\ UNCHANGED repairVars

-----------------------------------------------------------------------------
RepairInit ==
  /\ Init
  /\ row = [t \in Task |-> NoRow]
  /\ request = [r \in Run |-> Approval!NoRequest]
  /\ step = [w \in Worker |-> "none"]
  /\ copy = [w \in Worker |-> NoRow]
  /\ seen = [w \in Worker |-> 0]
  /\ head = [t \in Task |-> 0]
  /\ draft = [t \in Task |-> FALSE]
  /\ shipped = {}
  /\ call = [c \in Client |-> NoCall]

ProcessorStep(w) ==
  \/ \E t \in Task : ClaimRepair(w, t)
  \/ Load(w) \/ NothingToRun(w) \/ Start(w) \/ Save(w)
  \/ \E u \in User : RequestApproval(w, u)
  \/ FindDraft(w) \/ ReadHead(w) \/ Push(w) \/ OpenDraft(w) \/ Record(w)
  \/ Fail(w) \/ PersistFails(w)
  \/ CompleteRepair(w) \/ CrashRepair(w) \/ RestartWorker(w)

CallStep(c) ==
  \/ \E t \in Task, phase \in {"plan", "patch"} : BeginConsume(c, t, phase)
  \/ \E u \in User, digest \in Run, key \in Key : Consume(c, u, digest, key)
  \/ UpdateRow(c) \/ Resume(c) \/ CallDies(c)

RepairTaskStep(t) ==
  \/ CreateRepairTask(t) \/ CreateRepair(t) \/ CancelRepairTask(t)
  \/ RetryRepairTask(t) \/ RepairLeaseExpires(t)

RepairNext ==
  \/ \E w \in Worker : ProcessorStep(w)
  \/ \E c \in Client : CallStep(c)
  \/ \E t \in Task : RepairTaskStep(t)
  \/ \E id \in Run : ApprovalStep(id)

RepairSpec == RepairInit /\ [][RepairNext]_allVars

-----------------------------------------------------------------------------
(* Properties.                                                             *)

\* Every variable of the repair keeps to its type.
RepairTypeOK ==
  /\ row \in [Task -> Row \cup {NoRow}]
  /\ request \in [Run -> Approval!Request \cup {Approval!NoRequest}]
  /\ step \in [Worker -> {"none", "load", "start", "execute", "save", "find",
                          "push", "open", "record"}]
  /\ copy \in [Worker -> Row \cup {NoRow}]
  /\ seen \in [Worker -> 0 .. MaxAttempts]
  /\ head \in [Task -> 0 .. MaxAttempts]
  /\ draft \in [Task -> BOOLEAN]
  /\ shipped \subseteq Run
  /\ call \in [Client -> Call \cup {NoCall}]

\* The approval id has been consumed for that action and exactly that document.
Granted(id, action, document) ==
  /\ id \in Run
  /\ request[id].state = "consumed" /\ request[id].action = action
  /\ request[id].digest = document

\* No phase runs without its consent, whatever stale copies, crashes, failures
\* and retries came before: a worker generates a patch only for a plan, and
\* publishes only a patch, whose own approval was consumed with its digest.
ExactConsent ==
  \A w \in Worker :
    LET r == copy[w]
    IN /\ r.state = "patching" => Granted(r.planApproval, "repair_plan", r.plan)
       /\ r.state = "patch_approved" => Granted(r.patchApproval, "publish_patch", r.patch)

\* A repair task that succeeded has its draft pull request.
SucceededHasDraft == \A t \in Task : status[t] = "succeeded" => draft[t]

\* The repair implements the gate: a document is proposed when its approval is
\* requested, granted when the approval is consumed, shipped when pushed.
DocView ==
  [r \in Run |->
     [kind |-> IF request[r].state = "absent" THEN "none" ELSE request[r].action,
      consent |-> IF request[r].state = "absent" THEN "none"
                  ELSE IF request[r].state = "consumed" THEN "granted"
                  ELSE IF request[r].state \in {"pending", "approved"} THEN "open"
                  ELSE "refused"]]

Gate == INSTANCE RepairGate WITH Version <- Attempt, doc <- DocView

\* The repair machinery is an implementation of RepairGate.
ImplementsGate == Gate!Spec

-----------------------------------------------------------------------------
\* "The queue resumes only after the matching approval is consumed": a paused
\* repair is queued again only when its row has moved to an approved state.
ResumedOnlyByConsumption ==
  [][\A t \in Task :
       status[t] = "awaiting_approval" /\ status'[t] = "queued"
         => row[t].state \in {"plan_approved", "patch_approved"}]_allVars
=============================================================================
