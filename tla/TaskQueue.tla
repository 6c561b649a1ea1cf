------------------------------ MODULE TaskQueue ------------------------------
(***************************************************************************)
(* The durable task queue: the rows of the tables tasks and runs, the      *)
(* transactions of tasks.PostgreSQLStore on them, and the worker processes *)
(* that claim, process and complete tasks (worker.RunQueue).               *)
(*                                                                         *)
(* Every store operation is one PostgreSQL transaction that locks the task *)
(* row first, so every operation is one action.  A worker is not atomic:   *)
(* it keeps the task and run it claimed in local variables while anything  *)
(* else happens, and completes with what it remembers.                     *)
(*                                                                         *)
(* A task stands for its unique source_key and a run for its (task,        *)
(* attempt), which the schema makes unique.  Time is abstracted to "the    *)
(* lease is live" and "the lease has expired"; available_at is only ever   *)
(* set to now(), so it delays no claim.  ORDER BY priority is only a       *)
(* preference (SKIP LOCKED passes over locked rows), so a claim may take   *)
(* any claimable task.                                                     *)
(***************************************************************************)
EXTENDS Naturals

CONSTANTS
  Task,         \* the tasks that may be created, one per source_key
  Worker,       \* the worker processes (lease owners)
  MaxAttempts,  \* the column max_attempts
  PullOf,       \* PullOf[t]: the pull request a code_review task reviews, or None
  None          \* no worker, no task, no pull request

ASSUME QueueAssumption ==
  /\ MaxAttempts \in Nat \ {0}
  /\ None \notin Task
  /\ None \notin Worker

VARIABLES
  status,        \* tasks.status, or "absent" before the row is inserted
  attempts,      \* tasks.attempts
  owner,         \* tasks.lease_owner
  lease,         \* tasks.lease_until: "none" (NULL), "live" or "expired"
  supersededBy,  \* tasks.superseded_by
  run,           \* run[t][a]: status of attempt a's row in runs, or "none"
  pc,            \* where a worker is in the loop of RunQueue
  job            \* the task, run and outcome a worker holds in local variables

taskRows == <<status, attempts, owner, lease, supersededBy>>
workers == <<pc, job>>
vars == <<taskRows, run, workers>>

Status == {"queued", "running", "awaiting_approval", "succeeded", "failed",
           "cancelled", "superseded"}
Attempt == 1 .. MaxAttempts

\* The statuses Process returns: the review and diagnosis processors end in
\* succeeded or failed, the core processor and the repair processor may pause.
Outcome == {"succeeded", "failed", "awaiting_approval"}
Finished == {"succeeded", "failed", "cancelled"}

\* Mutant: an approval-paused run is not thought of as open.
OpenRunForgetsPaused == {"queued", "running"}

\* The runs that cancelling and superseding close.
OpenRun == {"queued", "running", "awaiting_approval"}
ClosedRun == {"succeeded", "failed", "cancelled", "superseded"}

NoJob == [task |-> None, attempt |-> 0, outcome |-> "none"]
Job == [task : Task, attempt : Attempt, outcome : Outcome \cup {"none"}]

\* The canonical state machine of tasks.CanTransition.
CanTransition(from, to) ==
  \/ from = to /\ from \in {"running", "awaiting_approval"}
  \/ from = "queued" /\ to \in {"running", "cancelled", "superseded"}
  \/ from = "running" /\ to \in {"awaiting_approval", "succeeded", "failed",
                                 "cancelled", "superseded"}
  \/ from = "awaiting_approval" /\ to \in {"queued", "succeeded", "failed",
                                           "cancelled", "superseded"}
  \/ from = "failed" /\ to \in {"queued", "cancelled", "superseded"}
  \/ from = "cancelled" /\ to \in {"queued", "superseded"}
  \/ from = "succeeded" /\ to = "superseded"

Exists(t) == status[t] # "absent"

\* Mutant: the UPDATE forgets its status filter.
CloseEveryRun(t, s) ==
  [a \in Attempt |-> IF run[t][a] # "none" THEN s ELSE run[t][a]]

\* The runs of task t once the open ones are closed with status s.
CloseRuns(t, s) ==
  [a \in Attempt |-> IF run[t][a] \in OpenRun THEN s ELSE run[t][a]]

-----------------------------------------------------------------------------
(* The store's transactions called by the API and the webhooks.            *)

\* CreateTask.  A second call with the same source_key returns the row as it
\* is: ON CONFLICT changes nothing, so only the first insert is a step.
CreateTask(t) ==
  /\ ~Exists(t)
  /\ status' = [status EXCEPT ![t] = "queued"]
  /\ UNCHANGED <<attempts, owner, lease, supersededBy, run, workers>>

CancelTask(t) ==
  /\ CanTransition(status[t], "cancelled")
  /\ status' = [status EXCEPT ![t] = "cancelled"]
  /\ owner' = [owner EXCEPT ![t] = None]
  /\ lease' = [lease EXCEPT ![t] = "none"]
  /\ run' = [run EXCEPT ![t] = CloseRuns(t, "cancelled")]
  /\ UNCHANGED <<attempts, supersededBy, workers>>

\* RetryTask re-queues a task.  It leaves attempts and the runs alone.
RetryTask(t) ==
  /\ CanTransition(status[t], "queued")
  /\ status' = [status EXCEPT ![t] = "queued"]
  /\ owner' = [owner EXCEPT ![t] = None]
  /\ lease' = [lease EXCEPT ![t] = "none"]
  /\ UNCHANGED <<attempts, supersededBy, run, workers>>

\* SupersedeCodeReviews(new): every other review of the same pull request is
\* superseded, whatever its status, and so are the open runs of every review
\* that new supersedes.  A delivery for new's head commit may arrive at any
\* time, again too, and always ends in this call.
SupersedeCodeReviews(new) ==
  LET Older == {t \in Task : /\ t # new
                             /\ PullOf[t] = PullOf[new]
                             /\ status[t] \notin {"absent", "superseded"}}
  IN /\ Exists(new) /\ PullOf[new] # None
     /\ status' = [t \in Task |-> IF t \in Older THEN "superseded" ELSE status[t]]
     /\ supersededBy' = [t \in Task |-> IF t \in Older THEN new ELSE supersededBy[t]]
     /\ owner' = [t \in Task |-> IF t \in Older THEN None ELSE owner[t]]
     /\ lease' = [t \in Task |-> IF t \in Older THEN "none" ELSE lease[t]]
     /\ run' = [t \in Task |-> IF supersededBy'[t] = new
                               THEN CloseRuns(t, "superseded") ELSE run[t]]
     /\ UNCHANGED <<attempts, workers>>

-----------------------------------------------------------------------------
(* The worker loop: claim, process, complete.                              *)

\* Mutants: no bound on attempts; expired leases are not reclaimed.
ClaimableUnbounded(t) ==
  \/ status[t] \in {"queued", "failed"}
  \/ status[t] = "running" /\ lease[t] = "expired"

ClaimableNoReclaim(t) ==
  status[t] \in {"queued", "failed"} /\ attempts[t] < MaxAttempts

Claimable(t) ==
  /\ \/ status[t] \in {"queued", "failed"}
     \/ status[t] = "running" /\ lease[t] = "expired"
  /\ attempts[t] < MaxAttempts

\* Mutant: a reclaim goes on with the run of the dead worker.
NextAttemptReuses(t) ==
  IF status[t] = "running" THEN attempts[t] ELSE attempts[t] + 1

NextAttempt(t) == attempts[t] + 1

\* Mutant: the run of the expired lease stays open.
RunsOnClaimKeepsOld(t) == [run[t] EXCEPT ![NextAttempt(t)] = "running"]

\* The runs of task t when it is claimed: an expired lease is a failed attempt.
RunsOnClaim(t) ==
  [a \in Attempt |->
     IF a = NextAttempt(t) THEN "running"
     ELSE IF status[t] = "running" /\ run[t][a] = "running" THEN "failed"
     ELSE run[t][a]]

ClaimTask(w, t) ==
  /\ pc[w] = "idle"
  /\ Claimable(t)
  /\ status' = [status EXCEPT ![t] = "running"]
  /\ attempts' = [attempts EXCEPT ![t] = NextAttempt(t)]
  /\ owner' = [owner EXCEPT ![t] = w]
  /\ lease' = [lease EXCEPT ![t] = "live"]
  /\ run' = [run EXCEPT ![t] = RunsOnClaim(t)]
  /\ pc' = [pc EXCEPT ![w] = "processing"]
  /\ job' = [job EXCEPT ![w] = [task |-> t, attempt |-> NextAttempt(t),
                                outcome |-> "none"]]
  /\ UNCHANGED supersededBy

\* Time passes.  A worker may well still be processing: the lease lasts three
\* polls, an execution up to fifteen minutes, and RunQueue sends no heartbeat.
LeaseExpires(t) ==
  /\ lease[t] = "live"
  /\ lease' = [lease EXCEPT ![t] = "expired"]
  /\ UNCHANGED <<status, attempts, owner, supersededBy, run, workers>>

\* Heartbeat renews the lease, expired or not, if the task still runs under
\* this owner; otherwise it answers ErrLeaseLost and changes nothing.  The
\* queue offers it to the worker; RunQueue does not call it yet.
Heartbeat(w) ==
  /\ pc[w] = "processing"
  /\ LET t == job[w].task
     IN /\ status[t] = "running" /\ owner[t] = w
        /\ lease' = [lease EXCEPT ![t] = "live"]
  /\ UNCHANGED <<status, attempts, owner, supersededBy, run, workers>>

\* The processor for the task's kind returns.
Process(w, outcome) ==
  /\ pc[w] = "processing"
  /\ pc' = [pc EXCEPT ![w] = "completing"]
  /\ job' = [job EXCEPT ![w].outcome = outcome]
  /\ UNCHANGED <<taskRows, run>>

\* Mutant: only the task's status is checked, not the run the worker holds.
CompleteAnswerUnfenced(t, a, s) ==
  IF status[t] = s /\ s \in Finished THEN "repeated"
  ELSE IF CanTransition(status[t], s) THEN "commit" ELSE "illegal"

\* The answers of CompleteTask(t, a, s).  "commit" is the only one that writes.
\* It looks at the run the worker holds, not at the lease.
CompleteAnswer(t, a, s) ==
  IF run[t][a] # "running"
  THEN IF status[t] = s /\ run[t][a] = s THEN "repeated" ELSE "lease lost"
  ELSE IF status[t] = s /\ s \in Finished THEN "repeated"
  ELSE IF CanTransition(status[t], s) THEN "commit" ELSE "illegal"

\* The worker that calls CompleteTask loops on, or exits when it gets an error.
CompleteTask(w) ==
  LET t == job[w].task
      a == job[w].attempt
      s == job[w].outcome
      answer == CompleteAnswer(t, a, s)
  IN /\ pc[w] = "completing"
     /\ IF answer = "commit"
        THEN /\ status' = [status EXCEPT ![t] = s]
             /\ owner' = [owner EXCEPT ![t] = None]
             /\ lease' = [lease EXCEPT ![t] = "none"]
             /\ run' = [run EXCEPT ![t][a] = s]
        ELSE UNCHANGED <<status, owner, lease, run>>
     /\ pc' = [pc EXCEPT ![w] = IF answer \in {"commit", "repeated"}
                                THEN "idle" ELSE "down"]
     /\ job' = [job EXCEPT ![w] = NoJob]
     /\ UNCHANGED <<attempts, supersededBy>>

\* A worker dies while it holds a task; an idle one has nothing to lose.
Crash(w) ==
  /\ pc[w] \in {"processing", "completing"}
  /\ pc' = [pc EXCEPT ![w] = "down"]
  /\ job' = [job EXCEPT ![w] = NoJob]
  /\ UNCHANGED <<taskRows, run>>

\* The orchestration starts the process again.
Restart(w) ==
  /\ pc[w] = "down"
  /\ pc' = [pc EXCEPT ![w] = "idle"]
  /\ UNCHANGED <<taskRows, run, job>>

-----------------------------------------------------------------------------
Init ==
  /\ status = [t \in Task |-> "absent"]
  /\ attempts = [t \in Task |-> 0]
  /\ owner = [t \in Task |-> None]
  /\ lease = [t \in Task |-> "none"]
  /\ supersededBy = [t \in Task |-> None]
  /\ run = [t \in Task |-> [a \in Attempt |-> "none"]]
  /\ pc = [w \in Worker |-> "idle"]
  /\ job = [w \in Worker |-> NoJob]

TaskStep ==
  \E t \in Task : \/ CreateTask(t) \/ CancelTask(t) \/ RetryTask(t)
                  \/ SupersedeCodeReviews(t) \/ LeaseExpires(t)

WorkerStep ==
  \E w \in Worker : \/ \E t \in Task : ClaimTask(w, t)
                    \/ \E s \in Outcome : Process(w, s)
                    \/ Heartbeat(w) \/ CompleteTask(w) \/ Crash(w) \/ Restart(w)

Next == TaskStep \/ WorkerStep

Spec == Init /\ [][Next]_vars

(***************************************************************************)
(* Fairness.  A worker polls on a ticker, a processor returns because the  *)
(* execution has a deadline, the orchestration restarts a worker that has  *)
(* exited, and time passes.  Users, webhooks, heartbeats and crashes owe   *)
(* nothing.                                                                *)
(***************************************************************************)
Fairness ==
  /\ \A w \in Worker : /\ WF_vars(\E t \in Task : ClaimTask(w, t))
                       /\ WF_vars(\E s \in Outcome : Process(w, s))
                       /\ WF_vars(CompleteTask(w))
                       /\ WF_vars(Restart(w))
  /\ \A t \in Task : WF_vars(LeaseExpires(t))

FairSpec == Spec /\ Fairness

-----------------------------------------------------------------------------
(* Properties.                                                             *)

\* Every variable keeps to its type.
TypeOK ==
  /\ status \in [Task -> Status \cup {"absent"}]
  /\ attempts \in [Task -> 0 .. MaxAttempts]
  /\ owner \in [Task -> Worker \cup {None}]
  /\ lease \in [Task -> {"none", "live", "expired"}]
  /\ supersededBy \in [Task -> Task \cup {None}]
  /\ run \in [Task -> [Attempt -> Status \cup {"none"}]]
  /\ pc \in [Worker -> {"idle", "processing", "completing", "down"}]
  /\ job \in [Worker -> Job \cup {NoJob}]

\* A run is running exactly when its task is running and it is the task's
\* latest attempt.  This is what fences a stale worker: CompleteTask writes only
\* through a running run, and cancelling, superseding or reclaiming the task
\* has closed the one the stale worker holds.
RunningRunIsLatest ==
  \A t \in Task, a \in Attempt :
    run[t][a] = "running" <=> status[t] = "running" /\ attempts[t] = a

\* No two workers ever hold the same run, however leases expire and workers
\* crash and restart: the attempt a claim inserts is always a new one.
OneWorkerPerRun ==
  \A v, w \in Worker :
    v # w /\ job[v].task # None /\ job[v].task = job[w].task
      => job[v].attempt # job[w].attempt

\* The task row never contradicts the ledger of runs: a task that rests in
\* the outcome of its processor has a latest run with that same outcome, so no
\* late completion of an earlier attempt has overwritten it.
OutcomeIsLatestRun ==
  \A t \in Task : status[t] \in Outcome
                    => attempts[t] \in Attempt /\ run[t][attempts[t]] = status[t]

\* A cancelled or superseded task has no open run: no worker can complete it.
DeadTaskHasNoOpenRun ==
  \A t \in Task, a \in Attempt :
    status[t] \in {"cancelled", "superseded"} => run[t][a] \in ClosedRun \cup {"none"}

\* Terminal idempotency: once a run has ended nothing rewrites how it ended.
ClosedRunsFrozen ==
  [][\A t \in Task, a \in Attempt :
       run[t][a] \in ClosedRun => run'[t][a] = run[t][a]]_vars

\* Only what the worker that holds a running task returns, a cancellation or a
\* supersession ends it; nothing but a supersession touches a succeeded task.
OnlyHolderSettles ==
  [][\A t \in Task :
       /\ status[t] = "running" /\ status'[t] \in Outcome
            => \E w \in Worker : /\ job[w].task = t
                                 /\ job[w].attempt = attempts[t]
                                 /\ job[w].outcome = status'[t]
       /\ status[t] = "succeeded" => status'[t] \in {"succeeded", "superseded"}]_vars

\* Work that may still be tried: attempts are left and the task is not paused.
Pending(t) ==
  /\ status[t] \in {"queued", "running", "failed"}
  /\ attempts[t] < MaxAttempts

\* The queue drains: pending work is settled, cancelled, or runs out of attempts,
\* however workers crash and leases expire.
PendingWorkDrains == \A t \in Task : Pending(t) ~> ~Pending(t)

-----------------------------------------------------------------------------
(* What the repository says of the queue and the code does not do.         *)

\* "Restart API and workers mid-task without losing or double-running work": a running task
\* whose worker died is eventually run again or ended.
RunningTaskIsNotLost == \A t \in Task : status[t] = "running" ~> status[t] # "running"
=============================================================================
