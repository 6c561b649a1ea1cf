--------------------------- MODULE TaskQueueProofs ---------------------------
(***************************************************************************)
(* Proofs that the safety properties of TaskQueue hold for every set of    *)
(* tasks and workers and every bound on attempts.                          *)
(***************************************************************************)
EXTENDS TaskQueue, TLAPS

\* A run exists exactly for the attempts already made.
RunLedger ==
  \A t \in Task, a \in Attempt : a > attempts[t] <=> run[t][a] = "none"

\* A worker holds a job exactly while it processes or completes it, and the
\* attempt it holds has been made.
JobHeld ==
  \A w \in Worker :
    /\ pc[w] \in {"processing", "completing"} <=> job[w] # NoJob
    /\ job[w] # NoJob => job[w].attempt <= attempts[job[w].task]

\* Only superseded tasks name a successor.
SuccessorMeansSuperseded ==
  \A t \in Task : supersededBy[t] # None => status[t] = "superseded"

\* The inductive invariant.
QueueInv ==
  /\ TypeOK /\ RunLedger /\ JobHeld /\ SuccessorMeansSuperseded
  /\ RunningRunIsLatest /\ OneWorkerPerRun /\ OutcomeIsLatestRun
  /\ DeadTaskHasNoOpenRun

\* What CanTransition says of the two targets API calls ask for.
LEMMA TransitionFacts ==
  /\ \A s : CanTransition(s, "queued")
              => s \in {"awaiting_approval", "failed", "cancelled"}
  /\ \A s : CanTransition(s, "cancelled")
              => s \in {"queued", "running", "awaiting_approval", "failed"}
  /\ \A s : CanTransition("running", s) => s \in Status
  /\ ~CanTransition("running", "none")
  BY DEF CanTransition, Status

\* The initial state satisfies the inductive invariant.
LEMMA InitInv == Init => QueueInv
  <1> SUFFICES ASSUME Init PROVE QueueInv
    OBVIOUS
  <1> USE QueueAssumption DEF Init, Attempt, Status
  <1>1. TypeOK
    BY DEF TypeOK
  <1>2. RunLedger /\ SuccessorMeansSuperseded
    BY DEF RunLedger, SuccessorMeansSuperseded
  <1>3. JobHeld /\ OneWorkerPerRun
    BY DEF JobHeld, OneWorkerPerRun, NoJob
  <1>4. RunningRunIsLatest /\ OutcomeIsLatestRun /\ DeadTaskHasNoOpenRun
    BY DEF RunningRunIsLatest, OutcomeIsLatestRun, DeadTaskHasNoOpenRun, Outcome
  <1> QED
    BY <1>1, <1>2, <1>3, <1>4 DEF QueueInv

\* Closing the runs of a task keeps every ended run and leaves none open.
LEMMA CloseRunsFacts ==
  ASSUME TypeOK, NEW t \in Task, NEW s \in {"cancelled", "superseded"}
  PROVE  /\ CloseRuns(t, s) \in [Attempt -> Status \cup {"none"}]
         /\ \A a \in Attempt :
              /\ CloseRuns(t, s)[a] \in ClosedRun \cup {"none"}
              /\ CloseRuns(t, s)[a] = "none" <=> run[t][a] = "none"
              /\ run[t][a] \in ClosedRun => CloseRuns(t, s)[a] = run[t][a]
  BY DEF CloseRuns, TypeOK, Status, OpenRun, ClosedRun

-----------------------------------------------------------------------------
(* Each operation preserves the inductive invariant.                       *)

\* Creating a task adds a row that no run and no worker refers to.
LEMMA CreateInv ==
  ASSUME QueueInv, NEW t \in Task, CreateTask(t)
  PROVE  QueueInv'
  <1> USE DEF QueueInv, CreateTask, Exists, taskRows, workers
  <1>1. TypeOK'
    BY DEF TypeOK, Status
  <1>2. RunLedger' /\ JobHeld' /\ OneWorkerPerRun'
    BY DEF RunLedger, JobHeld, OneWorkerPerRun
  <1>3. SuccessorMeansSuperseded' /\ RunningRunIsLatest' /\ OutcomeIsLatestRun'
        /\ DeadTaskHasNoOpenRun'
    BY DEF TypeOK, SuccessorMeansSuperseded, RunningRunIsLatest, OutcomeIsLatestRun,
           DeadTaskHasNoOpenRun, Outcome
  <1> QED
    BY <1>1, <1>2, <1>3

\* Cancelling closes every open run with the task.
LEMMA CancelInv ==
  ASSUME QueueInv, NEW t \in Task, CancelTask(t)
  PROVE  QueueInv'
  <1> USE DEF QueueInv, CancelTask, taskRows, workers
  <1>1. /\ status[t] \in {"queued", "running", "awaiting_approval", "failed"}
        /\ CloseRuns(t, "cancelled") \in [Attempt -> Status \cup {"none"}]
        /\ \A a \in Attempt :
             /\ CloseRuns(t, "cancelled")[a] \in ClosedRun \cup {"none"}
             /\ CloseRuns(t, "cancelled")[a] = "none" <=> run[t][a] = "none"
    BY TransitionFacts, CloseRunsFacts
  <1> HIDE DEF CancelTask
  <1>2. /\ status' = [status EXCEPT ![t] = "cancelled"]
        /\ owner' = [owner EXCEPT ![t] = None]
        /\ lease' = [lease EXCEPT ![t] = "none"]
        /\ run' = [run EXCEPT ![t] = CloseRuns(t, "cancelled")]
        /\ UNCHANGED <<attempts, supersededBy, pc, job>>
    BY DEF CancelTask
  <1>3. TypeOK'
    BY <1>1, <1>2 DEF TypeOK, Status
  <1>4. RunLedger' /\ JobHeld' /\ OneWorkerPerRun'
    BY <1>1, <1>2 DEF RunLedger, JobHeld, OneWorkerPerRun, TypeOK
  <1>5. SuccessorMeansSuperseded' /\ OutcomeIsLatestRun'
    BY <1>1, <1>2 DEF TypeOK, SuccessorMeansSuperseded, OutcomeIsLatestRun, Outcome
  <1>6. RunningRunIsLatest'
    BY <1>1, <1>2 DEF TypeOK, RunningRunIsLatest, ClosedRun
  <1>7. DeadTaskHasNoOpenRun'
    BY <1>1, <1>2 DEF TypeOK, DeadTaskHasNoOpenRun
  <1> QED
    BY <1>3, <1>4, <1>5, <1>6, <1>7

\* A task is re-queued only when no run of it is running.
LEMMA RetryInv ==
  ASSUME QueueInv, NEW t \in Task, RetryTask(t)
  PROVE  QueueInv'
  <1> USE DEF QueueInv
  <1>1. status[t] \in {"awaiting_approval", "failed", "cancelled"}
    BY TransitionFacts DEF RetryTask
  <1>2. /\ status' = [status EXCEPT ![t] = "queued"]
        /\ owner' = [owner EXCEPT ![t] = None]
        /\ lease' = [lease EXCEPT ![t] = "none"]
        /\ UNCHANGED <<attempts, supersededBy, run, pc, job>>
    BY DEF RetryTask, workers
  <1>3. TypeOK'
    BY <1>2 DEF TypeOK, Status
  <1>4. RunLedger' /\ JobHeld' /\ OneWorkerPerRun'
    BY <1>2 DEF RunLedger, JobHeld, OneWorkerPerRun
  <1>5. SuccessorMeansSuperseded' /\ RunningRunIsLatest' /\ OutcomeIsLatestRun'
        /\ DeadTaskHasNoOpenRun'
    BY <1>1, <1>2 DEF TypeOK, SuccessorMeansSuperseded, RunningRunIsLatest,
       OutcomeIsLatestRun, DeadTaskHasNoOpenRun, Outcome
  <1> QED
    BY <1>3, <1>4, <1>5

\* A supersession closes the runs of every task it supersedes and of no other
\* live one, because only superseded tasks name a successor.
LEMMA SupersedeInv ==
  ASSUME QueueInv, NEW new \in Task, SupersedeCodeReviews(new)
  PROVE  QueueInv'
  <1> USE DEF QueueInv
  <1> DEFINE Older == {t \in Task : /\ t # new
                                    /\ PullOf[t] = PullOf[new]
                                    /\ status[t] \notin {"absent", "superseded"}}
             Closed(t) == CloseRuns(t, "superseded")
  <1>1. /\ status' = [t \in Task |-> IF t \in Older THEN "superseded" ELSE status[t]]
        /\ supersededBy' = [t \in Task |-> IF t \in Older THEN new ELSE supersededBy[t]]
        /\ owner' = [t \in Task |-> IF t \in Older THEN None ELSE owner[t]]
        /\ lease' = [t \in Task |-> IF t \in Older THEN "none" ELSE lease[t]]
        /\ run' = [t \in Task |-> IF supersededBy'[t] = new THEN Closed(t) ELSE run[t]]
        /\ UNCHANGED <<attempts, pc, job>>
    BY DEF SupersedeCodeReviews, workers
  <1>2. \A t \in Task :
          /\ Closed(t) \in [Attempt -> Status \cup {"none"}]
          /\ \A a \in Attempt : /\ Closed(t)[a] \in ClosedRun \cup {"none"}
                                /\ Closed(t)[a] = "none" <=> run[t][a] = "none"
    BY CloseRunsFacts
  <1>3. \A t \in Task : supersededBy'[t] = new => status'[t] = "superseded"
    <2> SUFFICES ASSUME NEW t \in Task, supersededBy'[t] = new
                 PROVE  status'[t] = "superseded"
      OBVIOUS
    <2>1. None \notin Task
      BY QueueAssumption
    <2> QED
      BY <1>1, <2>1 DEF SuccessorMeansSuperseded
  <1> HIDE DEF Closed
  <1>4. TypeOK'
    BY <1>1, <1>2 DEF TypeOK, Status
  <1>5. RunLedger' /\ JobHeld' /\ OneWorkerPerRun'
    BY <1>1, <1>2 DEF RunLedger, JobHeld, OneWorkerPerRun
  <1>6. SuccessorMeansSuperseded'
    BY <1>1 DEF SuccessorMeansSuperseded
  <1>7. RunningRunIsLatest'
    <2> SUFFICES ASSUME NEW t \in Task, NEW a \in Attempt
                 PROVE  run'[t][a] = "running"
                          <=> status'[t] = "running" /\ attempts'[t] = a
      BY DEF RunningRunIsLatest
    <2>1. CASE supersededBy'[t] = new
      BY <2>1, <1>1, <1>2, <1>3 DEF ClosedRun
    <2>2. CASE supersededBy'[t] # new
      BY <2>2, <1>1 DEF RunningRunIsLatest
    <2> QED
      BY <2>1, <2>2
  <1>8. OutcomeIsLatestRun'
    <2> SUFFICES ASSUME NEW t \in Task, status'[t] \in Outcome
                 PROVE  attempts'[t] \in Attempt /\ run'[t][attempts'[t]] = status'[t]
      BY DEF OutcomeIsLatestRun
    <2>1. supersededBy'[t] # new /\ t \notin Older
      BY <1>1, <1>3 DEF Outcome
    <2> QED
      BY <2>1, <1>1 DEF OutcomeIsLatestRun
  <1>9. DeadTaskHasNoOpenRun'
    <2> SUFFICES ASSUME NEW t \in Task, NEW a \in Attempt,
                        status'[t] \in {"cancelled", "superseded"}
                 PROVE  run'[t][a] \in ClosedRun \cup {"none"}
      BY DEF DeadTaskHasNoOpenRun
    <2>1. CASE supersededBy'[t] = new
      BY <2>1, <1>1, <1>2
    <2>2. CASE supersededBy'[t] # new
      BY <2>2, <1>1 DEF DeadTaskHasNoOpenRun
    <2> QED
      BY <2>1, <2>2
  <1> QED
    BY <1>4, <1>5, <1>6, <1>7, <1>8, <1>9

\* Claiming inserts a new attempt and closes the run of an expired lease.
LEMMA ClaimInv ==
  ASSUME QueueInv, NEW w \in Worker, NEW t \in Task, ClaimTask(w, t)
  PROVE  QueueInv'
  <1> USE DEF QueueInv
  <1> DEFINE n == attempts[t] + 1
             claimed == [task |-> t, attempt |-> n, outcome |-> "none"]
  <1>1. /\ pc[w] = "idle"
        /\ status[t] \in {"queued", "failed", "running"}
        /\ status' = [status EXCEPT ![t] = "running"]
        /\ attempts' = [attempts EXCEPT ![t] = n]
        /\ owner' = [owner EXCEPT ![t] = w]
        /\ lease' = [lease EXCEPT ![t] = "live"]
        /\ run' = [run EXCEPT ![t] = RunsOnClaim(t)]
        /\ pc' = [pc EXCEPT ![w] = "processing"]
        /\ job' = [job EXCEPT ![w] = claimed]
        /\ supersededBy' = supersededBy
    BY DEF ClaimTask, Claimable, NextAttempt
  <1>2. /\ attempts[t] \in 0 .. MaxAttempts /\ n \in Attempt /\ n > attempts[t]
        /\ MaxAttempts \in Nat
    BY QueueAssumption DEF ClaimTask, Claimable, TypeOK, Attempt
  <1>3. \A a \in Attempt :
          RunsOnClaim(t)[a] = IF a = n THEN "running"
                              ELSE IF run[t][a] = "running" THEN "failed"
                              ELSE run[t][a]
    BY <1>2 DEF RunsOnClaim, NextAttempt, RunningRunIsLatest
  <1>4. RunsOnClaim(t) \in [Attempt -> Status \cup {"none"}]
    BY DEF RunsOnClaim, TypeOK, Status
  <1>5. claimed \in Job /\ claimed # NoJob
    BY <1>2, QueueAssumption DEF Job, NoJob
  <1>6. \A v \in Worker : job[v] # NoJob => job[v].task \in Task /\ job[v].attempt \in Nat
    BY <1>2 DEF TypeOK, Job, Attempt
  <1> HIDE DEF n, claimed
  <1>7. TypeOK'
    BY <1>1, <1>2, <1>4, <1>5 DEF TypeOK, Status, Attempt
  <1>8. RunLedger'
    <2> SUFFICES ASSUME NEW u \in Task, NEW a \in Attempt
                 PROVE  a > attempts'[u] <=> run'[u][a] = "none"
      BY DEF RunLedger
    <2>1. CASE u # t
      BY <2>1, <1>1 DEF RunLedger, TypeOK
    <2>2. CASE u = t
      <3>1. attempts'[t] = n /\ run'[t][a] = RunsOnClaim(t)[a] /\ n = attempts[t] + 1
        BY <1>1 DEF TypeOK, n
      <3>2. a \in Nat /\ attempts[t] \in Nat
        BY <1>2 DEF Attempt
      <3>3. a > attempts[t] <=> run[t][a] = "none"
        BY DEF RunLedger
      <3>4. a > n => RunsOnClaim(t)[a] = "none"
        BY <1>3, <3>1, <3>2, <3>3
      <3>5. RunsOnClaim(t)[a] = "none" => a > n
        BY <1>3, <3>1, <3>2, <3>3
      <3> QED
        BY <2>2, <3>1, <3>4, <3>5
    <2> QED
      BY <2>1, <2>2
  <1>9. JobHeld'
    <2> SUFFICES ASSUME NEW v \in Worker
                 PROVE  /\ pc'[v] \in {"processing", "completing"} <=> job'[v] # NoJob
                        /\ job'[v] # NoJob => job'[v].attempt <= attempts'[job'[v].task]
      BY DEF JobHeld
    <2>1. CASE v = w
      <3>1. job'[v] = claimed /\ pc'[v] = "processing"
        BY <2>1, <1>1 DEF TypeOK
      <3>2. claimed.attempt = n /\ claimed.task = t
        BY DEF claimed
      <3> QED
        BY <3>1, <3>2, <1>1, <1>2, <1>5 DEF TypeOK, Attempt
    <2>2. CASE v # w
      <3>1. job'[v] = job[v] /\ pc'[v] = pc[v]
        BY <2>2, <1>1 DEF TypeOK
      <3>2. \A u \in Task : attempts'[u] >= attempts[u] /\ attempts[u] \in Nat
                             /\ attempts'[u] \in Nat
        BY <1>1, <1>2 DEF TypeOK, n
      <3> QED
        BY <3>1, <3>2, <1>6 DEF JobHeld
    <2> QED
      BY <2>1, <2>2
  <1>10. OneWorkerPerRun'
    <2>1. \A v \in Worker : v # w /\ job[v].task = t => job[v].attempt # n
      BY <1>2, <1>6, QueueAssumption DEF JobHeld, NoJob
    <2>2. \A v \in Worker : v # w => job'[v] = job[v]
      BY <1>1 DEF TypeOK
    <2>3. job'[w].attempt = n /\ job'[w].task = t
      BY <1>1 DEF TypeOK, claimed
    <2> QED
      BY <2>1, <2>2, <2>3 DEF OneWorkerPerRun
  <1>11. SuccessorMeansSuperseded' /\ DeadTaskHasNoOpenRun'
    BY <1>1 DEF TypeOK, SuccessorMeansSuperseded, DeadTaskHasNoOpenRun
  <1>12. RunningRunIsLatest'
    <2> SUFFICES ASSUME NEW u \in Task, NEW a \in Attempt
                 PROVE  run'[u][a] = "running"
                          <=> status'[u] = "running" /\ attempts'[u] = a
      BY DEF RunningRunIsLatest
    <2>1. CASE u # t
      BY <2>1, <1>1 DEF RunningRunIsLatest, TypeOK
    <2>2. CASE u = t
      BY <2>2, <1>1, <1>3 DEF TypeOK
    <2> QED
      BY <2>1, <2>2
  <1>13. OutcomeIsLatestRun'
    BY <1>1 DEF TypeOK, OutcomeIsLatestRun, Outcome
  <1> QED
    BY <1>7, <1>8, <1>9, <1>10, <1>11, <1>12, <1>13

\* Lease expiry and heartbeats change nothing but the lease.
LEMMA LeaseInv ==
  ASSUME QueueInv,
         \/ \E t \in Task : LeaseExpires(t)
         \/ \E w \in Worker : Heartbeat(w)
  PROVE  QueueInv'
  <1> USE DEF QueueInv
  <1>1. /\ UNCHANGED <<status, attempts, owner, supersededBy, run, pc, job>>
        /\ lease' \in [Task -> {"none", "live", "expired"}]
    BY DEF LeaseExpires, Heartbeat, workers, TypeOK
  <1>2. TypeOK' /\ RunLedger' /\ JobHeld' /\ SuccessorMeansSuperseded'
    BY <1>1 DEF TypeOK, RunLedger, JobHeld, SuccessorMeansSuperseded
  <1>3. RunningRunIsLatest' /\ OneWorkerPerRun' /\ OutcomeIsLatestRun'
        /\ DeadTaskHasNoOpenRun'
    BY <1>1 DEF RunningRunIsLatest, OneWorkerPerRun, OutcomeIsLatestRun, DeadTaskHasNoOpenRun
  <1> QED
    BY <1>2, <1>3

\* The steps of a worker that touch no row: processing ends, it dies, it restarts.
LEMMA LocalInv ==
  ASSUME QueueInv, NEW w \in Worker,
         (\E s \in Outcome : Process(w, s)) \/ Crash(w) \/ Restart(w)
  PROVE  QueueInv'
  <1> USE DEF QueueInv
  <1>1. UNCHANGED <<status, attempts, owner, lease, supersededBy, run>>
    BY DEF Process, Crash, Restart, taskRows
  <1>2. RunLedger' /\ SuccessorMeansSuperseded' /\ RunningRunIsLatest'
        /\ OutcomeIsLatestRun' /\ DeadTaskHasNoOpenRun'
    BY <1>1 DEF RunLedger, SuccessorMeansSuperseded, RunningRunIsLatest,
                OutcomeIsLatestRun, DeadTaskHasNoOpenRun
  <1>3. CASE \E s \in Outcome : Process(w, s)
    <2>1. PICK s \in Outcome : Process(w, s)
      BY <1>3
    <2>2. /\ pc[w] = "processing" /\ pc' = [pc EXCEPT ![w] = "completing"]
          /\ job' = [job EXCEPT ![w].outcome = s]
      BY <2>1 DEF Process
    <2>3. job[w] # NoJob /\ job[w] \in Job
      BY <2>2 DEF JobHeld, TypeOK
    <2>4. /\ job'[w] \in Job /\ job'[w] # NoJob
          /\ job'[w].task = job[w].task /\ job'[w].attempt = job[w].attempt
          /\ \A v \in Worker : v # w => job'[v] = job[v]
      BY <2>2, <2>3, QueueAssumption DEF Job, NoJob, TypeOK
    <2>5. TypeOK'
      BY <1>1, <2>2, <2>4 DEF TypeOK
    <2>6. JobHeld' /\ OneWorkerPerRun'
      BY <1>1, <2>2, <2>3, <2>4 DEF JobHeld, OneWorkerPerRun, TypeOK
    <2> QED
      BY <1>2, <2>5, <2>6
  <1>4. CASE Crash(w) \/ Restart(w)
    <2>1. /\ job'[w] = NoJob /\ pc'[w] \in {"down", "idle"}
          /\ pc' \in [Worker -> {"idle", "processing", "completing", "down"}]
          /\ job' \in [Worker -> Job \cup {NoJob}]
          /\ \A v \in Worker : v # w => job'[v] = job[v] /\ pc'[v] = pc[v]
      BY <1>4 DEF Crash, Restart, TypeOK, JobHeld
    <2>2. TypeOK'
      BY <1>1, <2>1 DEF TypeOK
    <2>3. JobHeld' /\ OneWorkerPerRun'
      BY <1>1, <2>1 DEF JobHeld, OneWorkerPerRun, NoJob
    <2> QED
      BY <1>2, <2>2, <2>3
  <1> QED
    BY <1>3, <1>4

\* A completion writes only through the running run of the latest attempt.
LEMMA CommitFacts ==
  ASSUME QueueInv, NEW w \in Worker, CompleteTask(w)
  PROVE  LET t == job[w].task
             a == job[w].attempt
             s == job[w].outcome
         IN  /\ t \in Task /\ a \in Attempt /\ s \in Outcome \cup {"none"}
             /\ \/ /\ status[t] = "running" /\ attempts[t] = a /\ s \in Outcome
                   /\ run[t][a] = "running"
                   /\ status' = [status EXCEPT ![t] = s]
                   /\ owner' = [owner EXCEPT ![t] = None]
                   /\ lease' = [lease EXCEPT ![t] = "none"]
                   /\ run' = [run EXCEPT ![t][a] = s]
                \/ UNCHANGED <<status, owner, lease, run>>
  <1> USE DEF QueueInv
  <1> DEFINE t == job[w].task
             a == job[w].attempt
             s == job[w].outcome
  <1>1. job[w] \in Job
    BY DEF CompleteTask, JobHeld, TypeOK
  <1>2. t \in Task /\ a \in Attempt /\ s \in Outcome \cup {"none"}
    BY <1>1 DEF Job
  <1>3. CASE CompleteAnswer(t, a, s) = "commit"
    <2>1. run[t][a] = "running" /\ CanTransition(status[t], s)
      BY <1>3 DEF CompleteAnswer
    <2>2. status[t] = "running" /\ attempts[t] = a
      BY <1>2, <2>1 DEF RunningRunIsLatest
    <2>3. s \in Outcome
      BY <1>2, <2>1, <2>2, TransitionFacts
    <2> QED
      BY <1>2, <1>3, <2>1, <2>2, <2>3 DEF CompleteTask
  <1>4. CASE CompleteAnswer(t, a, s) # "commit"
    BY <1>2, <1>4 DEF CompleteTask
  <1> QED
    BY <1>3, <1>4

\* Completing a task preserves the invariant, stale or not.
LEMMA CompleteInv ==
  ASSUME QueueInv, NEW w \in Worker, CompleteTask(w)
  PROVE  QueueInv'
  <1> USE DEF QueueInv
  <1> DEFINE t == job[w].task
             a == job[w].attempt
             s == job[w].outcome
  <1>1. /\ pc[w] = "completing" /\ job' = [job EXCEPT ![w] = NoJob]
        /\ pc'[w] \in {"idle", "down"}
        /\ pc' \in [Worker -> {"idle", "processing", "completing", "down"}]
        /\ \A v \in Worker : v # w => job'[v] = job[v] /\ pc'[v] = pc[v]
        /\ UNCHANGED <<attempts, supersededBy>>
    BY DEF CompleteTask, TypeOK
  <1>2. JobHeld' /\ OneWorkerPerRun'
    BY <1>1 DEF JobHeld, OneWorkerPerRun, NoJob, TypeOK
  <1>3. job' \in [Worker -> Job \cup {NoJob}]
    BY <1>1 DEF TypeOK
  <1>4. CASE UNCHANGED <<status, owner, lease, run>>
    <2>1. TypeOK'
      BY <1>1, <1>3, <1>4 DEF TypeOK
    <2>2. RunLedger' /\ SuccessorMeansSuperseded' /\ RunningRunIsLatest'
          /\ OutcomeIsLatestRun' /\ DeadTaskHasNoOpenRun'
      BY <1>1, <1>4 DEF RunLedger, SuccessorMeansSuperseded, RunningRunIsLatest,
                        OutcomeIsLatestRun, DeadTaskHasNoOpenRun
    <2> QED
      BY <1>2, <2>1, <2>2
  <1>5. CASE ~UNCHANGED <<status, owner, lease, run>>
    <2>1. /\ t \in Task /\ a \in Attempt /\ s \in Outcome
          /\ status[t] = "running" /\ attempts[t] = a /\ run[t][a] = "running"
          /\ status' = [status EXCEPT ![t] = s]
          /\ owner' = [owner EXCEPT ![t] = None]
          /\ lease' = [lease EXCEPT ![t] = "none"]
          /\ run' = [run EXCEPT ![t][a] = s]
      BY <1>5, CommitFacts
    <2> HIDE DEF t, a, s
    <2>2. TypeOK'
      BY <1>1, <1>3, <2>1 DEF TypeOK, Status, Outcome
    <2>3. RunLedger' /\ SuccessorMeansSuperseded' /\ DeadTaskHasNoOpenRun'
      BY <1>1, <2>1 DEF RunLedger, SuccessorMeansSuperseded, DeadTaskHasNoOpenRun,
                        TypeOK, Outcome
    <2>4. RunningRunIsLatest'
      BY <1>1, <2>1 DEF RunningRunIsLatest, TypeOK, Outcome
    <2>5. OutcomeIsLatestRun'
      BY <1>1, <2>1 DEF OutcomeIsLatestRun, TypeOK
    <2> QED
      BY <1>2, <2>2, <2>3, <2>4, <2>5
  <1> QED
    BY <1>4, <1>5

-----------------------------------------------------------------------------
(* The theorems.                                                           *)

\* Every step of the system preserves the inductive invariant.
LEMMA NextInv == QueueInv /\ [Next]_vars => QueueInv'
  <1> SUFFICES ASSUME QueueInv, [Next]_vars PROVE QueueInv'
    OBVIOUS
  <1>1. CASE TaskStep
    BY <1>1, CreateInv, CancelInv, RetryInv, SupersedeInv, LeaseInv DEF TaskStep
  <1>2. CASE WorkerStep
    BY <1>2, ClaimInv, LeaseInv, LocalInv, CompleteInv DEF WorkerStep
  <1>3. CASE UNCHANGED vars
    <2>1. UNCHANGED <<status, attempts, owner, lease, supersededBy, run, pc, job>>
      BY <1>3 DEF vars, taskRows, workers
    <2> QED
      BY <2>1 DEF QueueInv, TypeOK, RunLedger, JobHeld, SuccessorMeansSuperseded,
         RunningRunIsLatest, OneWorkerPerRun, OutcomeIsLatestRun, DeadTaskHasNoOpenRun
  <1> QED
    BY <1>1, <1>2, <1>3 DEF Next

\* The inductive invariant holds in every reachable state.
THEOREM QueueInvariant == Spec => []QueueInv
  BY InitInv, NextInv, PTL DEF Spec

\* Rows, runs and worker variables keep their types (attempts never exceed the
\* bound max_attempts, whatever retries, crashes and lease expiries happen).
THEOREM TypeCorrect == Spec => []TypeOK
  BY QueueInvariant, PTL DEF QueueInv

\* Fencing: a run is running exactly when it is the latest attempt of a running
\* task, so a worker that lost its lease can no longer write through its run.
THEOREM FencedRuns == Spec => []RunningRunIsLatest
  BY QueueInvariant, PTL DEF QueueInv

\* No two workers ever hold the same run.
THEOREM ExclusiveRuns == Spec => []OneWorkerPerRun
  BY QueueInvariant, PTL DEF QueueInv

\* The task row agrees with the latest run, and a cancelled or superseded task
\* has no open run.
THEOREM LedgerAgrees == Spec => [](OutcomeIsLatestRun /\ DeadTaskHasNoOpenRun)
  BY QueueInvariant, PTL DEF QueueInv

\* Terminal idempotency: no step rewrites a run that has ended.  The attempt a
\* claim inserts had no run before, and a completion writes a running run.
THEOREM FrozenRuns == Spec => ClosedRunsFrozen
  <1>1. QueueInv /\ [Next]_vars
          => [\A t \in Task, a \in Attempt :
                run[t][a] \in ClosedRun => run'[t][a] = run[t][a]]_vars
    <2> SUFFICES ASSUME QueueInv, Next, NEW t \in Task, NEW a \in Attempt,
                        run[t][a] \in ClosedRun
                 PROVE  run'[t][a] = run[t][a]
      BY DEF vars
    <2> USE DEF QueueInv
    <2>1. run[t][a] \notin {"none", "running"}
      BY DEF ClosedRun
    <2>2. CASE \E u \in Task : CreateTask(u) \/ RetryTask(u) \/ LeaseExpires(u)
      BY <2>2 DEF CreateTask, RetryTask, LeaseExpires
    <2>3. CASE \E u \in Task : CancelTask(u)
      <3>1. PICK u \in Task : run' = [run EXCEPT ![u] = CloseRuns(u, "cancelled")]
        BY <2>3 DEF CancelTask
      <3> QED
        BY <3>1, CloseRunsFacts DEF TypeOK
    <2>4. CASE \E u \in Task : SupersedeCodeReviews(u)
      <3>1. run'[t] \in {run[t], CloseRuns(t, "superseded")}
        BY <2>4 DEF SupersedeCodeReviews
      <3> QED
        BY <3>1, CloseRunsFacts
    <2>5. CASE \E w \in Worker, u \in Task : ClaimTask(w, u)
      <3>1. PICK w \in Worker, u \in Task : ClaimTask(w, u)
        BY <2>5
      <3>2. run' = [run EXCEPT ![u] = RunsOnClaim(u)]
        BY <3>1 DEF ClaimTask
      <3>3. CASE u # t
        BY <3>2, <3>3 DEF TypeOK
      <3>4. CASE u = t
        <4>1. attempts[t] \in Nat /\ a \in Nat /\ ~(a > attempts[t])
          BY <2>1, QueueAssumption DEF TypeOK, RunLedger, Attempt
        <4>2. a # NextAttempt(t)
          BY <4>1 DEF NextAttempt
        <4>3. RunsOnClaim(t)[a] = run[t][a]
          BY <4>2, <2>1 DEF RunsOnClaim
        <4> QED
          BY <3>2, <3>4, <4>3 DEF TypeOK
      <3> QED
        BY <3>3, <3>4
    <2>6. CASE \E w \in Worker : CompleteTask(w)
      <3>1. PICK w \in Worker : CompleteTask(w)
        BY <2>6
      <3>2. CASE run' = run
        BY <3>2
      <3>3. CASE run' # run
        <4> DEFINE u == job[w].task
                   b == job[w].attempt
                   s == job[w].outcome
        <4>1. /\ u \in Task /\ b \in Attempt
              /\ run[u][b] = "running" /\ run' = [run EXCEPT ![u][b] = s]
          BY <3>1, <3>3, CommitFacts
        <4> HIDE DEF u, b, s
        <4> QED
          BY <2>1, <4>1 DEF TypeOK
      <3> QED
        BY <3>2, <3>3
    <2>7. CASE \E w \in Worker : \/ \E s \in Outcome : Process(w, s)
                                \/ Heartbeat(w) \/ Crash(w) \/ Restart(w)
      BY <2>7 DEF Process, Heartbeat, Crash, Restart
    <2> QED
      BY <2>2, <2>3, <2>4, <2>5, <2>6, <2>7 DEF Next, TaskStep, WorkerStep
  <1> QED
    BY <1>1, QueueInvariant, PTL DEF Spec, ClosedRunsFrozen

\* A running task is settled only by the worker that holds its latest attempt,
\* with the outcome that worker's processor returned, and a succeeded task is
\* final but for supersession.
THEOREM HolderSettles == Spec => OnlyHolderSettles
  <1> DEFINE Settles(t) ==
        /\ status[t] = "running" /\ status'[t] \in Outcome
             => \E w \in Worker : /\ job[w].task = t
                                  /\ job[w].attempt = attempts[t]
                                  /\ job[w].outcome = status'[t]
        /\ status[t] = "succeeded" => status'[t] \in {"succeeded", "superseded"}
  <1>1. QueueInv /\ [Next]_vars => [\A t \in Task : Settles(t)]_vars
    <2> SUFFICES ASSUME QueueInv, Next, NEW t \in Task
                 PROVE  Settles(t)
      BY DEF vars
    <2> USE DEF QueueInv, Outcome
    <2>1. CASE \E u \in Task : CreateTask(u) \/ RetryTask(u) \/ CancelTask(u)
      BY <2>1, TransitionFacts DEF CreateTask, RetryTask, CancelTask, Exists, TypeOK
    <2>2. CASE \E u \in Task : SupersedeCodeReviews(u)
      BY <2>2 DEF SupersedeCodeReviews
    <2>3. CASE \E w \in Worker, u \in Task : ClaimTask(w, u)
      BY <2>3 DEF ClaimTask, Claimable, TypeOK
    <2>4. CASE \E w \in Worker : CompleteTask(w)
      <3>1. PICK w \in Worker : CompleteTask(w)
        BY <2>4
      <3>2. CASE status' = status
        BY <3>2
      <3>3. CASE status' # status
        <4>1. /\ job[w].task \in Task /\ status[job[w].task] = "running"
              /\ attempts[job[w].task] = job[w].attempt
              /\ status' = [status EXCEPT ![job[w].task] = job[w].outcome]
          BY <3>1, <3>3, CommitFacts
        <4> QED
          BY <4>1 DEF TypeOK
      <3> QED
        BY <3>2, <3>3
    <2>5. CASE \/ \E u \in Task : LeaseExpires(u)
               \/ \E w \in Worker : \/ \E s \in Outcome : Process(w, s)
                                    \/ Heartbeat(w) \/ Crash(w) \/ Restart(w)
      BY <2>5 DEF LeaseExpires, Process, Heartbeat, Crash, Restart, taskRows
    <2> QED
      BY <2>1, <2>2, <2>3, <2>4, <2>5 DEF Next, TaskStep, WorkerStep
  <1> QED
    BY <1>1, QueueInvariant, PTL DEF Spec, OnlyHolderSettles
=============================================================================
