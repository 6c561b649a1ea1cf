--------------------------- MODULE ProcessingProofs ---------------------------
(***************************************************************************)
(* Proofs that the processors use the queue by its operations only, and    *)
(* that what they publish and what the readers of a run's events get is    *)
(* right for every set of tasks, workers and readers and every bound on    *)
(* attempts and logs.                                                      *)
(***************************************************************************)
EXTENDS Processing, TaskQueueProofs, WellFoundedInduction

-----------------------------------------------------------------------------
(* The invariant.                                                          *)

Event == [sequence : Nat \ {0}, kind : EventKind]
ACStatus == {"none", "running", "succeeded", "failed", "canceled"}
Following == [task : Task, attempt : Attempt, after : Nat, got : SUBSET Event,
              open : BOOLEAN]

\* Every variable keeps to its type, the logs and the readers too.
ProcessingTypes ==
  /\ plan \in Plan /\ kind \in [Task -> Kind]
  /\ phase \in [Worker -> Phase]
  /\ ac \in PerRunOf(ACStatus)
  /\ events \in PerRunOf(SUBSET Event)
  /\ evidence \in PerRunOf(BOOLEAN) /\ findings \in PerRunOf(BOOLEAN)
  /\ checks \in PerRunOf(Nat) /\ comments \in PerRunOf(Nat)
  /\ reader \in [Reader -> Following \cup {NotReading}]
  /\ \A w \in Worker : pc[w] = "processing" <=> phase[w] # "none"

\* Everything of the run is at GitHub, once.
InFull(t, a) ==
  /\ findings[t][a] = TRUE /\ checks[t][a] = 1
  /\ comments[t][a] = IF kind[t] = "code_review" THEN 1 ELSE 0

\* What a processor in phase p has done and has not done for its run.
PhaseMeans(p, t, a) ==
  /\ p \notin {"none", "comment", "report", "succeed"}
       => checks[t][a] = 0 /\ comments[t][a] = 0
  /\ p = "comment" => kind[t] = "code_review" /\ checks[t][a] = 1 /\ comments[t][a] = 0
  /\ p \in {"report", "succeed"} => InFull(t, a)
  /\ p \in {"findings", "check", "comment", "report", "succeed"} => ac[t][a] = "succeeded"
  /\ p \in {"check", "comment", "report", "succeed"} => findings[t][a] = TRUE
  /\ p \notin {"none", "status", "logs"} /\ kind[t] = "ci_diagnosis"
       => evidence[t][a] = TRUE

PhasesMean == \A w \in Worker : phase[w] # "none" => PhaseMeans(phase[w], T(w), A(w))

\* A processor that has returned success has published.
SuccessPublished ==
  \A w \in Worker :
    pc[w] = "completing" /\ job[w].outcome = "succeeded" => InFull(T(w), A(w))

\* What the rows of a run say of its publication.
RunSound(t, a) ==
  /\ checks[t][a] \in {0, 1} /\ comments[t][a] \in {0, 1}
  /\ checks[t][a] = 0 => comments[t][a] = 0
  /\ checks[t][a] = 1 => /\ ac[t][a] = "succeeded" /\ findings[t][a] = TRUE
                         /\ kind[t] = "ci_diagnosis" => evidence[t][a] = TRUE
  /\ run[t][a] = "none" => checks[t][a] = 0
  /\ run[t][a] = "succeeded" => InFull(t, a)

RunsSound == \A t \in Task, a \in Attempt : RunSound(t, a)

PublicationInv == PhasesMean /\ SuccessPublished /\ RunsSound

\* A log that is not empty has a last event.
HasLast(log) == log # {} => \E e \in log : \A f \in log : f.sequence <= e.sequence

LogsSound ==
  \A t \in Task, a \in Attempt :
    /\ HasLast(events[t][a])
    /\ run[t][a] = "none" => events[t][a] = {}

\* What reader r follows.
Follows(r, t, a) == reader[r].task = t /\ reader[r].attempt = a

\* Readers follow runs that exist.
ReadersFollowRuns ==
  \A r \in Reader :
    /\ reader[r].open => reader[r] # NotReading
    /\ \A t \in Task, a \in Attempt : Follows(r, t, a) => run[t][a] # "none"

\* No reader is ahead of a log that still grows.
NotAhead(r, t, a) ==
  reader[r].after = 0 \/ \E e \in events[t][a] : reader[r].after <= e.sequence

ReadersBehind ==
  \A w \in Worker, r \in Reader :
    T(w) # None /\ Follows(r, T(w), A(w)) => NotAhead(r, T(w), A(w))

LogInv == LogsSound /\ ReadersFollowRuns /\ ReadersBehind /\ ReaderMissesNothing

\* The inductive invariant.
ProcessingInv == QueueInv /\ ProcessingTypes /\ PublicationInv /\ LogInv

-----------------------------------------------------------------------------
(* Facts about numbers, runs and workers.                                  *)

\* A set of numbers that is not empty has a least one.
LEMMA LeastNumber ==
  ASSUME NEW S \in SUBSET Nat, S # {}
  PROVE  \E x \in S : \A y \in S : x <= y
  <1> DEFINE R == OpToRel(<, Nat)
  <1>1. IsWellFoundedOn(R, Nat)
    BY NatLessThanWellFounded
  <1>2. \A x, y \in Nat : <<y, x>> \in R <=> y < x
    BY DEF OpToRel
  <1> HIDE DEF R
  <1>3. PICK x \in S : \A y \in S : <<y, x>> \notin R
    BY <1>1, WFMin
  <1>4. x \in Nat /\ \A y \in S : y \in Nat /\ ~(y < x)
    BY <1>2, <1>3
  <1> QED
    BY <1>3, <1>4

\* The maximum of a set that has one.
LEMMA SetMaxFacts ==
  ASSUME NEW S \in SUBSET Nat, NEW m \in S, \A x \in S : x <= m
  PROVE  SetMax(S) = m
  <1>1. SetMax(S) \in S /\ \A y \in S : y <= SetMax(S)
    BY DEF SetMax
  <1>2. SetMax(S) \in Nat /\ m \in Nat /\ SetMax(S) <= m /\ m <= SetMax(S)
    BY <1>1
  <1> QED
    BY <1>2

\* A worker that holds a job holds a run that exists.
LEMMA HeldRun ==
  ASSUME QueueInv, NEW w \in Worker, job[w].task # None
  PROVE  /\ job[w] \in Job /\ T(w) \in Task /\ A(w) \in Attempt
         /\ run[T(w)][A(w)] # "none" /\ pc[w] \in {"processing", "completing"}
  <1> USE DEF QueueInv, T, A
  <1>1. job[w] # NoJob /\ job[w] \in Job
    BY DEF TypeOK, NoJob
  <1>2. T(w) \in Task /\ A(w) \in Attempt
    BY <1>1 DEF Job
  <1>3. A(w) <= attempts[T(w)] /\ pc[w] \in {"processing", "completing"}
    BY <1>1 DEF JobHeld
  <1>4. A(w) \in Nat /\ attempts[T(w)] \in Nat
    BY <1>2, QueueAssumption DEF TypeOK, Attempt
  <1> QED
    BY <1>1, <1>2, <1>3, <1>4 DEF RunLedger

\* A worker that processes or completes holds a job.
LEMMA Holds ==
  ASSUME QueueInv, NEW w \in Worker, pc[w] \in {"processing", "completing"}
  PROVE  job[w].task # None
  <1>1. job[w] \in Job
    BY DEF QueueInv, JobHeld, TypeOK
  <1> QED
    BY <1>1, QueueAssumption DEF Job

\* A run that exists stays, and it succeeds only when the worker that holds it
\* completes it with success.
LEMMA RunHistory ==
  ASSUME QueueInv, [Next]_vars, NEW t \in Task, NEW a \in Attempt
  PROVE  /\ run'[t][a] = "none" => run[t][a] = "none"
         /\ run'[t][a] = "succeeded" =>
              \/ run[t][a] = "succeeded"
              \/ \E w \in Worker : /\ pc[w] = "completing" /\ job[w].outcome = "succeeded"
                                   /\ job[w].task = t /\ job[w].attempt = a
  <1> USE DEF QueueInv
  <1>1. CASE \E u \in Task : CreateTask(u) \/ RetryTask(u) \/ LeaseExpires(u)
    BY <1>1 DEF CreateTask, RetryTask, LeaseExpires
  <1>2. CASE \E u \in Task : CancelTask(u)
    <2>1. PICK u \in Task : run' = [run EXCEPT ![u] = CloseRuns(u, "cancelled")]
      BY <1>2 DEF CancelTask
    <2> QED
      BY <2>1 DEF CloseRuns, TypeOK
  <1>3. CASE \E u \in Task : SupersedeCodeReviews(u)
    <2>1. run'[t] \in {run[t], CloseRuns(t, "superseded")}
      BY <1>3 DEF SupersedeCodeReviews
    <2> QED
      BY <2>1 DEF CloseRuns
  <1>4. CASE \E w \in Worker, u \in Task : ClaimTask(w, u)
    <2>1. PICK u \in Task : run' = [run EXCEPT ![u] = RunsOnClaim(u)]
      BY <1>4 DEF ClaimTask
    <2> QED
      BY <2>1 DEF RunsOnClaim, TypeOK
  <1>5. CASE \E w \in Worker : CompleteTask(w)
    <2>1. PICK w \in Worker : CompleteTask(w)
      BY <1>5
    <2>2. CASE run' = run
      BY <2>2
    <2>3. CASE run' # run
      <3> DEFINE u == job[w].task
                 b == job[w].attempt
                 s == job[w].outcome
      <3>1. /\ u \in Task /\ b \in Attempt /\ s \in Outcome /\ pc[w] = "completing"
            /\ run' = [run EXCEPT ![u][b] = s]
        BY <2>1, <2>3, CommitFacts DEF CompleteTask
      <3>2. s # "none"
        BY <3>1 DEF Outcome
      <3> HIDE DEF u, b, s
      <3>3. u = t /\ b = a => run'[t][a] = s
        BY <3>1 DEF TypeOK
      <3>4. u # t \/ b # a => run'[t][a] = run[t][a]
        BY <3>1 DEF TypeOK
      <3> QED
        BY <3>1, <3>2, <3>3, <3>4 DEF u, b, s
    <2> QED
      BY <2>2, <2>3
  <1>6. CASE \/ \E w \in Worker : \/ \E s \in Outcome : Process(w, s)
                                 \/ Heartbeat(w) \/ Crash(w) \/ Restart(w)
             \/ UNCHANGED vars
    BY <1>6 DEF Process, Heartbeat, Crash, Restart, vars
  <1> QED
    BY <1>1, <1>2, <1>3, <1>4, <1>5, <1>6 DEF Next, TaskStep, WorkerStep

-----------------------------------------------------------------------------
(* Publication.                                                            *)

\* A call of worker w's processor that changes its own run only, and leaves it as
\* the next phase means, preserves the invariant.
LEMMA CallKeepsPublication ==
  ASSUME QueueInv, ProcessingTypes, PublicationInv, NEW w \in Worker,
         NEW t \in Task, NEW a \in Attempt, t = T(w), a = A(w), pc[w] = "processing",
         UNCHANGED vars, kind' = kind,
         NEW q \in Phase, phase' = [phase EXCEPT ![w] = q],
         \A u \in Task, b \in Attempt :
           u # t \/ b # a => /\ ac'[u][b] = ac[u][b]
                             /\ checks'[u][b] = checks[u][b]
                             /\ comments'[u][b] = comments[u][b]
                             /\ evidence'[u][b] = evidence[u][b]
                             /\ findings'[u][b] = findings[u][b],
         PhaseMeans(q, t, a)', RunSound(t, a)'
  PROVE  PublicationInv'
  <1> USE DEF PublicationInv
  <1>1. job' = job /\ pc' = pc /\ run' = run
    BY DEF vars, workers
  <1>2. phase'[w] = q /\ \A v \in Worker : v # w => phase'[v] = phase[v]
    BY DEF ProcessingTypes
  <1>3. \A v \in Worker :
          v # w /\ pc[v] \in {"processing", "completing"}
            => T(v) \in Task /\ A(v) \in Attempt /\ (T(v) # t \/ A(v) # a)
    BY Holds, HeldRun DEF QueueInv, OneWorkerPerRun, T, A
  <1>4. RunsSound'
    BY <1>1 DEF RunsSound, RunSound, InFull
  <1>5. PhasesMean'
    <2> SUFFICES ASSUME NEW v \in Worker, phase'[v] # "none"
                 PROVE  PhaseMeans(phase[v], T(v), A(v))'
      BY DEF PhasesMean
    <2>1. CASE v = w
      BY <1>1, <1>2, <2>1 DEF PhaseMeans, T, A, InFull
    <2>2. CASE v # w
      <3>1. /\ pc[v] = "processing" /\ phase[v] # "none" /\ phase'[v] = phase[v]
            /\ PhaseMeans(phase[v], T(v), A(v))
        BY <1>2, <2>2 DEF ProcessingTypes, PhasesMean
      <3>2. T(v)' = T(v) /\ A(v)' = A(v)
        BY <1>1 DEF T, A
      <3> QED
        BY <1>3, <2>2, <3>1, <3>2 DEF PhaseMeans, InFull
    <2> QED
      BY <2>1, <2>2
  <1>6. SuccessPublished'
    <2> SUFFICES ASSUME NEW v \in Worker, pc[v] = "completing",
                        job[v].outcome = "succeeded"
                 PROVE  InFull(T(v), A(v))'
      BY <1>1 DEF SuccessPublished
    <2>1. v # w /\ InFull(T(v), A(v)) /\ T(v)' = T(v) /\ A(v)' = A(v)
      BY <1>1 DEF SuccessPublished, T, A
    <2> QED
      BY <1>3, <2>1 DEF InFull
  <1> QED
    BY <1>4, <1>5, <1>6

\* A step that writes no result and starts no processor but on a run without
\* publication preserves the invariant, whatever becomes of tasks and leases.
LEMMA RestKeepsPublication ==
  ASSUME QueueInv, PublicationInv, [Next]_vars,
         UNCHANGED <<kind, checks, comments, stored>>,
         \A t \in Task, a \in Attempt : ac[t][a] = "succeeded" => ac'[t][a] = "succeeded",
         \A w \in Worker : phase'[w] # "none" =>
           \/ phase'[w] = phase[w] /\ job'[w] = job[w]
           \/ /\ phase'[w] = "status"
              /\ job'[w].task \in Task /\ job'[w].attempt \in Attempt
              /\ run[job'[w].task][job'[w].attempt] = "none",
         \A w \in Worker : pc'[w] = "completing" /\ job'[w].outcome = "succeeded" =>
           \/ pc[w] = "completing" /\ job'[w] = job[w]
           \/ InFull(T(w), A(w)) /\ T(w)' = T(w) /\ A(w)' = A(w),
         \A w \in Worker : phase[w] # "none" => pc[w] = "processing"
  PROVE  PublicationInv'
  <1> USE DEF PublicationInv
  <1>1. UNCHANGED <<kind, checks, comments, evidence, findings>>
    BY DEF stored
  <1>2. \A t \in Task, a \in Attempt : RunSound(t, a)'
    <2> SUFFICES ASSUME NEW t \in Task, NEW a \in Attempt PROVE RunSound(t, a)'
      OBVIOUS
    <2>1. RunSound(t, a) /\ (InFull(t, a) => InFull(t, a)')
      BY <1>1 DEF RunsSound, InFull
    <2>2. run'[t][a] = "none" => run[t][a] = "none"
      BY RunHistory
    <2>3. run'[t][a] = "succeeded" => InFull(t, a)
      <3> SUFFICES ASSUME run'[t][a] = "succeeded" PROVE InFull(t, a)
        OBVIOUS
      <3>1. CASE run[t][a] = "succeeded"
        BY <2>1, <3>1 DEF RunSound
      <3>2. CASE run[t][a] # "succeeded"
        <4>1. PICK w \in Worker : /\ pc[w] = "completing" /\ job[w].outcome = "succeeded"
                                  /\ job[w].task = t /\ job[w].attempt = a
          BY <3>2, RunHistory
        <4> QED
          BY <4>1 DEF SuccessPublished, T, A
      <3> QED
        BY <3>1, <3>2
    <2> QED
      BY <1>1, <2>1, <2>2, <2>3 DEF RunSound
  <1>3. PhasesMean'
    <2> SUFFICES ASSUME NEW w \in Worker, phase'[w] # "none"
                 PROVE  PhaseMeans(phase[w], T(w), A(w))'
      BY DEF PhasesMean
    <2>1. CASE phase'[w] = phase[w] /\ job'[w] = job[w]
      <3>1. PhaseMeans(phase[w], T(w), A(w)) /\ T(w)' = T(w) /\ A(w)' = A(w)
        BY <2>1 DEF PhasesMean, T, A
      <3>2. T(w) \in Task /\ A(w) \in Attempt
        BY <2>1, Holds, HeldRun
      <3> QED
        BY <1>1, <2>1, <3>1, <3>2 DEF PhaseMeans, InFull
    <2>2. CASE /\ phase'[w] = "status"
               /\ job'[w].task \in Task /\ job'[w].attempt \in Attempt
               /\ run[job'[w].task][job'[w].attempt] = "none"
      <3>1. checks[job'[w].task][job'[w].attempt] = 0
            /\ comments[job'[w].task][job'[w].attempt] = 0
        BY <2>2 DEF RunsSound, RunSound
      <3> QED
        BY <1>1, <2>2, <3>1 DEF PhaseMeans, T, A
    <2> QED
      BY <2>1, <2>2
  <1>4. SuccessPublished'
    <2> SUFFICES ASSUME NEW w \in Worker, pc'[w] = "completing",
                        job'[w].outcome = "succeeded"
                 PROVE  InFull(T(w), A(w))'
      BY DEF SuccessPublished
    <2>1. InFull(T(w), A(w)) /\ T(w)' = T(w) /\ A(w)' = A(w)
      BY DEF SuccessPublished, T, A
    <2> QED
      BY <1>1, <2>1 DEF InFull
  <1> QED
    BY <1>2, <1>3, <1>4 DEF RunsSound

-----------------------------------------------------------------------------
(* The log of a run and its readers.                                       *)

\* AppendRunEvent numbers an event behind all that are there.
LEMMA NextSequenceFacts ==
  ASSUME NEW log \in SUBSET Event, HasLast(log)
  PROVE  /\ NextSequence(log) \in Nat \ {0}
         /\ \A e \in log : e.sequence < NextSequence(log)
  <1>1. CASE log = {}
    BY <1>1 DEF NextSequence
  <1>2. CASE log # {}
    <2> DEFINE S == {e.sequence : e \in log}
    <2>1. PICK l \in log : \A f \in log : f.sequence <= l.sequence
      BY <1>2 DEF HasLast
    <2>2. \A e \in log : e.sequence \in Nat
      BY DEF Event
    <2>3. S \in SUBSET Nat /\ l.sequence \in S /\ \A x \in S : x <= l.sequence
      BY <2>1, <2>2
    <2>4. NextSequence(log) = SetMax(S) + 1
      BY <1>2 DEF NextSequence
    <2> HIDE DEF S
    <2>5. NextSequence(log) = l.sequence + 1
      BY <2>3, <2>4, SetMaxFacts
    <2> QED
      BY <2>1, <2>2, <2>5
  <1> QED
    BY <1>1, <1>2

\* What a poll sends is every event after the last one sent, up to the one it
\* will resume after.
LEMMA BatchFacts ==
  ASSUME NEW log \in SUBSET Event, HasLast(log), NEW after \in Nat
  PROVE  LET batch == Batch(log, after)
             next == ResumeAfter(batch, after)
         IN /\ batch \subseteq log /\ next \in Nat
            /\ next = after \/ \E b \in log : next = b.sequence
            /\ \A e \in log : after < e.sequence /\ e.sequence <= next => e \in batch
  <1> DEFINE batch == Batch(log, after)
             next == ResumeAfter(batch, after)
             Later == {e \in log : e.kind \in Terminal /\ e.sequence > after}
             Ends == {e.sequence : e \in Later}
  <1>1. \A e \in log : e.sequence \in Nat
    BY DEF Event
  <1>2. batch \subseteq log
    BY DEF Batch
  <1>3. CASE batch = {}
    <2>1. next = after
      BY <1>3 DEF ResumeAfter
    <2> HIDE DEF next, batch
    <2>2. \A e \in log : ~(after < e.sequence /\ e.sequence <= next)
      BY <1>1, <2>1
    <2> QED
      BY <1>2, <2>1, <2>2 DEF next, batch
  <1>4. CASE batch # {}
    <2>1. PICK m \in batch : \A e \in batch : e.sequence <= m.sequence
      <3>1. CASE Later = {}
        <4>1. \A e \in log : e.sequence > after => e \in batch
          BY <1>1, <3>1 DEF Batch
        <4>2. PICK l \in log : \A f \in log : f.sequence <= l.sequence
          BY <1>2, <1>4 DEF HasLast
        <4>3. l.sequence > after
          <5>1. PICK e \in batch : e.sequence > after
            BY <1>4 DEF Batch
          <5> QED
            BY <1>1, <1>2, <4>2, <5>1
        <4> QED
          BY <1>2, <4>1, <4>2, <4>3
      <3>2. CASE Later # {}
        <4>1. Ends \in SUBSET Nat /\ Ends # {}
          BY <1>1, <3>2
        <4>2. PICK x \in Ends : \A y \in Ends : x <= y
          BY <4>1, LeastNumber
        <4>3. PICK l \in Later : x = l.sequence
          BY <4>2
        <4>4. \A f \in log : f.kind \in Terminal /\ f.sequence > after
                               => l.sequence <= f.sequence
          BY <4>2, <4>3
        <4>5. l \in batch
          BY <1>1, <4>3, <4>4 DEF Batch
        <4>6. \A e \in batch : ~(after < l.sequence /\ l.sequence < e.sequence)
          BY <4>3 DEF Batch
        <4> QED
          BY <1>1, <1>2, <4>3, <4>5, <4>6
      <3> QED
        BY <3>1, <3>2
    <2> DEFINE S == {e.sequence : e \in batch}
    <2>2. S \in SUBSET Nat /\ m.sequence \in S /\ \A x \in S : x <= m.sequence
      BY <1>1, <1>2, <2>1
    <2>3. next = SetMax(S)
      BY <1>4 DEF ResumeAfter
    <2>4. next = m.sequence
      <3> HIDE DEF S, next
      <3> QED
        BY <2>2, <2>3, SetMaxFacts
    <2>5. ASSUME NEW e \in log, after < e.sequence, e.sequence <= m.sequence
          PROVE  e \in batch
      <3>1. \A f \in log : after < f.sequence /\ f.sequence < m.sequence
                             => f.kind \notin Terminal
        BY <2>1 DEF Batch
      <3>2. \A f \in log : after < f.sequence /\ f.sequence < e.sequence
                             => f.kind \notin Terminal
        BY <1>1, <1>2, <2>1, <2>5, <3>1
      <3> QED
        BY <2>5, <3>2, <1>1 DEF Batch
    <2> HIDE DEF next, batch
    <2>6. next \in Nat /\ m \in log
      BY <1>1, <1>2, <2>1, <2>4
    <2> QED
      BY <1>2, <2>4, <2>5, <2>6 DEF next, batch
  <1> QED
    BY <1>3, <1>4

\* A step that appends nothing, sends nothing and claims only new runs.
LEMMA LogAlone ==
  ASSUME QueueInv, LogInv, [Next]_vars, UNCHANGED <<events, reader>>,
         \A w \in Worker : job'[w].task # None =>
           \/ job'[w].task = job[w].task /\ job'[w].attempt = job[w].attempt
           \/ /\ job'[w].task \in Task /\ job'[w].attempt \in Attempt
              /\ run[job'[w].task][job'[w].attempt] = "none"
  PROVE  LogInv'
  <1> USE DEF LogInv
  <1>1. \A t \in Task, a \in Attempt : run'[t][a] = "none" => run[t][a] = "none"
    BY RunHistory
  <1>2. LogsSound' /\ ReadersFollowRuns' /\ ReaderMissesNothing'
    BY <1>1 DEF LogsSound, HasLast, ReadersFollowRuns, Follows, ReaderMissesNothing
  <1>3. ReadersBehind'
    <2> SUFFICES ASSUME NEW w \in Worker, NEW r \in Reader, job'[w].task # None,
                        Follows(r, job'[w].task, job'[w].attempt)
                 PROVE  NotAhead(r, job'[w].task, job'[w].attempt)
      BY DEF ReadersBehind, Follows, NotAhead, T, A
    <2>1. job'[w].task = job[w].task /\ job'[w].attempt = job[w].attempt
      BY DEF ReadersFollowRuns
    <2> QED
      BY <2>1 DEF ReadersBehind, T, A
  <1> QED
    BY <1>2, <1>3

\* A processor appends to the log of its own run.
LEMMA AppendKeepsLog ==
  ASSUME QueueInv, ProcessingTypes, LogInv, UNCHANGED vars, reader' = reader,
         NEW w \in Worker, NEW t \in Task, NEW a \in Attempt, NEW k \in EventKind,
         t = T(w), a = A(w), pc[w] = "processing", AppendEvent(t, a, k)
  PROVE  LogInv' /\ events' \in PerRunOf(SUBSET Event)
  <1> USE DEF LogInv
  <1> DEFINE log == events[t][a]
             n == NextSequence(log)
             e0 == [sequence |-> n, kind |-> k]
  <1>1. log \in SUBSET Event /\ HasLast(log) /\ events \in PerRunOf(SUBSET Event)
    BY DEF ProcessingTypes, PerRunOf, LogsSound
  <1>2. n \in Nat \ {0} /\ \A e \in log : e.sequence < n
    BY <1>1, NextSequenceFacts
  <1>3. e0 \in Event /\ e0.sequence = n
    BY <1>2 DEF Event
  <1>4. events' = [events EXCEPT ![t][a] = log \cup {e0}]
    BY DEF AppendEvent
  <1> HIDE DEF e0, n
  <1>5. /\ events' \in PerRunOf(SUBSET Event) /\ events'[t][a] = log \cup {e0}
        /\ \A u \in Task, b \in Attempt : u # t \/ b # a => events'[u][b] = events[u][b]
    <2> DEFINE Logs == SUBSET Event
               longer == log \cup {e0}
    <2>1. longer \in Logs /\ events \in PerRunOf(Logs)
      BY <1>1, <1>3
    <2>2. events' = [events EXCEPT ![t][a] = longer]
      BY <1>4
    <2> HIDE DEF Logs, longer
    <2>3. /\ events' \in PerRunOf(Logs) /\ events'[t][a] = longer
          /\ \A u \in Task, b \in Attempt : u # t \/ b # a => events'[u][b] = events[u][b]
      BY <2>1, <2>2 DEF PerRunOf
    <2> QED
      BY <2>3 DEF Logs, longer
  <1>6. \A e \in log : e.sequence \in Nat
    BY <1>1 DEF Event
  <1>7. run' = run /\ job' = job
    BY DEF vars, workers
  <1>8. job[w].task # None /\ run[t][a] # "none"
    BY Holds, HeldRun
  <1> HIDE DEF log
  <1>9. LogsSound'
    <2>1. HasLast(events'[t][a])
      BY <1>2, <1>3, <1>5, <1>6 DEF HasLast
    <2> QED
      BY <1>5, <1>7, <1>8, <2>1 DEF LogsSound, HasLast
  <1>10. ReadersFollowRuns'
    BY <1>7 DEF ReadersFollowRuns, Follows
  <1>11. ReadersBehind'
    <2> SUFFICES ASSUME NEW v \in Worker, NEW r \in Reader, T(v) # None,
                        Follows(r, T(v), A(v))
                 PROVE  reader[r].after = 0
                        \/ \E e \in events'[T(v)][A(v)] : reader[r].after <= e.sequence
      BY <1>7 DEF ReadersBehind, Follows, NotAhead, T, A
    <2>1. T(v) \in Task /\ A(v) \in Attempt
      BY HeldRun DEF T
    <2>2. events[T(v)][A(v)] \subseteq events'[T(v)][A(v)]
      BY <1>5, <2>1 DEF log
    <2> QED
      BY <2>2 DEF ReadersBehind, NotAhead
  <1>12. ReaderMissesNothing'
    <2> SUFFICES ASSUME NEW r \in Reader, reader[r].task # None,
                        NEW e \in events'[reader[r].task][reader[r].attempt],
                        e.sequence <= reader[r].after
                 PROVE  e \in reader[r].got
      BY DEF ReaderMissesNothing
    <2>1. reader[r] \in Following
      BY DEF ProcessingTypes, NotReading
    <2>2. reader[r].task \in Task /\ reader[r].attempt \in Attempt /\ reader[r].after \in Nat
      BY <2>1 DEF Following
    <2>3. e \in events[reader[r].task][reader[r].attempt]
      <3>1. CASE reader[r].task = t /\ reader[r].attempt = a
        <4>1. reader[r].after = 0 \/ \E f \in log : reader[r].after <= f.sequence
          BY <1>8, <3>1 DEF ReadersBehind, Follows, NotAhead, T, log
        <4>2. reader[r].after < n
          BY <1>2, <1>6, <2>2, <4>1
        <4>3. e # e0
          BY <1>2, <1>3, <2>2, <4>2
        <4> QED
          BY <1>5, <3>1, <4>3 DEF log
      <3>2. CASE ~(reader[r].task = t /\ reader[r].attempt = a)
        BY <1>5, <2>2, <3>2
      <3> QED
        BY <3>1, <3>2
    <2> QED
      BY <2>3 DEF ReaderMissesNothing
  <1> QED
    BY <1>5, <1>9, <1>10, <1>11, <1>12

\* Retention deletes a prefix of a log that nobody follows or appends to.
LEMMA PruneKeepsLog ==
  ASSUME QueueInv, ProcessingTypes, LogInv, NEW t \in Task, NEW a \in Attempt,
         NEW n \in Nat, Prune(t, a, n)
  PROVE  LogInv' /\ events' \in PerRunOf(SUBSET Event)
  <1> USE DEF LogInv
  <1> DEFINE log == events[t][a]
             kept == {e \in log : e.sequence > n}
  <1>1. /\ \A w \in Worker : ~(T(w) = t /\ A(w) = a)
        /\ events' = [events EXCEPT ![t][a] = kept] /\ reader' = reader
        /\ run' = run /\ job' = job
    BY DEF Prune, vars, workers
  <1>2. kept \subseteq Event /\ kept \subseteq log /\ events \in PerRunOf(SUBSET Event)
    BY DEF ProcessingTypes, PerRunOf
  <1>3. HasLast(kept)
    <2> SUFFICES ASSUME kept # {} PROVE \E e \in kept : \A f \in kept : f.sequence <= e.sequence
      BY DEF HasLast
    <2>1. \A e \in log : e.sequence \in Nat
      BY DEF ProcessingTypes, PerRunOf, Event
    <2>2. PICK l \in log : \A f \in log : f.sequence <= l.sequence
      BY DEF LogsSound, HasLast
    <2>3. PICK e \in kept : TRUE
      OBVIOUS
    <2>4. e.sequence > n /\ e.sequence <= l.sequence
      BY <2>2, <2>3
    <2> QED
      BY <2>1, <2>2, <2>3, <2>4
  <1> HIDE DEF kept, log
  <1>4. /\ events' \in PerRunOf(SUBSET Event) /\ events'[t][a] = kept
        /\ \A u \in Task, b \in Attempt : u # t \/ b # a => events'[u][b] = events[u][b]
    <2> DEFINE Logs == SUBSET Event
    <2>1. kept \in Logs /\ events \in PerRunOf(Logs)
      BY <1>2
    <2> HIDE DEF Logs
    <2>2. /\ events' \in PerRunOf(Logs) /\ events'[t][a] = kept
          /\ \A u \in Task, b \in Attempt : u # t \/ b # a => events'[u][b] = events[u][b]
      BY <1>1, <2>1 DEF PerRunOf
    <2> QED
      BY <2>2 DEF Logs
  <1>5. \A u \in Task, b \in Attempt : events'[u][b] \subseteq events[u][b]
    BY <1>2, <1>4 DEF log
  <1>6. LogsSound'
    BY <1>1, <1>3, <1>4, <1>5 DEF LogsSound, HasLast
  <1>7. ReadersFollowRuns'
    BY <1>1 DEF ReadersFollowRuns, Follows
  <1>8. ReadersBehind'
    <2> SUFFICES ASSUME NEW v \in Worker, NEW r \in Reader, T(v) # None,
                        Follows(r, T(v), A(v))
                 PROVE  reader[r].after = 0
                        \/ \E e \in events'[T(v)][A(v)] : reader[r].after <= e.sequence
      BY <1>1 DEF ReadersBehind, Follows, NotAhead, T, A
    <2>1. T(v) \in Task /\ A(v) \in Attempt
      BY HeldRun DEF T
    <2>2. events[T(v)][A(v)] = events'[T(v)][A(v)]
      BY <1>1, <1>4, <2>1
    <2> QED
      BY <2>2 DEF ReadersBehind, NotAhead
  <1>9. ReaderMissesNothing'
    <2> SUFFICES ASSUME NEW r \in Reader, reader[r].task # None,
                        NEW e \in events'[reader[r].task][reader[r].attempt],
                        e.sequence <= reader[r].after
                 PROVE  e \in reader[r].got
      BY <1>1 DEF ReaderMissesNothing
    <2>1. reader[r] \in Following
      BY DEF ProcessingTypes, NotReading
    <2>2. reader[r].task \in Task /\ reader[r].attempt \in Attempt
      BY <2>1 DEF Following
    <2> QED
      BY <1>5, <2>2 DEF ReaderMissesNothing
  <1> QED
    BY <1>4, <1>6, <1>7, <1>8, <1>9

\* A reader that has got everything before the place it is at may go on.
LEMMA ReaderKeepsLog ==
  ASSUME QueueInv, ProcessingTypes, LogInv, UNCHANGED vars, events' = events,
         NEW r \in Reader, NEW f \in Following, reader' = [reader EXCEPT ![r] = f],
         run[f.task][f.attempt] # "none",
         \A w \in Worker : T(w) = f.task /\ A(w) = f.attempt =>
           f.after = 0 \/ \E e \in events[f.task][f.attempt] : f.after <= e.sequence,
         \A e \in events[f.task][f.attempt] : e.sequence <= f.after => e \in f.got
  PROVE  LogInv' /\ reader' \in [Reader -> Following \cup {NotReading}]
  <1> USE DEF LogInv
  <1>1. /\ reader' \in [Reader -> Following \cup {NotReading}] /\ reader'[r] = f
        /\ \A s \in Reader : s # r => reader'[s] = reader[s]
    BY DEF ProcessingTypes
  <1>2. run' = run /\ job' = job
    BY DEF vars, workers
  <1>3. f # NotReading
    BY QueueAssumption DEF Following, NotReading
  <1>4. LogsSound'
    BY <1>2 DEF LogsSound, HasLast
  <1>5. ReadersFollowRuns'
    BY <1>1, <1>2, <1>3 DEF ReadersFollowRuns, Follows
  <1>6. ReadersBehind'
    <2> SUFFICES ASSUME NEW v \in Worker, NEW s \in Reader, T(v) # None,
                        reader'[s].task = T(v), reader'[s].attempt = A(v)
                 PROVE  reader'[s].after = 0
                        \/ \E e \in events[T(v)][A(v)] : reader'[s].after <= e.sequence
      BY <1>2 DEF ReadersBehind, Follows, NotAhead, T, A
    <2> QED
      BY <1>1 DEF ReadersBehind, Follows, NotAhead
  <1>7. ReaderMissesNothing'
    BY <1>1 DEF ReaderMissesNothing
  <1> QED
    BY <1>1, <1>4, <1>5, <1>6, <1>7

-----------------------------------------------------------------------------
(* The calls of a processor.                                               *)

\* What is known when worker w's processor makes the call of phase p.
LEMMA CallFacts ==
  ASSUME ProcessingInv, NEW w \in Worker, pc[w] = "processing"
  PROVE  /\ T(w) \in Task /\ A(w) \in Attempt /\ run[T(w)][A(w)] # "none"
         /\ PhaseMeans(phase[w], T(w), A(w)) /\ RunSound(T(w), A(w))
         /\ kind[T(w)] \in Kind /\ job[w] \in Job
  <1> USE DEF ProcessingInv
  <1>1. /\ T(w) \in Task /\ A(w) \in Attempt /\ run[T(w)][A(w)] # "none" /\ job[w] \in Job
    BY Holds, HeldRun
  <1> QED
    BY <1>1 DEF ProcessingTypes, PublicationInv, PhasesMean, RunsSound

\* A call changes its own run only and leaves it as the next phase means.
LEMMA CallInv ==
  ASSUME ProcessingInv, NEW w \in Worker, NEW p, NEW q \in Phase \ {"none"}, Calls(w, p, q),
         NEW t \in Task, NEW a \in Attempt, t = T(w), a = A(w),
         ac' \in PerRunOf(ACStatus),
         evidence' \in PerRunOf(BOOLEAN), findings' \in PerRunOf(BOOLEAN),
         checks' \in PerRunOf(Nat), comments' \in PerRunOf(Nat),
         \A u \in Task, b \in Attempt :
           u # t \/ b # a => /\ ac'[u][b] = ac[u][b]
                             /\ checks'[u][b] = checks[u][b]
                             /\ comments'[u][b] = comments[u][b]
                             /\ evidence'[u][b] = evidence[u][b]
                             /\ findings'[u][b] = findings[u][b],
         PhaseMeans(q, t, a)', RunSound(t, a)',
         events' = events \/ \E k \in EventKind : AppendEvent(t, a, k)
  PROVE  ProcessingInv' /\ [Next]_vars
  <1> USE DEF ProcessingInv
  <1>1. /\ pc[w] = "processing" /\ phase[w] = p /\ phase' = [phase EXCEPT ![w] = q]
        /\ UNCHANGED vars /\ plan' = plan /\ kind' = kind /\ reader' = reader
    BY DEF Calls
  <1>2. QueueInv' /\ [Next]_vars
    BY <1>1, NextInv
  <1>3. pc' = pc /\ job' = job
    BY <1>1 DEF vars, workers
  <1>4. PublicationInv'
    BY <1>1, CallKeepsPublication
  <1>5. LogInv' /\ events' \in PerRunOf(SUBSET Event)
    <2>1. CASE events' = events
      <3>1. LogInv'
        BY <1>1, <1>2, <1>3, <2>1, LogAlone
      <3> QED
        BY <2>1, <3>1 DEF ProcessingTypes
    <2>2. CASE \E k \in EventKind : AppendEvent(t, a, k)
      BY <1>1, <2>2, AppendKeepsLog
    <2> QED
      BY <2>1, <2>2
  <1>6. ProcessingTypes'
    <2>1. phase' \in [Worker -> Phase]
      BY <1>1 DEF ProcessingTypes
    <2>2. \A v \in Worker : pc'[v] = "processing" <=> phase'[v] # "none"
      BY <1>1, <1>3 DEF ProcessingTypes
    <2> QED
      BY <1>1, <1>5, <2>1, <2>2 DEF ProcessingTypes
  <1> QED
    BY <1>2, <1>4, <1>5, <1>6

\* A call that writes neither at a service nor in the tables of results.
LEMMA QuietCallInv ==
  ASSUME ProcessingInv, NEW w \in Worker, NEW p, NEW q \in Phase \ {"none"}, Calls(w, p, q),
         UNCHANGED <<remote, stored>>,
         PhaseMeans(q, T(w), A(w)),
         events' = events \/ \E k \in EventKind : AppendEvent(T(w), A(w), k)
  PROVE  ProcessingInv' /\ [Next]_vars
  <1>1. PICK t \in Task, a \in Attempt : t = T(w) /\ a = A(w) /\ RunSound(t, a)
    BY CallFacts DEF Calls
  <1>2. /\ UNCHANGED <<ac, checks, comments, evidence, findings, kind>> /\ run' = run
    BY DEF remote, stored, Calls, vars
  <1>3. PhaseMeans(q, t, a)' /\ RunSound(t, a)'
    BY <1>1, <1>2 DEF PhaseMeans, RunSound, InFull
  <1>4. /\ ac' \in PerRunOf(ACStatus) /\ evidence' \in PerRunOf(BOOLEAN)
        /\ findings' \in PerRunOf(BOOLEAN)
        /\ checks' \in PerRunOf(Nat) /\ comments' \in PerRunOf(Nat)
    BY <1>2 DEF ProcessingInv, ProcessingTypes
  <1> QED
    BY <1>1, <1>2, <1>3, <1>4, CallInv

\* The calls that only report, stream or read.
LEMMA ReportsInv ==
  ASSUME ProcessingInv, NEW w \in Worker,
         \/ ReportStatus(w) \/ ReportExternalRun(w) \/ StreamLog(w) \/ StreamFinal(w)
         \/ StreamEnds(w) \/ Result(w) \/ ReportResult(w)
  PROVE  ProcessingInv' /\ [Next]_vars
  <1>1. PICK p \in Phase \ {"none"}, q \in Phase \ {"none"} :
          /\ Calls(w, p, q) /\ UNCHANGED <<remote, stored>>
          /\ events' = events \/ \E k \in EventKind : AppendEvent(T(w), A(w), k)
          /\ \/ p = "status" /\ (q = "logs" \/ (q = "start" /\ kind[T(w)] # "ci_diagnosis"))
             \/ p = "external run" /\ q = "stream"
             \/ p = "stream" /\ q \in {"stream", "end of stream"}
             \/ p = "end of stream" /\ q = "result"
             \/ p = "result" /\ q = "findings" /\ ac[T(w)][A(w)] = "succeeded"
             \/ p = "report" /\ q = "succeed"
    <2> USE DEF Phase, EventKind
    <2>1. CASE ReportStatus(w)
      BY <2>1 DEF ReportStatus
    <2>2. CASE ReportExternalRun(w)
      BY <2>2 DEF ReportExternalRun
    <2>3. CASE StreamLog(w)
      BY <2>3 DEF StreamLog
    <2>4. CASE StreamFinal(w)
      BY <2>4 DEF StreamFinal
    <2>5. CASE StreamEnds(w)
      BY <2>5 DEF StreamEnds
    <2>6. CASE Result(w)
      BY <2>6 DEF Result
    <2>7. CASE ReportResult(w)
      BY <2>7 DEF ReportResult
    <2> QED
      BY <2>1, <2>2, <2>3, <2>4, <2>5, <2>6, <2>7
  <1>2. PhaseMeans(p, T(w), A(w))
    BY <1>1, CallFacts DEF Calls
  <1>3. PhaseMeans(q, T(w), A(w))
    BY <1>1, <1>2 DEF PhaseMeans
  <1> QED
    BY <1>1, <1>3, QuietCallInv

\* The redacted logs are stored before AC is started.
LEMMA StoreLogsInv ==
  ASSUME ProcessingInv, NEW w \in Worker, StoreLogs(w)
  PROVE  ProcessingInv' /\ [Next]_vars
  <1>1. PICK t \in Task, a \in Attempt : /\ t = T(w) /\ a = A(w) /\ RunSound(t, a)
                                         /\ PhaseMeans("logs", t, a)
    BY CallFacts DEF StoreLogs, Calls
  <1>2. /\ Calls(w, "logs", "start") /\ evidence' = [evidence EXCEPT ![t][a] = TRUE]
        /\ UNCHANGED <<ac, checks, comments, events, findings, kind, run>>
    BY <1>1 DEF StoreLogs, remote, Calls, vars
  <1>3. /\ evidence' \in PerRunOf(BOOLEAN) /\ evidence'[t][a] = TRUE
        /\ \A u \in Task, b \in Attempt : u # t \/ b # a => evidence'[u][b] = evidence[u][b]
    BY <1>2 DEF ProcessingInv, ProcessingTypes, PerRunOf
  <1>4. PhaseMeans("start", t, a)' /\ RunSound(t, a)'
    BY <1>1, <1>2, <1>3 DEF PhaseMeans, RunSound, InFull
  <1>5. /\ ac' \in PerRunOf(ACStatus) /\ findings' \in PerRunOf(BOOLEAN)
        /\ checks' \in PerRunOf(Nat) /\ comments' \in PerRunOf(Nat)
    BY <1>2 DEF ProcessingInv, ProcessingTypes
  <1> QED
    BY <1>1, <1>2, <1>3, <1>4, <1>5, CallInv DEF Phase

\* AC is started only for a run that has published nothing.
LEMMA StartInv ==
  ASSUME ProcessingInv, NEW w \in Worker, Start(w)
  PROVE  ProcessingInv' /\ [Next]_vars
  <1>1. PICK t \in Task, a \in Attempt : /\ t = T(w) /\ a = A(w) /\ RunSound(t, a)
                                         /\ PhaseMeans("start", t, a)
    BY CallFacts DEF Start, Calls
  <1>2. /\ Calls(w, "start", "external run")
        /\ UNCHANGED <<evidence, checks, comments, events, findings, kind, run>>
    BY DEF Start, stored, Calls, vars
  <1>3. /\ ac' \in PerRunOf(ACStatus)
        /\ \A u \in Task, b \in Attempt : u # t \/ b # a => ac'[u][b] = ac[u][b]
    BY <1>1 DEF Start, ProcessingInv, ProcessingTypes, PerRunOf, ACStatus
  <1>4. PhaseMeans("external run", t, a)' /\ RunSound(t, a)'
    <2>1. checks[t][a] = 0 /\ comments[t][a] = 0 /\ run[t][a] # "succeeded"
      BY <1>1 DEF PhaseMeans, RunSound, InFull
    <2>2. PhaseMeans("external run", t, a)'
      BY <1>1, <1>2, <2>1 DEF PhaseMeans
    <2>3. RunSound(t, a)'
      <3>1. checks'[t][a] = 0 /\ comments'[t][a] = 0 /\ run'[t][a] # "succeeded"
        BY <1>2, <2>1
      <3>2. checks'[t][a] # 1
        BY <3>1
      <3> QED
        BY <3>1, <3>2 DEF RunSound
    <2> QED
      BY <2>2, <2>3
  <1>5. /\ evidence' \in PerRunOf(BOOLEAN) /\ findings' \in PerRunOf(BOOLEAN)
        /\ checks' \in PerRunOf(Nat) /\ comments' \in PerRunOf(Nat)
    BY <1>2 DEF ProcessingInv, ProcessingTypes
  <1> QED
    BY <1>1, <1>2, <1>3, <1>4, <1>5, CallInv DEF Phase

\* The findings are stored before anything is published.
LEMMA StoreFindingsInv ==
  ASSUME ProcessingInv, NEW w \in Worker, StoreFindings(w)
  PROVE  ProcessingInv' /\ [Next]_vars
  <1>1. PICK t \in Task, a \in Attempt : /\ t = T(w) /\ a = A(w) /\ RunSound(t, a)
                                         /\ PhaseMeans("findings", t, a)
    BY CallFacts DEF StoreFindings, Calls
  <1>2. /\ Calls(w, "findings", "check") /\ findings' = [findings EXCEPT ![t][a] = TRUE]
        /\ UNCHANGED <<ac, checks, comments, events, evidence, kind, run>>
    BY <1>1 DEF StoreFindings, remote, Calls, vars
  <1>3. /\ findings' \in PerRunOf(BOOLEAN) /\ findings'[t][a] = TRUE
        /\ \A u \in Task, b \in Attempt : u # t \/ b # a => findings'[u][b] = findings[u][b]
    BY <1>2 DEF ProcessingInv, ProcessingTypes, PerRunOf
  <1>4. PhaseMeans("check", t, a)' /\ RunSound(t, a)'
    BY <1>1, <1>2, <1>3 DEF PhaseMeans, RunSound, InFull
  <1>5. /\ ac' \in PerRunOf(ACStatus) /\ evidence' \in PerRunOf(BOOLEAN)
        /\ checks' \in PerRunOf(Nat) /\ comments' \in PerRunOf(Nat)
    BY <1>2 DEF ProcessingInv, ProcessingTypes
  <1> QED
    BY <1>1, <1>2, <1>3, <1>4, <1>5, CallInv DEF Phase

\* The check run is the first of its run.
LEMMA PublishCheckInv ==
  ASSUME ProcessingInv, NEW w \in Worker, PublishCheck(w)
  PROVE  ProcessingInv' /\ [Next]_vars
  <1>1. PICK t \in Task, a \in Attempt : /\ t = T(w) /\ a = A(w) /\ RunSound(t, a)
                                         /\ PhaseMeans("check", t, a)
                                         /\ run[t][a] # "none" /\ kind[t] \in Kind
    BY CallFacts DEF PublishCheck, Calls
  <1>2. PICK q \in {"comment", "report"} :
          /\ q = IF kind[t] = "code_review" THEN "comment" ELSE "report"
          /\ Calls(w, "check", q)
          /\ UNCHANGED <<ac, findings, comments, events, evidence, kind, run>>
    BY <1>1 DEF PublishCheck, stored, Calls, vars
  <1>3. checks[t][a] = 0 /\ checks[t][a] + 1 = 1
    BY <1>1 DEF PhaseMeans
  <1>4. /\ checks' \in PerRunOf(Nat) /\ checks'[t][a] = 1
        /\ \A u \in Task, b \in Attempt : u # t \/ b # a => checks'[u][b] = checks[u][b]
    <2>1. checks' = [checks EXCEPT ![t][a] = 1]
      BY <1>1, <1>3 DEF PublishCheck
    <2> QED
      BY <2>1 DEF ProcessingInv, ProcessingTypes, PerRunOf
  <1>5. RunSound(t, a)'
    BY <1>1, <1>2, <1>3, <1>4 DEF PhaseMeans, RunSound, InFull
  <1>6. PhaseMeans(q, t, a)'
    BY <1>1, <1>2, <1>4 DEF PhaseMeans, InFull
  <1>7. /\ ac' \in PerRunOf(ACStatus) /\ evidence' \in PerRunOf(BOOLEAN)
        /\ findings' \in PerRunOf(BOOLEAN) /\ comments' \in PerRunOf(Nat)
    BY <1>2 DEF ProcessingInv, ProcessingTypes
  <1> QED
    BY <1>1, <1>2, <1>4, <1>5, <1>6, <1>7, CallInv DEF Phase

\* The comment follows the check run, once.
LEMMA PublishCommentInv ==
  ASSUME ProcessingInv, NEW w \in Worker, PublishComment(w)
  PROVE  ProcessingInv' /\ [Next]_vars
  <1>1. PICK t \in Task, a \in Attempt : /\ t = T(w) /\ a = A(w) /\ RunSound(t, a)
                                         /\ PhaseMeans("comment", t, a)
                                         /\ run[t][a] # "none"
    BY CallFacts DEF PublishComment, Calls
  <1>2. /\ Calls(w, "comment", "report")
        /\ UNCHANGED <<ac, findings, checks, events, evidence, kind, run>>
    BY DEF PublishComment, stored, Calls, vars
  <1>3. comments[t][a] = 0 /\ comments[t][a] + 1 = 1
    BY <1>1 DEF PhaseMeans
  <1>4. /\ comments' \in PerRunOf(Nat) /\ comments'[t][a] = 1
        /\ \A u \in Task, b \in Attempt : u # t \/ b # a => comments'[u][b] = comments[u][b]
    <2>1. comments' = [comments EXCEPT ![t][a] = 1]
      BY <1>1, <1>3 DEF PublishComment
    <2> QED
      BY <2>1 DEF ProcessingInv, ProcessingTypes, PerRunOf
  <1>5. PhaseMeans("report", t, a)'
    BY <1>1, <1>2, <1>4 DEF PhaseMeans, InFull
  <1>6. RunSound(t, a)'
    BY <1>1, <1>2, <1>3, <1>4, <1>5 DEF PhaseMeans, RunSound, InFull
  <1>7. /\ ac' \in PerRunOf(ACStatus) /\ evidence' \in PerRunOf(BOOLEAN)
        /\ findings' \in PerRunOf(BOOLEAN) /\ checks' \in PerRunOf(Nat)
    BY <1>2 DEF ProcessingInv, ProcessingTypes
  <1> QED
    BY <1>1, <1>2, <1>4, <1>5, <1>6, <1>7, CallInv DEF Phase

-----------------------------------------------------------------------------
(* The other steps.                                                        *)

\* A processor returns: success only when everything is published.
LEMMA ReturnInv ==
  ASSUME ProcessingInv, NEW w \in Worker, NEW s \in {"succeeded", "failed"}, Process(w, s),
         phase' = [phase EXCEPT ![w] = "none"],
         UNCHANGED <<plan, kind, checks, comments, events, stored, reader>>,
         ac' \in PerRunOf(ACStatus),
         \A t \in Task, a \in Attempt : ac[t][a] = "succeeded" => ac'[t][a] = "succeeded",
         s = "succeeded" => InFull(T(w), A(w))
  PROVE  ProcessingInv' /\ [Next]_vars
  <1> USE DEF ProcessingInv
  <1>1. [Next]_vars /\ QueueInv'
    BY NextInv DEF Next, WorkerStep, Outcome
  <1>2. /\ pc[w] = "processing" /\ pc' = [pc EXCEPT ![w] = "completing"]
        /\ job' = [job EXCEPT ![w].outcome = s] /\ job[w] \in Job
    BY CallFacts DEF Process
  <1>3. /\ pc'[w] = "completing" /\ job'[w].task = job[w].task
        /\ job'[w].attempt = job[w].attempt /\ job'[w].outcome = s
        /\ \A v \in Worker : v # w => pc'[v] = pc[v] /\ job'[v] = job[v]
    BY <1>2 DEF QueueInv, TypeOK, Job
  <1>4. /\ phase'[w] = "none" /\ \A v \in Worker : v # w => phase'[v] = phase[v]
        /\ phase' \in [Worker -> Phase]
    BY DEF ProcessingTypes, Phase
  <1>5. \A v \in Worker : pc'[v] = "completing" /\ job'[v].outcome = "succeeded" =>
          \/ pc[v] = "completing" /\ job'[v] = job[v]
          \/ InFull(T(v), A(v)) /\ T(v)' = T(v) /\ A(v)' = A(v)
    BY <1>3 DEF T, A
  <1>6. PublicationInv'
    <2>1. \A v \in Worker : phase'[v] # "none" => phase'[v] = phase[v] /\ job'[v] = job[v]
      BY <1>3, <1>4
    <2>2. \A v \in Worker : phase[v] # "none" => pc[v] = "processing"
      BY DEF ProcessingTypes
    <2> QED
      BY <1>1, <1>5, <2>1, <2>2, RestKeepsPublication
  <1>7. LogInv'
    BY <1>1, <1>3, LogAlone
  <1>8. ProcessingTypes'
    BY <1>3, <1>4 DEF ProcessingTypes, stored
  <1> QED
    BY <1>1, <1>6, <1>7, <1>8

\* Failures, deadlines and refused results return "failed"; the last phase alone
\* returns success.
LEMMA ReturnsInv ==
  ASSUME ProcessingInv, NEW w \in Worker,
         ResultRefused(w) \/ DeadlineExpires(w) \/ Fails(w) \/ Succeeds(w)
  PROVE  ProcessingInv' /\ [Next]_vars
  <1>1. CASE Succeeds(w)
    <2>1. /\ phase[w] = "succeed" /\ Process(w, "succeeded")
          /\ phase' = [phase EXCEPT ![w] = "none"]
          /\ UNCHANGED <<plan, kind, ac, checks, comments, events, stored, reader>>
      BY <1>1 DEF Succeeds, remote
    <2>2. InFull(T(w), A(w))
      BY <2>1, CallFacts DEF Process, PhaseMeans
    <2>3. ac' \in PerRunOf(ACStatus)
      BY <2>1 DEF ProcessingInv, ProcessingTypes
    <2> QED
      BY <2>1, <2>2, <2>3, ReturnInv
  <1>2. CASE ResultRefused(w) \/ Fails(w)
    <2>1. /\ Process(w, "failed") /\ phase' = [phase EXCEPT ![w] = "none"]
          /\ UNCHANGED <<plan, kind, ac, checks, comments, events, stored, reader>>
      BY <1>2 DEF ResultRefused, Fails, remote
    <2>2. ac' \in PerRunOf(ACStatus)
      BY <2>1 DEF ProcessingInv, ProcessingTypes
    <2> QED
      BY <2>1, <2>2, ReturnInv
  <1>3. CASE DeadlineExpires(w)
    <2>1. /\ pc[w] = "processing"
          /\ Process(w, "failed") /\ phase' = [phase EXCEPT ![w] = "none"]
          /\ UNCHANGED <<plan, kind, checks, comments, events, stored, reader>>
      BY <1>3 DEF DeadlineExpires
    <2>2. PICK t \in Task, a \in Attempt : t = T(w) /\ a = A(w)
      BY <2>1, CallFacts
    <2>3. /\ ac' \in PerRunOf(ACStatus)
          /\ \A u \in Task, b \in Attempt : ac[u][b] = "succeeded" => ac'[u][b] = "succeeded"
      <3>1. ac \in PerRunOf(ACStatus)
        BY DEF ProcessingInv, ProcessingTypes
      <3>2. CASE UNCHANGED ac
        BY <3>1, <3>2
      <3>3. CASE ac' = [ac EXCEPT ![t][a] = IF ac[t][a] = "running" THEN "canceled"
                                            ELSE ac[t][a]]
        <4>1. CASE ac[t][a] = "running"
          BY <3>1, <3>3, <4>1 DEF PerRunOf, ACStatus
        <4>2. CASE ac[t][a] # "running"
          <5>1. ac' = [ac EXCEPT ![t][a] = ac[t][a]]
            BY <3>3, <4>2
          <5> QED
            BY <3>1, <5>1 DEF PerRunOf
        <4> QED
          BY <4>1, <4>2
      <3> QED
        BY <1>3, <2>2, <3>2, <3>3 DEF DeadlineExpires
    <2> QED
      BY <2>1, <2>3, ReturnInv
  <1> QED
    BY <1>1, <1>2, <1>3

\* A claim makes a new run, of which nothing is published and nobody reads.
LEMMA ClaimRunInv ==
  ASSUME ProcessingInv, NEW w \in Worker, NEW t \in Task, Claim(w, t)
  PROVE  ProcessingInv' /\ [Next]_vars
  <1> USE DEF ProcessingInv
  <1> DEFINE n == attempts[t] + 1
  <1>1. /\ ClaimTask(w, t) /\ phase' = [phase EXCEPT ![w] = "status"]
        /\ UNCHANGED <<plan, kind, ac, checks, comments, events, stored, reader>>
    BY DEF Claim, remote
  <1>2. [Next]_vars /\ QueueInv'
    BY <1>1, NextInv DEF Next, WorkerStep
  <1>3. n \in Attempt /\ run[t][n] = "none"
    <2>1. attempts[t] \in Nat /\ MaxAttempts \in Nat /\ attempts[t] < MaxAttempts
      BY <1>1, QueueAssumption DEF ClaimTask, Claimable, QueueInv, TypeOK
    <2>2. n \in Attempt /\ n > attempts[t]
      BY <2>1 DEF Attempt
    <2> QED
      BY <2>2 DEF QueueInv, RunLedger
  <1>4. /\ pc[w] = "idle" /\ pc'[w] = "processing"
        /\ job'[w].task = t /\ job'[w].attempt = n /\ job'[w].outcome = "none"
        /\ \A v \in Worker : v # w => pc'[v] = pc[v] /\ job'[v] = job[v]
    BY <1>1 DEF ClaimTask, NextAttempt, QueueInv, TypeOK
  <1>5. /\ phase'[w] = "status" /\ \A v \in Worker : v # w => phase'[v] = phase[v]
        /\ phase' \in [Worker -> Phase]
    BY <1>1 DEF ProcessingTypes, Phase
  <1> HIDE DEF n
  <1>6. PublicationInv'
    <2>1. \A v \in Worker : phase'[v] # "none" =>
            \/ phase'[v] = phase[v] /\ job'[v] = job[v]
            \/ /\ phase'[v] = "status"
               /\ job'[v].task \in Task /\ job'[v].attempt \in Attempt
               /\ run[job'[v].task][job'[v].attempt] = "none"
      BY <1>3, <1>4, <1>5
    <2>2. \A v \in Worker : pc'[v] = "completing" => pc[v] = "completing" /\ job'[v] = job[v]
      BY <1>4
    <2>3. \A v \in Worker : phase[v] # "none" => pc[v] = "processing"
      BY DEF ProcessingTypes
    <2> QED
      BY <1>1, <1>2, <2>1, <2>2, <2>3, RestKeepsPublication
  <1>7. LogInv'
    <2>1. \A v \in Worker :
            \/ job'[v].task = job[v].task /\ job'[v].attempt = job[v].attempt
            \/ /\ job'[v].task \in Task /\ job'[v].attempt \in Attempt
               /\ run[job'[v].task][job'[v].attempt] = "none"
      BY <1>3, <1>4
    <2> QED
      BY <1>1, <1>2, <2>1, LogAlone
  <1>8. ProcessingTypes'
    BY <1>1, <1>4, <1>5 DEF ProcessingTypes, stored
  <1> QED
    BY <1>2, <1>6, <1>7, <1>8

\* A step that leaves results, services, logs and readers alone, and after which
\* every worker holds what it held or nothing.
LEMMA DropInv ==
  ASSUME ProcessingInv, [Next]_vars,
         UNCHANGED <<plan, kind, remote, events, stored, reader>>,
         phase' \in [Worker -> Phase],
         \A w \in Worker :
           \/ pc'[w] = pc[w] /\ job'[w] = job[w] /\ phase'[w] = phase[w]
           \/ pc'[w] \in {"idle", "down"} /\ job'[w] = NoJob /\ phase'[w] = "none"
  PROVE  ProcessingInv'
  <1> USE DEF ProcessingInv
  <1>1. QueueInv'
    BY NextInv
  <1>2. UNCHANGED <<ac, checks, comments>>
    BY DEF remote
  <1>3. PublicationInv'
    <2>1. \A w \in Worker : phase'[w] # "none" => phase'[w] = phase[w] /\ job'[w] = job[w]
      OBVIOUS
    <2>2. \A w \in Worker : pc'[w] = "completing" => pc[w] = "completing" /\ job'[w] = job[w]
      OBVIOUS
    <2>3. \A w \in Worker : phase[w] # "none" => pc[w] = "processing"
      BY DEF ProcessingTypes
    <2> QED
      BY <1>2, <2>1, <2>2, <2>3, RestKeepsPublication
  <1>4. LogInv'
    <2>1. \A w \in Worker : job'[w].task # None => job'[w] = job[w]
      BY DEF NoJob
    <2> QED
      BY <2>1, LogAlone
  <1>5. ProcessingTypes'
    BY <1>2 DEF ProcessingTypes, stored
  <1> QED
    BY <1>1, <1>3, <1>4, <1>5

\* A worker that crashes drops its run where it is.
LEMMA CrashProcessorInv ==
  ASSUME ProcessingInv, NEW w \in Worker, CrashProcessor(w)
  PROVE  ProcessingInv' /\ [Next]_vars
  <1> USE DEF ProcessingInv
  <1>1. [Next]_vars
    BY DEF CrashProcessor, Next, WorkerStep
  <1>2. /\ pc' = [pc EXCEPT ![w] = "down"] /\ job' = [job EXCEPT ![w] = NoJob]
        /\ phase' = [phase EXCEPT ![w] = "none"]
        /\ UNCHANGED <<plan, kind, remote, events, stored, reader>>
    BY DEF CrashProcessor, Crash
  <1>3. phase' \in [Worker -> Phase]
    BY <1>2 DEF ProcessingTypes, Phase
  <1>4. \A v \in Worker :
          \/ pc'[v] = pc[v] /\ job'[v] = job[v] /\ phase'[v] = phase[v]
          \/ pc'[v] \in {"idle", "down"} /\ job'[v] = NoJob /\ phase'[v] = "none"
    BY <1>2 DEF QueueInv, TypeOK, ProcessingTypes
  <1> QED
    BY <1>1, <1>2, <1>3, <1>4, DropInv

\* Tasks are cancelled, retried, superseded and completed under the processors.
LEMMA QueueStepInv ==
  ASSUME ProcessingInv, QueueStep
  PROVE  ProcessingInv' /\ [Next]_vars
  <1> USE DEF ProcessingInv
  <1>1. [Next]_vars
    BY DEF QueueStep, Next, TaskStep, WorkerStep
  <1>2. UNCHANGED <<plan, kind, phase, remote, events, stored, reader>>
    BY DEF QueueStep, processingVars
  <1>3. phase' \in [Worker -> Phase]
    BY <1>2 DEF ProcessingTypes
  <1>4. \A v \in Worker :
          \/ pc'[v] = pc[v] /\ job'[v] = job[v] /\ phase'[v] = phase[v]
          \/ pc'[v] \in {"idle", "down"} /\ job'[v] = NoJob /\ phase'[v] = "none"
    <2>1. CASE \E t \in Task : \/ CreateTask(t) \/ CancelTask(t) \/ RetryTask(t)
                               \/ SupersedeCodeReviews(t) \/ LeaseExpires(t)
      BY <1>2, <2>1 DEF CreateTask, CancelTask, RetryTask, SupersedeCodeReviews,
                        LeaseExpires, workers
    <2>2. CASE \E w \in Worker : CompleteTask(w)
      <3>1. PICK w \in Worker : CompleteTask(w)
        BY <2>2
      <3>2. /\ pc[w] = "completing" /\ job' = [job EXCEPT ![w] = NoJob]
            /\ pc'[w] \in {"idle", "down"} /\ \A v \in Worker : v # w => pc'[v] = pc[v]
        BY <3>1 DEF CompleteTask, QueueInv, TypeOK
      <3>3. phase[w] = "none"
        BY <3>2 DEF ProcessingTypes
      <3> QED
        BY <1>2, <3>2, <3>3 DEF QueueInv, TypeOK
    <2>3. CASE \E w \in Worker : Restart(w)
      <3>1. PICK w \in Worker : /\ pc[w] = "down" /\ pc' = [pc EXCEPT ![w] = "idle"]
                                /\ job' = job
        BY <2>3 DEF Restart
      <3>2. job[w] = NoJob
        BY <3>1 DEF QueueInv, JobHeld
      <3>3. phase[w] = "none"
        BY <3>1 DEF ProcessingTypes
      <3> QED
        BY <1>2, <3>1, <3>2, <3>3 DEF QueueInv, TypeOK
    <2> QED
      BY <2>1, <2>2, <2>3 DEF QueueStep
  <1> QED
    BY <1>1, <1>2, <1>3, <1>4, DropInv

\* AC ends a run that still runs there; one that succeeded keeps its result.
LEMMA ACFinishesInv ==
  ASSUME ProcessingInv, NEW t \in Task, NEW a \in Attempt,
         NEW s \in {"succeeded", "failed", "canceled"}, ACFinishes(t, a, s)
  PROVE  ProcessingInv' /\ [Next]_vars
  <1> USE DEF ProcessingInv
  <1>1. /\ ac[t][a] = "running" /\ ac' = [ac EXCEPT ![t][a] = s] /\ UNCHANGED vars
        /\ UNCHANGED <<plan, kind, phase, checks, comments, events, stored, reader>>
    BY DEF ACFinishes
  <1>2. /\ ac' \in PerRunOf(ACStatus)
        /\ \A u \in Task, b \in Attempt : ac[u][b] = "succeeded" => ac'[u][b] = "succeeded"
    BY <1>1 DEF ProcessingTypes, PerRunOf, ACStatus
  <1>3. QueueInv' /\ [Next]_vars /\ pc' = pc /\ job' = job
    BY <1>1, NextInv DEF vars, workers
  <1>4. \A w \in Worker : phase[w] # "none" => pc[w] = "processing"
    BY DEF ProcessingTypes
  <1>5. UNCHANGED <<kind, phase, checks, comments, stored, events, reader>>
    BY <1>1
  <1>6. PublicationInv'
    BY <1>2, <1>3, <1>4, <1>5, RestKeepsPublication
  <1>7. LogInv'
    BY <1>3, <1>5, LogAlone
  <1>8. ProcessingTypes'
    BY <1>1, <1>2, <1>3 DEF ProcessingTypes, stored
  <1> QED
    BY <1>3, <1>6, <1>7, <1>8

\* A step of readers or retention leaves publication alone.
LEMMA LogStepInv ==
  ASSUME ProcessingInv, UNCHANGED <<vars, plan, kind, phase, remote, stored>>,
         LogInv', events' \in PerRunOf(SUBSET Event),
         reader' \in [Reader -> Following \cup {NotReading}]
  PROVE  ProcessingInv' /\ [Next]_vars
  <1> USE DEF ProcessingInv
  <1>1. QueueInv' /\ [Next]_vars /\ pc' = pc /\ job' = job
    BY NextInv DEF vars, workers
  <1>2. UNCHANGED <<ac, checks, comments, evidence, findings>>
    BY DEF remote, stored
  <1>3. \A w \in Worker : phase[w] # "none" => pc[w] = "processing"
    BY DEF ProcessingTypes
  <1>4. PublicationInv'
    BY <1>1, <1>2, <1>3, RestKeepsPublication
  <1>5. ProcessingTypes'
    BY <1>1, <1>2 DEF ProcessingTypes
  <1> QED
    BY <1>1, <1>4, <1>5

\* A client connects to another run from its start, or again where it left off.
LEMMA ConnectInv ==
  ASSUME ProcessingInv, NEW r \in Reader, NEW t \in Task, NEW a \in Attempt,
         Connect(r, t, a)
  PROVE  ProcessingInv' /\ [Next]_vars
  <1> USE DEF ProcessingInv
  <1>1. /\ run[t][a] # "none" /\ events' = events
        /\ UNCHANGED <<vars, plan, kind, phase, remote, stored>>
    BY DEF Connect
  <1>2. PICK f \in Following :
          /\ reader' = [reader EXCEPT ![r] = f] /\ f.task = t /\ f.attempt = a
          /\ \/ f.after = 0
             \/ /\ reader[r].task = t /\ reader[r].attempt = a
                /\ f.after = reader[r].after /\ f.got = reader[r].got
    <2>1. CASE reader[r].task = t /\ reader[r].attempt = a
      <3> DEFINE f == [reader[r] EXCEPT !.open = TRUE]
      <3>1. reader' = [reader EXCEPT ![r] = f]
        BY <2>1 DEF Connect
      <3>2. reader[r] \in Following
        BY <2>1, QueueAssumption DEF ProcessingTypes, NotReading
      <3>3. /\ f \in Following /\ f.task = t /\ f.attempt = a
            /\ f.after = reader[r].after /\ f.got = reader[r].got
        BY <2>1, <3>2 DEF Following
      <3> QED
        BY <2>1, <3>1, <3>3
    <2>2. CASE ~(reader[r].task = t /\ reader[r].attempt = a)
      <3> DEFINE f == [task |-> t, attempt |-> a, after |-> 0, got |-> {}, open |-> TRUE]
      <3>1. reader' = [reader EXCEPT ![r] = f]
        BY <2>2 DEF Connect
      <3>2. f \in Following /\ f.task = t /\ f.attempt = a /\ f.after = 0
        BY DEF Following
      <3> QED
        BY <3>1, <3>2
    <2> QED
      BY <2>1, <2>2
  <1>3. \A e \in events[t][a] : e.sequence \in Nat /\ ~(e.sequence <= 0)
    BY DEF ProcessingTypes, PerRunOf, Event
  <1>4. \A e \in events[t][a] : e.sequence <= f.after => e \in f.got
    <2>1. CASE f.after = 0
      BY <1>3, <2>1
    <2>2. CASE /\ reader[r].task = t /\ reader[r].attempt = a
               /\ f.after = reader[r].after /\ f.got = reader[r].got
      BY <2>2, QueueAssumption DEF LogInv, ReaderMissesNothing
    <2> QED
      BY <1>2, <2>1, <2>2
  <1>5. \A w \in Worker : T(w) = t /\ A(w) = a =>
          f.after = 0 \/ \E e \in events[t][a] : f.after <= e.sequence
    BY <1>2, QueueAssumption DEF LogInv, ReadersBehind, Follows, NotAhead
  <1>6. LogInv' /\ reader' \in [Reader -> Following \cup {NotReading}]
    BY <1>1, <1>2, <1>4, <1>5, ReaderKeepsLog
  <1>7. events' \in PerRunOf(SUBSET Event)
    BY <1>1 DEF ProcessingTypes
  <1> QED
    BY <1>1, <1>6, <1>7, LogStepInv

\* A poll sends everything up to the place it resumes at.
LEMMA PollInv ==
  ASSUME ProcessingInv, NEW r \in Reader, Poll(r)
  PROVE  ProcessingInv' /\ [Next]_vars
  <1> USE DEF ProcessingInv
  <1> DEFINE t == reader[r].task
             a == reader[r].attempt
             after == reader[r].after
             log == events[t][a]
             batch == Batch(log, after)
             next == ResumeAfter(batch, after)
             goesOn == \A e \in batch : e.kind \notin Terminal
             f == [reader[r] EXCEPT !.after = next, !.got = @ \cup batch, !.open = goesOn]
  <1>1. /\ reader[r].open /\ events' = events
        /\ UNCHANGED <<vars, plan, kind, phase, remote, stored>>
        /\ reader' = [reader EXCEPT ![r].after = next, ![r].got = @ \cup batch,
                                    ![r].open = goesOn]
    BY DEF Poll
  <1>2. /\ reader[r] \in Following /\ t \in Task /\ a \in Attempt /\ after \in Nat
        /\ reader[r].got \in SUBSET Event /\ run[t][a] # "none"
    <2>1. reader[r] \in Following
      BY <1>1 DEF ProcessingTypes, LogInv, ReadersFollowRuns
    <2>2. t \in Task /\ a \in Attempt /\ after \in Nat /\ reader[r].got \in SUBSET Event
      BY <2>1 DEF Following
    <2> QED
      BY <2>1, <2>2 DEF LogInv, ReadersFollowRuns, Follows
  <1>3. log \in SUBSET Event /\ HasLast(log)
    BY <1>2 DEF ProcessingTypes, PerRunOf, LogInv, LogsSound
  <1>4. /\ batch \subseteq log /\ next \in Nat
        /\ next = after \/ \E b \in log : next = b.sequence
        /\ \A e \in log : after < e.sequence /\ e.sequence <= next => e \in batch
    <2> HIDE DEF log, after
    <2> QED
      BY <1>2, <1>3, BatchFacts
  <1>5. goesOn \in BOOLEAN
    OBVIOUS
  <1>6. \A e \in log : e.sequence \in Nat
    BY <1>3 DEF Event
  <1>7. \A e \in log : e.sequence <= after => e \in reader[r].got
    BY <1>2, QueueAssumption DEF LogInv, ReaderMissesNothing
  <1> HIDE DEF goesOn, next, batch
  <1>8. reader' = [reader EXCEPT ![r] = f]
    BY <1>1 DEF ProcessingTypes
  <1>9. /\ f \in Following /\ f.task = t /\ f.attempt = a /\ f.after = next
        /\ f.got = reader[r].got \cup batch
    BY <1>2, <1>3, <1>4, <1>5 DEF Following
  <1> HIDE DEF f, log, after
  <1>10. \A e \in log : e.sequence <= next => e \in f.got
    BY <1>2, <1>4, <1>6, <1>7, <1>9
  <1>11. \A w \in Worker : T(w) = t /\ A(w) = a =>
           next = 0 \/ \E e \in log : next <= e.sequence
    <2> SUFFICES ASSUME NEW w \in Worker, T(w) = t, A(w) = a
                 PROVE  next = 0 \/ \E e \in log : next <= e.sequence
      OBVIOUS
    <2>1. CASE next = after
      BY <1>2, <2>1, QueueAssumption
         DEF LogInv, ReadersBehind, Follows, NotAhead, log, after
    <2>2. CASE \E b \in log : next = b.sequence
      BY <1>6, <2>2
    <2> QED
      BY <1>4, <2>1, <2>2
  <1>12. LogInv' /\ reader' \in [Reader -> Following \cup {NotReading}]
    <2>1. /\ run[f.task][f.attempt] # "none"
          /\ \A w \in Worker : T(w) = f.task /\ A(w) = f.attempt =>
               f.after = 0 \/ \E e \in events[f.task][f.attempt] : f.after <= e.sequence
          /\ \A e \in events[f.task][f.attempt] : e.sequence <= f.after => e \in f.got
      BY <1>2, <1>9, <1>10, <1>11 DEF log
    <2> QED
      BY <1>1, <1>8, <1>9, <2>1, ReaderKeepsLog
  <1>13. events' \in PerRunOf(SUBSET Event)
    BY <1>1 DEF ProcessingTypes
  <1> QED
    BY <1>1, <1>12, <1>13, LogStepInv

\* A stream that ends leaves the client where it is.
LEMMA DisconnectInv ==
  ASSUME ProcessingInv, NEW r \in Reader, Disconnect(r)
  PROVE  ProcessingInv' /\ [Next]_vars
  <1> USE DEF ProcessingInv
  <1> DEFINE f == [reader[r] EXCEPT !.open = FALSE]
  <1>1. /\ reader[r].open /\ events' = events
        /\ UNCHANGED <<vars, plan, kind, phase, remote, stored>>
        /\ reader' = [reader EXCEPT ![r] = f]
    BY DEF Disconnect, ProcessingTypes
  <1>2. reader[r] \in Following
    BY <1>1 DEF ProcessingTypes, LogInv, ReadersFollowRuns
  <1>3. /\ f \in Following /\ f.task = reader[r].task /\ f.attempt = reader[r].attempt
        /\ f.after = reader[r].after /\ f.got = reader[r].got
        /\ f.task \in Task /\ f.attempt \in Attempt
    BY <1>2 DEF Following
  <1> HIDE DEF f
  <1>4. /\ run[f.task][f.attempt] # "none"
        /\ \A w \in Worker : T(w) = f.task /\ A(w) = f.attempt =>
             f.after = 0 \/ \E e \in events[f.task][f.attempt] : f.after <= e.sequence
        /\ \A e \in events[f.task][f.attempt] : e.sequence <= f.after => e \in f.got
    BY <1>3, QueueAssumption DEF LogInv, ReadersFollowRuns, ReadersBehind, Follows, NotAhead,
                                 ReaderMissesNothing
  <1>5. LogInv' /\ reader' \in [Reader -> Following \cup {NotReading}]
    BY <1>1, <1>3, <1>4, ReaderKeepsLog
  <1>6. events' \in PerRunOf(SUBSET Event)
    BY <1>1 DEF ProcessingTypes
  <1> QED
    BY <1>1, <1>5, <1>6, LogStepInv

\* AC, clients and retention.
LEMMA OutsideStepInv ==
  ASSUME ProcessingInv, OutsideStep
  PROVE  ProcessingInv' /\ [Next]_vars
  <1>1. CASE \E t \in Task, a \in Attempt :
               \/ \E s \in {"succeeded", "failed"} : ACFinishes(t, a, s)
               \/ CancelExecution(t, a)
    BY <1>1, ACFinishesInv DEF CancelExecution
  <1>2. CASE \E t \in Task, a \in Attempt :
               \E n \in {e.sequence : e \in events[t][a]} : Prune(t, a, n)
    <2>0. PICK t \in Task, a \in Attempt :
            \E n \in {e.sequence : e \in events[t][a]} : Prune(t, a, n)
      BY <1>2
    <2>1. PICK n \in {e.sequence : e \in events[t][a]} : Prune(t, a, n)
      BY <2>0
    <2>2. events[t][a] \subseteq Event
      BY DEF ProcessingInv, ProcessingTypes, PerRunOf
    <2>3. n \in Nat
      BY <2>1, <2>2 DEF Event
    <2>4. LogInv' /\ events' \in PerRunOf(SUBSET Event)
      BY <2>1, <2>3, PruneKeepsLog DEF ProcessingInv
    <2>5. UNCHANGED <<vars, plan, kind, phase, remote, stored, reader>>
      BY <2>1 DEF Prune
    <2>6. reader' \in [Reader -> Following \cup {NotReading}]
      BY <2>5 DEF ProcessingInv, ProcessingTypes
    <2> QED
      BY <2>4, <2>5, <2>6, LogStepInv
  <1> QED
    BY <1>1, <1>2, ConnectInv, PollInv, DisconnectInv DEF OutsideStep

-----------------------------------------------------------------------------
(* The theorems.                                                           *)

\* The inductive invariant holds initially.
LEMMA ProcessingInitInv == ProcessingInit => ProcessingInv
  <1> SUFFICES ASSUME ProcessingInit PROVE ProcessingInv
    OBVIOUS
  <1> USE DEF ProcessingInit
  <1>1. QueueInv
    BY InitInv
  <1>2. /\ pc = [w \in Worker |-> "idle"] /\ job = [w \in Worker |-> NoJob]
        /\ run = PerRun("none")
    BY DEF Init, PerRun
  <1>3. ProcessingTypes
    <2>1. events \in PerRunOf(SUBSET Event)
      BY DEF PerRun, PerRunOf
    <2>2. /\ ac \in PerRunOf(ACStatus) /\ checks \in PerRunOf(Nat)
          /\ comments \in PerRunOf(Nat)
      BY DEF PerRun, PerRunOf, ACStatus
    <2>3. evidence \in PerRunOf(BOOLEAN) /\ findings \in PerRunOf(BOOLEAN)
      BY DEF PerRun, PerRunOf
    <2>4. /\ phase \in [Worker -> Phase]
          /\ \A w \in Worker : pc[w] = "processing" <=> phase[w] # "none"
      BY <1>2 DEF Phase
    <2> QED
      BY <2>1, <2>2, <2>3, <2>4 DEF ProcessingTypes
  <1>4. PublicationInv
    <2>1. PhasesMean /\ SuccessPublished
      BY <1>2 DEF PhasesMean, SuccessPublished
    <2>2. RunsSound
      <3> SUFFICES ASSUME NEW t \in Task, NEW a \in Attempt PROVE RunSound(t, a)
        BY DEF RunsSound
      <3>1. checks[t][a] = 0 /\ comments[t][a] = 0 /\ run[t][a] = "none"
        BY <1>2 DEF PerRun
      <3>2. checks[t][a] # 1
        BY <3>1
      <3> QED
        BY <3>1, <3>2 DEF RunSound
    <2> QED
      BY <2>1, <2>2 DEF PublicationInv
  <1>5. LogInv
    <2>1. \A t \in Task, a \in Attempt : events[t][a] = {}
      BY DEF PerRun
    <2>2. \A r \in Reader : reader[r].task = None /\ ~reader[r].open
      BY DEF NotReading
    <2>3. LogsSound
      BY <2>1 DEF LogsSound, HasLast
    <2>4. ReadersFollowRuns /\ ReadersBehind /\ ReaderMissesNothing
      BY <1>2, <2>2, QueueAssumption
         DEF ReadersFollowRuns, Follows, ReadersBehind, ReaderMissesNothing, T, NoJob
    <2> QED
      BY <2>3, <2>4 DEF LogInv
  <1> QED
    BY <1>1, <1>3, <1>4, <1>5 DEF ProcessingInv

\* Every step preserves it and is a step of the queue or none.
LEMMA ProcessingNextInv ==
  ASSUME ProcessingInv, [ProcessingNext]_allVars
  PROVE  ProcessingInv' /\ [Next]_vars
  <1>1. CASE ProcessorStep
    BY <1>1, ClaimRunInv, ReportsInv, StoreLogsInv, StartInv, StoreFindingsInv,
       PublishCheckInv, PublishCommentInv, ReturnsInv, CrashProcessorInv
       DEF ProcessorStep, Advance
  <1>2. CASE UNCHANGED allVars
    <2>1. UNCHANGED <<vars, plan, kind, phase, remote, events, stored, reader>>
      BY <1>2 DEF allVars, processingVars
    <2>2. pc' = pc /\ job' = job /\ phase' \in [Worker -> Phase]
      BY <2>1 DEF vars, workers, ProcessingInv, ProcessingTypes
    <2> QED
      BY <2>1, <2>2, DropInv
  <1> QED
    BY <1>1, <1>2, OutsideStepInv, QueueStepInv DEF ProcessingNext

\* The inductive invariant of the processors is an invariant.
THEOREM ProcessingInvariant == ProcessingSpec => []ProcessingInv
  <1>1. ProcessingInv /\ [ProcessingNext]_allVars => ProcessingInv'
    BY ProcessingNextInv
  <1> QED
    BY ProcessingInitInv, <1>1, PTL DEF ProcessingSpec

\* The processors, AC, clients and retention touch tasks and runs through the
\* transactions of the task store only: every behaviour of theirs is one of the
\* queue, so what is proved of the queue holds while they work.
THEOREM ProcessingRunsQueue == ProcessingSpec => Spec
  <1>1. ProcessingInit => Init
    BY DEF ProcessingInit
  <1>2. ProcessingInv /\ [ProcessingNext]_allVars => [Next]_vars
    BY ProcessingNextInv
  <1> QED
    BY <1>1, <1>2, ProcessingInvariant, PTL DEF ProcessingSpec, Spec

\* Every variable of processors, services, logs and readers keeps to its type.
THEOREM ProcessingTypesHold == ProcessingSpec => []ProcessingTypeOK
  <1>1. ProcessingInv => ProcessingTypeOK
    <2> SUFFICES ASSUME ProcessingInv PROVE ProcessingTypeOK
      OBVIOUS
    <2> USE DEF ProcessingInv, ProcessingTypes
    <2>1. \A t \in Task, a \in Attempt :
            events[t][a] \subseteq [sequence : Nat \ {0}, kind : EventKind]
      BY DEF PerRunOf, Event
    <2>2. \A r \in Reader : reader[r].after \in Nat /\ reader[r].open \in BOOLEAN
      <3>1. NotReading.after \in Nat /\ NotReading.open \in BOOLEAN
        BY DEF NotReading
      <3>2. \A f \in Following : f.after \in Nat /\ f.open \in BOOLEAN
        BY DEF Following
      <3>3. \A r \in Reader : reader[r] \in Following \/ reader[r] = NotReading
        OBVIOUS
      <3> QED
        BY <3>1, <3>2, <3>3
    <2> QED
      BY <2>1, <2>2 DEF ProcessingTypeOK, ACStatus
  <1> QED
    BY <1>1, ProcessingInvariant, PTL

\* A run that ended in success has been published in full.
THEOREM SuccessIsPublished == ProcessingSpec => []SucceededIsPublished
  <1>1. ProcessingInv => SucceededIsPublished
    BY DEF ProcessingInv, PublicationInv, RunsSound, RunSound, InFull, SucceededIsPublished
  <1> QED
    BY <1>1, ProcessingInvariant, PTL

\* What reaches GitHub rests on an execution that AC ended in success and on
\* stored findings and logs.
THEOREM PublicationRestsOnAC == ProcessingSpec => []PublishedIsAccepted
  <1>1. ProcessingInv => PublishedIsAccepted
    <2> SUFFICES ASSUME ProcessingInv, NEW t \in Task, NEW a \in Attempt,
                        checks[t][a] + comments[t][a] > 0
                 PROVE  /\ ac[t][a] = "succeeded" /\ findings[t][a]
                        /\ kind[t] = "ci_diagnosis" => evidence[t][a]
      BY DEF PublishedIsAccepted
    <2>1. RunSound(t, a)
      BY DEF ProcessingInv, PublicationInv, RunsSound
    <2>2. checks[t][a] = 1
      BY <2>1 DEF RunSound
    <2> QED
      BY <2>1, <2>2 DEF RunSound
  <1> QED
    BY <1>1, ProcessingInvariant, PTL

\* One attempt publishes at most once, whichever workers crash, lose their lease
\* or are overtaken.
THEOREM RunsPublishOnce == ProcessingSpec => []OnePublicationPerRun
  <1>1. ProcessingInv => OnePublicationPerRun
    <2> SUFFICES ASSUME ProcessingInv, NEW t \in Task, NEW a \in Attempt
                 PROVE  comments[t][a] <= checks[t][a] /\ checks[t][a] <= 1
      BY DEF OnePublicationPerRun
    <2>1. /\ checks[t][a] \in {0, 1} /\ comments[t][a] \in {0, 1}
          /\ checks[t][a] = 0 => comments[t][a] = 0
      BY DEF ProcessingInv, PublicationInv, RunsSound, RunSound
    <2> QED
      BY <2>1
  <1> QED
    BY <1>1, ProcessingInvariant, PTL

\* A client that follows a run misses no event, however appends, polls, broken
\* streams and retention interleave.
THEOREM ReadersMissNothing == ProcessingSpec => []ReaderMissesNothing
  <1>1. ProcessingInv => ReaderMissesNothing
    BY DEF ProcessingInv, LogInv
  <1> QED
    BY <1>1, ProcessingInvariant, PTL
=============================================================================
