------------------------------ MODULE Processing ------------------------------
(***************************************************************************)
(* The processors of code reviews and CI diagnoses, step by step, inside   *)
(* the worker loop of TaskQueue: the execution adapter and the agent       *)
(* service (AC) it drives, the log of run events with its readers and its  *)
(* retention, and the publication of the result at GitHub.                 *)
(*                                                                         *)
(* A processor calls one remote service after the other and holds only     *)
(* what it has learned so far; AC works, hangs or is cancelled meanwhile,  *)
(* and the task may be cancelled or claimed by another worker.  Every call *)
(* may fail, before or after it took effect, and every failure ends the    *)
(* attempt: that is the action Fails.  AC knows a run by the correlation   *)
(* id of the attempt, so it is named by the attempt.                       *)
(***************************************************************************)
EXTENDS TaskQueue, FiniteSets

CONSTANTS
  Reader,  \* clients of the event stream of a run
  Plan     \* bound: how many attempts are made, which clients connect, and how many
           \* log chunks AC emits for one run

ASSUME ProcessingAssumption ==
  Plan \subseteq [attempts : Attempt, readers : SUBSET Reader, logs : Nat]

VARIABLES
  plan,      \* the plan of this behaviour
  kind,      \* tasks.kind
  phase,     \* phase[w]: the call that worker w's processor makes next
  ac,        \* ac[t][a]: the status of AC's run, or "none"
  events,    \* events[t][a]: the rows of run_events
  evidence,  \* evidence[t][a]: are the log chunks of the workflow stored
  findings,  \* findings[t][a]: are the findings stored
  checks,    \* checks[t][a]: check runs at GitHub
  comments,  \* comments[t][a]: comments on the pull request
  reader     \* reader[r]: the run a client follows, and what it has got

remote == <<ac, checks, comments>>
stored == <<evidence, findings>>
processingVars == <<plan, kind, phase, remote, events, stored, reader>>
allVars == <<vars, processingVars>>

Kind == {"code_review", "ci_diagnosis"}
EventKind == {"status", "external_run", "log", "final", "result"}
Terminal == {"final", "result"}
NotReading == [task |-> None, attempt |-> 0, after |-> 0, got |-> {}, open |-> FALSE]

SetMax(S) == CHOOSE x \in S : \A y \in S : y <= x

\* Mutant: the first event of a run is number 0, which no reader asks for.
NextSequenceFromZero(log) ==
  IF log = {} THEN 0 ELSE SetMax({e.sequence : e \in log}) + 1

\* AppendRunEvent locks the run and numbers the event MAX(sequence) + 1.
NextSequence(log) == IF log = {} THEN 1 ELSE SetMax({e.sequence : e \in log}) + 1

AppendEvent(t, a, k) ==
  events' = [events EXCEPT ![t][a] = @ \cup {[sequence |-> NextSequence(@), kind |-> k]}]

-----------------------------------------------------------------------------
(* Process of the two processors, one remote call or transaction per step. *)

\* Worker w makes the call of phase p and goes on to phase q.
Calls(w, p, q) ==
  /\ pc[w] = "processing" /\ phase[w] = p
  /\ phase' = [phase EXCEPT ![w] = q]
  /\ UNCHANGED <<vars, plan, kind, reader>>

\* The run that worker w processes.
T(w) == job[w].task
A(w) == job[w].attempt

Claim(w, t) ==
  /\ attempts[t] < plan.attempts
  /\ ClaimTask(w, t)
  /\ phase' = [phase EXCEPT ![w] = "status"]
  /\ UNCHANGED <<plan, kind, remote, events, stored, reader>>

ReportStatus(w) ==
  /\ Calls(w, "status", IF kind[T(w)] = "ci_diagnosis" THEN "logs" ELSE "start")
  /\ AppendEvent(T(w), A(w), "status")
  /\ UNCHANGED <<remote, stored>>

\* FetchGitHubWorkflowLogs, RedactAndChunkLogs and CreateEvidence.
StoreLogs(w) ==
  /\ Calls(w, "logs", "start")
  /\ evidence' = [evidence EXCEPT ![T(w)][A(w)] = TRUE]
  /\ UNCHANGED <<remote, events, findings>>

Start(w) ==
  /\ Calls(w, "start", "external run")
  /\ ac' = [ac EXCEPT ![T(w)][A(w)] = "running"]
  /\ UNCHANGED <<events, stored, checks, comments>>

ReportExternalRun(w) ==
  /\ Calls(w, "external run", "stream")
  /\ AppendEvent(T(w), A(w), "external_run")
  /\ UNCHANGED <<remote, stored>>

\* followEvents hands over a chunk, and Process appends it.
StreamLog(w) ==
  /\ Calls(w, "stream", "stream")
  /\ Cardinality({e \in events[T(w)][A(w)] : e.kind = "log"}) < plan.logs
  /\ AppendEvent(T(w), A(w), "log")
  /\ UNCHANGED <<remote, stored>>

\* The final chunk, which AC sends when its run has ended, is a terminal event.
\* The stream is complete only if it ends after that.
StreamFinal(w) ==
  /\ Calls(w, "stream", "end of stream")
  /\ ac[T(w)][A(w)] # "running"
  /\ AppendEvent(T(w), A(w), "final")
  /\ UNCHANGED <<remote, stored>>

StreamEnds(w) ==
  /\ Calls(w, "end of stream", "result")
  /\ UNCHANGED <<remote, events, stored>>

\* Mutant: the deadline is that of the first answer, not of the stream.
DeadlineExpiresEarly(w) ==
  /\ pc[w] = "processing" /\ phase[w] = "stream"
  /\ \A e \in events[T(w)][A(w)] : e.kind # "log"
  /\ Process(w, "failed")
  /\ \/ ac' = [ac EXCEPT ![T(w)][A(w)] = IF @ = "running" THEN "canceled" ELSE @]
     \/ UNCHANGED ac
  /\ phase' = [phase EXCEPT ![w] = "none"]
  /\ UNCHANGED <<plan, kind, checks, comments, events, stored, reader>>

\* The deadline that Start stored expires while the stream is open.  Cancel is
\* tried once and its error ignored; the attempt has failed either way.
DeadlineExpires(w) ==
  /\ pc[w] = "processing" /\ phase[w] \in {"stream", "end of stream"}
  /\ Process(w, "failed")
  /\ \/ ac' = [ac EXCEPT ![T(w)][A(w)] = IF @ = "running" THEN "canceled" ELSE @]
     \/ UNCHANGED ac
  /\ phase' = [phase EXCEPT ![w] = "none"]
  /\ UNCHANGED <<plan, kind, checks, comments, events, stored, reader>>

\* Mutant: any run that has ended has a result.
ResultOfEndedRun(w) ==
  /\ Calls(w, "result", "findings")
  /\ ac[T(w)][A(w)] # "running"
  /\ UNCHANGED <<remote, events, stored>>

\* Result refuses runs that are not terminal, cancelled or failed, and output
\* without the envelope; ValidateResult what breaks the schema.
Result(w) ==
  /\ Calls(w, "result", "findings")
  /\ ac[T(w)][A(w)] = "succeeded"
  /\ UNCHANGED <<remote, events, stored>>

\* Anything else AC answers is an error, and so a failed attempt.
ResultRefused(w) ==
  /\ pc[w] = "processing" /\ phase[w] = "result"
  /\ ac[T(w)][A(w)] # "succeeded"
  /\ Process(w, "failed")
  /\ phase' = [phase EXCEPT ![w] = "none"]
  /\ UNCHANGED <<plan, kind, remote, events, stored, reader>>

StoreFindings(w) ==
  /\ Calls(w, "findings", "check")
  /\ findings' = [findings EXCEPT ![T(w)][A(w)] = TRUE]
  /\ UNCHANGED <<remote, events, evidence>>

\* CreateCheckRun, or CreateDiagnosisCheckRun, which is all of a diagnosis.
PublishCheck(w) ==
  /\ Calls(w, "check", IF kind[T(w)] = "code_review" THEN "comment" ELSE "report")
  /\ checks' = [checks EXCEPT ![T(w)][A(w)] = @ + 1]
  /\ UNCHANGED <<ac, comments, events, stored>>

\* Mutant: a comment that fails is tried again together with the check run.
PublishCommentRetries(w) ==
  /\ \/ /\ Calls(w, "comment", "report")
        /\ comments' = [comments EXCEPT ![T(w)][A(w)] = @ + 1]
     \/ Calls(w, "comment", "check") /\ checks[T(w)][A(w)] < 2 /\ UNCHANGED comments
  /\ UNCHANGED <<ac, checks, events, stored>>

PublishComment(w) ==
  /\ Calls(w, "comment", "report")
  /\ comments' = [comments EXCEPT ![T(w)][A(w)] = @ + 1]
  /\ UNCHANGED <<ac, checks, events, stored>>

ReportResult(w) ==
  /\ Calls(w, "report", "succeed")
  /\ AppendEvent(T(w), A(w), "result")
  /\ UNCHANGED <<remote, stored>>

Succeeds(w) ==
  /\ phase[w] = "succeed"
  /\ Process(w, "succeeded")
  /\ phase' = [phase EXCEPT ![w] = "none"]
  /\ UNCHANGED <<plan, kind, remote, events, stored, reader>>

\* Mutant: a publication that fails is not a failed attempt.
FailsUnlessPublishing(w) ==
  /\ pc[w] = "processing"
  /\ IF phase[w] \in {"check", "comment"}
     THEN UNCHANGED vars /\ phase' = [phase EXCEPT ![w] = "report"]
     ELSE Process(w, "failed") /\ phase' = [phase EXCEPT ![w] = "none"]
  /\ UNCHANGED <<plan, kind, remote, events, stored, reader>>

\* The next call, or the answer of the last one, fails.
Fails(w) ==
  /\ pc[w] = "processing"
  /\ Process(w, "failed")
  /\ phase' = [phase EXCEPT ![w] = "none"]
  /\ UNCHANGED <<plan, kind, remote, events, stored, reader>>

-----------------------------------------------------------------------------
(* AC, the operators, the readers and retention.                           *)

ACFinishes(t, a, s) ==
  /\ ac[t][a] = "running"
  /\ ac' = [ac EXCEPT ![t][a] = s]
  /\ UNCHANGED <<vars, plan, kind, phase, checks, comments, events, stored, reader>>

\* Cancel, by POST /api/v1/executions/{id}/cancel or by the deadline of a stream
\* whose processor has already given up.
CancelExecution(t, a) == ACFinishes(t, a, "canceled")

Connect(r, t, a) ==
  /\ r \in plan.readers
  /\ ~reader[r].open /\ run[t][a] # "none"
  /\ reader' = [reader EXCEPT ![r] =
       IF @.task = t /\ @.attempt = a THEN [@ EXCEPT !.open = TRUE]
       ELSE [task |-> t, attempt |-> a, after |-> 0, got |-> {}, open |-> TRUE]]
  /\ UNCHANGED <<vars, plan, kind, phase, remote, events, stored>>

\* What one poll of runEvents sends: the events after the last one sent, up to
\* the first terminal one, which ends the stream.
Batch(log, after) ==
  {e \in log : /\ e.sequence > after
               /\ \A f \in log : after < f.sequence /\ f.sequence < e.sequence
                                   => f.kind \notin Terminal}

\* Mutant: the next poll starts one event too far.
ResumeAfterSkips(batch, after) ==
  IF batch = {} THEN after ELSE SetMax({e.sequence : e \in batch}) + 1

ResumeAfter(batch, after) ==
  IF batch = {} THEN after ELSE SetMax({e.sequence : e \in batch})

Poll(r) ==
  /\ reader[r].open
  /\ LET log == events[reader[r].task][reader[r].attempt]
         batch == Batch(log, reader[r].after)
     IN reader' = [reader EXCEPT
          ![r].after = ResumeAfter(batch, @),
          ![r].got = @ \cup batch,
          ![r].open = \A e \in batch : e.kind \notin Terminal]
  /\ UNCHANGED <<vars, plan, kind, phase, remote, events, stored>>

\* The stream lasts thirty seconds; the client connects again with what it has.
Disconnect(r) ==
  /\ reader[r].open
  /\ reader' = [reader EXCEPT ![r].open = FALSE]
  /\ UNCHANGED <<vars, plan, kind, phase, remote, events, stored>>

\* Mutant: what retention deletes does not depend on its age.
PruneAnything(t, a, keepAfter) ==
  /\ events' = [events EXCEPT ![t][a] = {e \in @ : e.sequence > keepAfter}]
  /\ UNCHANGED <<vars, plan, kind, phase, remote, stored, reader>>

\* Retention deletes events older than whole days.  A processor ends within
\* minutes, so nothing is appended to a run with events as old as that, and
\* nobody follows it.  A bound: only a run some client knows loses events.
Prune(t, a, keepAfter) ==
  /\ \A w \in Worker : ~(T(w) = t /\ A(w) = a)
  /\ \A r \in Reader : ~(reader[r].open /\ reader[r].task = t /\ reader[r].attempt = a)
  /\ events' = [events EXCEPT ![t][a] = {e \in @ : e.sequence > keepAfter}]
  /\ UNCHANGED <<vars, plan, kind, phase, remote, stored, reader>>

-----------------------------------------------------------------------------
PerRun(x) == [t \in Task |-> [a \in Attempt |-> x]]

ProcessingInit ==
  /\ Init
  /\ plan \in Plan
  /\ kind \in [Task -> Kind]
  /\ phase = [w \in Worker |-> "none"]
  /\ ac = PerRun("none")
  /\ events = PerRun({})
  /\ evidence = PerRun(FALSE) /\ findings = PerRun(FALSE)
  /\ checks = PerRun(0) /\ comments = PerRun(0)
  /\ reader = [r \in Reader |-> NotReading]

\* The steps by which a processor gets on.
Advance(w) ==
  \/ ReportStatus(w) \/ StoreLogs(w) \/ Start(w) \/ ReportExternalRun(w)
  \/ StreamLog(w) \/ StreamFinal(w) \/ StreamEnds(w) \/ Result(w) \/ ResultRefused(w)
  \/ StoreFindings(w) \/ PublishCheck(w) \/ PublishComment(w) \/ ReportResult(w)
  \/ Succeeds(w)

\* A worker that crashes forgets where it was.
CrashProcessor(w) ==
  /\ Crash(w)
  /\ phase' = [phase EXCEPT ![w] = "none"]
  /\ UNCHANGED <<plan, kind, remote, events, stored, reader>>

ProcessorStep ==
  \E w \in Worker :
    \/ \E t \in Task : Claim(w, t)
    \/ Advance(w) \/ DeadlineExpires(w) \/ Fails(w) \/ CrashProcessor(w)

OutsideStep ==
  \/ \E t \in Task, a \in Attempt :
       \/ \E s \in {"succeeded", "failed"} : ACFinishes(t, a, s)
       \/ CancelExecution(t, a)
       \/ \E r \in Reader : Connect(r, t, a)
       \/ \E r \in Reader, n \in {e.sequence : e \in events[t][a]} :
            reader[r].task = t /\ reader[r].attempt = a /\ Prune(t, a, n)
  \/ \E r \in Reader : Poll(r) \/ Disconnect(r)

QueueStep ==
  /\ \/ \E t \in Task : \/ CreateTask(t) \/ CancelTask(t) \/ RetryTask(t)
                        \/ SupersedeCodeReviews(t) \/ LeaseExpires(t)
     \/ \E w \in Worker : CompleteTask(w) \/ Restart(w)
  /\ UNCHANGED processingVars

ProcessingNext == ProcessorStep \/ OutsideStep \/ QueueStep

ProcessingSpec == ProcessingInit /\ [][ProcessingNext]_allVars

\* A worker that is up makes its next call, and the deadline of a stream comes.
\* AC owes nothing, nor do failures, users and readers.
ProcessingFairSpec ==
  /\ ProcessingSpec
  /\ \A w \in Worker : WF_allVars(Advance(w)) /\ WF_allVars(DeadlineExpires(w))

-----------------------------------------------------------------------------
(* Properties.                                                             *)

Phase == {"none", "status", "logs", "start", "external run", "stream",
          "end of stream", "result", "findings", "check", "comment", "report", "succeed"}
PerRunOf(S) == [Task -> [Attempt -> S]]

\* Every variable of processors, services and readers keeps to its type.
ProcessingTypeOK ==
  /\ plan \in Plan /\ kind \in [Task -> Kind]
  /\ phase \in [Worker -> Phase]
  /\ ac \in PerRunOf({"none", "running", "succeeded", "failed", "canceled"})
  /\ \A t \in Task, a \in Attempt :
       events[t][a] \subseteq [sequence : Nat \ {0}, kind : EventKind]
  /\ evidence \in PerRunOf(BOOLEAN) /\ findings \in PerRunOf(BOOLEAN)
  /\ checks \in PerRunOf(Nat) /\ comments \in PerRunOf(Nat)
  /\ \A r \in Reader : reader[r].after \in Nat /\ reader[r].open \in BOOLEAN
  /\ \A w \in Worker : pc[w] = "processing" <=> phase[w] # "none"

\* A run that ended in success has been published in full: its findings are
\* stored, its check run exists and, if it is a review, so does its comment,
\* however often the task was cancelled, superseded, reclaimed or retried.
SucceededIsPublished ==
  \A t \in Task, a \in Attempt :
    run[t][a] = "succeeded" =>
      /\ findings[t][a] /\ checks[t][a] = 1
      /\ comments[t][a] = IF kind[t] = "code_review" THEN 1 ELSE 0

\* Whatever reaches GitHub rests on an execution that AC ended in success, and
\* everything a reader of the check run could look up is stored by then: the
\* findings and, of a diagnosis, the redacted logs.
PublishedIsAccepted ==
  \A t \in Task, a \in Attempt :
    checks[t][a] + comments[t][a] > 0 =>
      /\ ac[t][a] = "succeeded" /\ findings[t][a]
      /\ kind[t] = "ci_diagnosis" => evidence[t][a]

\* One attempt publishes at most once, and the comment never without its check
\* run; a worker whose lease expired holds another attempt than its successor.
OnePublicationPerRun ==
  \A t \in Task, a \in Attempt :
    comments[t][a] <= checks[t][a] /\ checks[t][a] <= 1

\* A client that connects again where it left off has got every event before
\* that place: polls, appends, the thirty seconds of a stream and the deletion of
\* old events leave no gap.
ReaderMissesNothing ==
  \A r \in Reader :
    reader[r].task # None =>
      \A e \in events[reader[r].task][reader[r].attempt] :
        e.sequence <= reader[r].after => e \in reader[r].got

\* A processor comes to an end although AC may hang for ever: the deadline that
\* Start stored bounds the stream.
ProcessingEnds ==
  \A w \in Worker : pc[w] = "processing" ~> pc[w] # "processing"
=============================================================================
