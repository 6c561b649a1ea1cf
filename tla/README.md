# RepoMender in TLA+

RepoMender takes events of a source-control provider, turns them into durable
tasks, lets an external agent work on each task, asks a human before anything is
written back, and publishes the result. This directory models the server: the
task queue, the approval gate and issue repair; webhooks, automations and the
processors of reviews and diagnoses; sessions, connections and the rate limiter.
TLC checks the models on small instances; TLAPS proves every safety property that
TLC finds to hold, for every instance.

## 1. Inventory

Paths are relative to `server/internal/` unless they say otherwise. Everything
that lasts is in PostgreSQL; API server and workers are stateless processes that
share it, so the components interact through rows.

| Component | State | Operations | Hard behaviour |
| --- | --- | --- | --- |
| Task queue (`tasks/`) | `tasks` (status, attempts, lease), `runs` (one row per attempt) | create, cancel, retry, claim, heartbeat, complete, supersede reviews | several workers, leases that expire under a live worker, late completions, cancellation of running work |
| Queue worker (`worker/queue.go`, `cmd/repomender`) | task, run and outcome in local variables | poll, claim, process, complete | crash at any point, restart, exit on a lost lease |
| Approvals (`approvals/`, `httpserver/approvals.go`) | `approval_requests` with decision and consumption keys | create, decide, consume, cancel, lazy expiry | repeated and concurrent calls, deadlines, changed documents |
| Issue repair (`repair/`, `httpserver/repair.go`) | `issue_repairs`: state, plan, patch, digests, approval ids | create, bind, plan, patch, publish, ConsumeApproval | multi-step phases on a stale copy of the row, three transactions per ConsumeApproval, resumption after failure |
| Draft publication (`scm/github.go`) | branch and pull request at GitHub | find draft, read head, push, open draft | timeouts after the effect, two publishers |
| Code review (`review/`) | findings, comment | ingest, supersede, run, publish | a new head while the old one is reviewed |
| CI diagnosis (`diagnosis/`) | evidence, findings | ingest, fetch logs, run | partial failure of log collection |
| Automations (`automations/`) | templates with revision and version, `automation_runs` | create, edit, publish, enable, delete, trigger | edits racing with triggers, concurrency limit, trigger keys |
| Webhook ingestion (`httpserver/scm.go`, `scm/service.go`) | `webhook_deliveries` | verify, match, trigger, bind, record | redelivery, work done before the delivery is recorded |
| SCM connections (`scm/`) | OAuth flows, encrypted credentials, repositories | connect, complete, sync, list | flows used once, credentials refreshed concurrently, lists read page by page while they change |
| Sessions and OIDC (`auth/`) | users, sessions, OIDC flows | bootstrap, sign in, authenticate, sign out | flows used once, expiry, first administrator |
| Execution adapter (`execution/`) | remote runs, event stream | start, events, cancel, result | resumed streams, duplicate or missing events, deadlines |
| Run events, retention (`tasks/store.go`, `retention/`) | `run_events` by sequence number | append, read after n, prune | numbering after pruning, readers that poll |
| Rate limiter (`ratelimit/`) | one window per client | allow, sweep | window boundaries, growth |
| Metrics, telemetry, configuration, migrations, SCM fixture, web front end | none that the protocol depends on | | |

How they interact: a webhook or an API call creates a task; the worker claims it
and calls the processor for its kind; the repair processor creates approval
requests, pauses the task by returning `awaiting_approval`, and
`ConsumeApproval` consumes the request, moves the repair row and re-queues the
task with `Retry`; the next claim runs the next phase. The approval endpoints
and the task endpoints act on the same rows and know nothing of repairs. The
processors of reviews and diagnoses start an execution at the agent service (AC),
follow its stream into the run's event log, which clients poll, store findings
and publish at GitHub. Every request passes the rate limiter and, webhooks and
callbacks apart, is authenticated by its session.

What makes each component correct: the queue neither loses work nor lets a stale
worker settle a task; the gate opens once, for the exact digest, after an
eligible decision; a repair runs no phase without its consent and reports no
success without a draft; an acknowledged delivery has its effect, a trigger runs
one published version within the concurrency limit, a flow is used once and opens
no account but its own, an event stream has no gaps, and what succeeded has been
published in full.

## 2. Modules

`TaskQueue`. One action per transaction of `tasks.PostgreSQLStore` (each locks
the task row first, so it is atomic) and the steps of `worker.RunQueue`. `status`,
`attempts`, `owner`, `lease`, `supersededBy` are the columns of `tasks`, `run[t][a]`
is the status of the run of attempt `a`, `pc` and `job` are the worker's position
and local variables. A task is its `source_key`; a run is its task and attempt,
unique by the schema. A lease is absent, live or expired. Processors other than
repair are the outcome they return. `Heartbeat` is offered by the queue and not
called by `RunQueue`; the module allows it, so what is shown holds with and
without it.

`Approvals`. The service's operations on `approval_requests` as parameterised
answers and actions, without a next-state relation, for others to compose.
`late` says that `expires_at` has passed. `ApprovalAPI` lets users of every
role call them in any order and records what each caller was told.

`Repair`. Composes `TaskQueue` (EXTENDS) and `Approvals` (INSTANCE, with runs for
ids and digests: one claim makes at most one document and one request). `row` is
`issue_repairs`; `step`, `copy`, `seen` are a worker's position in
`Processor.Process`, its copy of the row, and the branch head it read; `call` is a
`ConsumeApproval` call with its copy; `head`, `draft`, `shipped` are the provider's
side. A phase is load, persist the phase's state, execute, request approval,
save; publication is find the draft, read the head, push a fast-forward, open
the draft, record. Between two of these steps anything may happen, a crash
included, and `store.Update` writes the whole copy back.

`RepairGate`. What repair promises, without queue, rows and workers: documents
are proposed, consented to or refused once, and shipped only with consent; a
patch is proposed only for a task that has a granted plan. `Repair!DocView` is
the refinement mapping.

`Automations`. One action per operation of `automations.PostgreSQLStore`; each is
a transaction that locks the template row. `template`, `versions` and `scheduled`
are the three tables; `opened[u]` is the copy of the row that an administrator
works from and whose revision is sent back. The configurations that administrators
submit carry what `Validate` and `Matches` read. Extends `TaskQueue`, whose
`CreateTask` is the insertion of the triggered task.

`Webhooks`. `handleWebhook`, extending `Automations`. `at[h]` is the place of a
request between two transactions, `pending[h]` the matched templates it has still
to trigger, `recorded` the table `webhook_deliveries`. `level` is the highest
feature that is enabled, since each requires the ones below. The first step of a
request is its first transaction; a request that fails there has done nothing and
is no step, but if its error is swallowed it goes on (second disjunct of `Review`).
The provider may send any delivery again at any time, concurrently with itself.
`posted` are the tasks that users create themselves (`POST /api/v1/tasks` and
`/api/v1/issue-repairs`), among them tasks under the source key of an event: the
service that then handles the event finds its task there.

`Processing`. The `Process` of reviews and diagnoses inside the loop of `TaskQueue`,
one remote call or transaction per step: `phase[w]` is the next call, and `Fails`
is the failure of any of them, before or after its effect, the last included: a
result event may be committed and its answer lost. `ac` is AC's run of an
attempt (the correlation id is the run's); `events`, `evidence`, `findings` are
tables; `checks` and `comments` are GitHub's side; `reader` is a client of
`runEvents` that keeps the last id it got. `EventKind` names what the modelled
steps distinguish: the chunks AC sends are `log` and, with `isFinal`, `final`.
`Prune` is restricted to runs that no worker writes and no client follows. That is an
assumption: retention deletes by age alone, in whole days, and a processor ends
within minutes.

`Sessions`, `RateLimiter`, `Connections`. Users, sessions and OIDC flows; the window
per client; and SCM flows, connections and the rotation of GitLab's refresh
tokens. A session keeps, as history, how it was opened. The callback of an OIDC login
is a call of the identity provider and two transactions, user and session, with
`callback[h]` in between. The list of repositories is read with one call for each page
while access may change at the provider; `read` is history, the states of the list
during which the pages were read. The limiter takes its mutex with a time it has read
before, at most `Skew` ago. `Connections` extends the
other two, because connecting and synchronizing need a session, and is their
composition; its `plan` picks the part of the system a behaviour is about, since
the parts share nothing but sessions. `disturbed` is history: whether requests of
GitLab have overlapped or died.

Left out of these modules: audit rows, reasons, risk, timestamps; what makes a
plan, a patch, a review or a diagnosis valid (a failing validation is a failed
attempt); the repair state `cancelled`, which no code writes; the check for a missing
execution adapter, since `cmd/repomender` registers the processors only with
one; people who change the repair branch or the pull request at the provider.

## 3. Runs

| Run | Instance | Question and result |
| --- | --- | --- |
| `queue` | 2 workers, 2 reviews of one pull request, 2 attempts | Are stale workers fenced, does the task agree with its runs, does pending work drain? Yes. |
| `queue_lost_work` | same | Does a running task always end or run again? No: a crash in the last attempt. |
| `approvals` | 1 request, 4 users (one per role), 2 keys, 2 digests | One decision, one consumption, only legal changes, no late decisions? Yes. |
| `approvals_repeats` | same | Is every repetition of an accepted call accepted? No: once the request has moved on. |
| `repair_race` | 2 workers, 1 repair, 2 attempts | Does a stale worker or call bring about a patch without consent? No. |
| `repair_publish` | 1 worker, 4 attempts, at most one wasted | Is a publication that was cut off resumed correctly, and does repair implement `RepairGate` from plan to pushed patch? Yes. |
| `repair_resume` | 1 worker, 3 attempts | Is a paused repair queued again by consumption only? No: the task retry endpoint. |
| `ingestion` | 2 requests at a time, 5 deliveries (two heads of a pull request, a workflow run, an issue, a push at GitLab) at levels 2, 5, 6, 8 and 9, 1 template, 2 administrators, 3 configurations, 4 revisions, 1 worker; users who post a task under the key of an event or of a trigger | Does an acknowledged delivery have its work, do reviews supersede each other, does a template trigger within its limit and by the version the run names, and is no edit lost? Yes. |
| `ingestion_newest` | same | Does the newest review of a pull request stand? No: two deliveries at once supersede each other. |
| `processing` | 1 task of either kind, 2 workers, 2 attempts; or 1 attempt, 1 reader, 1 log chunk | Is success published in full and nothing else published, once per attempt; do readers miss nothing; does every attempt end? Yes. |
| `access` | 2 addresses, 2 people, 2 sessions, 2 flows of each sort, 2 requests at a time, 3 tokens, 2 states of a list of at most 2 repositories, one to a page; 2 clients, limit 2, window 3 of 7 ticks, a wait of at most 1 | Does everybody get into his own account, do flows work once, are the enabled repositories those one listing found, and all of a list that held still, does rotation lock nobody out, is every burst bounded? Yes. |
| `access_full_list` | the connections of `access` | Is a repository enabled that was on the list all the time it was read? No: another one was removed between two pages. |

Bounds. Two workers are a stale and a current holder; two attempts are the
smallest number for which an attempt is replaced, and the last attempt is
reached. Two reviews of one pull request supersede each other in either order.
Requests share no state, so one shows what each does; two keys and two digests
are a right and a wrong one. A repair needs three claims to be pushed (plan,
patch, publication), and a fourth to resume a publication. The code allows five.
With four attempts the constraint `OneWastedClaim` keeps at most one claim that
has brought no consent, and not the first: it cuts the histories with several
failed claims, which the theorems of section 5 cover, `repair_race` those of the
first claim. The race of two workers stops at the patch phase for the same reason.

`Scenario` (in `ingestion`) says which deliveries race at which level: two copies of
a delivery, two heads and different events race where services create tasks; at
level 9 a delivery races with the administrators instead, who also trigger
templates directly, so that a template has two runs and its limit is reached. Four
revisions are create, publish, enable and disable, or an edit in place of one of the
last two; to edit a template again after it has been disabled takes a fifth. Users post
the review of the other head at level 5, the repair of an issue at level 8 and the task
of a trigger at level 9. `Plan`
(in `processing`) lets two attempts race, or one attempt be followed by a reader:
a reader follows one run and does not see the other. Log chunks matter to readers
alone, and one suffices to tell an event that ends the stream from one that does not.
In `access`, three tokens are the first, its successor and that of a second request;
seven ticks hold two windows and what lies across their boundary. One change between the
two pages of a list is the least that mixes two lists; page sizes and lists of any
length are left to the theorem. A wait of one tick lets requests be counted with times
out of order.

Fairness (`TaskQueue!Fairness`, used by `queue` and `queue_lost_work`): a worker
polls on a ticker, so a claim that stays possible is made; a processor returns,
since an execution has a deadline of fifteen minutes; the worker then completes
what it has processed; the orchestration restarts a worker that exited, as the
comment on `RunQueue` says; time passes, so a lease that is not renewed
expires. Crashes, users, webhooks and heartbeats are under no obligation.
`Processing!ProcessingFairSpec` discharges the second of these: it assumes only that
a worker makes the call that is next, and that the deadline of an open stream
comes; AC owes nothing. `ProcessingEnds` is then the statement that a processor
returns. No liveness property uses symmetry.

Deadlock is checked in every run but `repair_publish`, where a repair that has succeeded
and whose requests are settled is at its end, and `access` and `access_full_list`, where
the bounded supply of sessions, flows, tokens and ticks runs out.

## 4. Findings

* `queue_lost_work`: a worker that dies in the last attempt leaves the task
  running for ever, since reclaiming requires an attempt to be left, and the
  retry endpoint refuses running tasks. Only cancelling gets it out.
* `approvals_repeats`: repeating a decision with its own key is a conflict after
  the request was consumed or cancelled.
* `repair_resume`: the generic retry endpoint resumes a repair that waits for
  approval. This costs an attempt; the phase itself does not run without consent.
* `ingestion_newest`: two deliveries of one pull request, handled at once or an old
  one sent again, leave it without a review: `SupersedeCodeReviews` supersedes
  whatever is not its own task, newer or not.
* `access_full_list`: the pages of a list are addressed by their number, so a repository
  that is removed after the first page shifts the others, one falls between two pages,
  and `UpsertConnection` disables it although access to it never changed. The next
  synchronization enables it again.

Seen while modelling, and named in the modules where they matter:

* `ClaimTask` takes failed tasks straight to running (`tasks/store.go:183`);
  `CanTransition` has no such transition and `ClaimTask` does not ask it.
* With diagnosis enabled, `handleWebhook` overwrites the error of the review
  service (`httpserver/scm.go:262`). The pull request is acknowledged as ignored and
  not sent again. `AcknowledgedIsHandled` states this exception.
* A webhook passes the provider's numeric repository id to `Trigger`, which casts
  it to `uuid` (`automations/store.go:310`): a delivery that matches a template ends
  in an error, and only `POST .../trigger` starts automations.
* A stale worker, or one whose task was superseded, publishes its review all the
  same, and each attempt publishes anew; only per attempt is publication unique
  (`OnePublicationPerRun`).
* Two synchronizations of GitLab at once may leave a refresh token that GitLab no
  longer takes; then the account has to be connected again.
* The final chunk of AC is stored as a terminal event, so the stream of a run ends
  before its `result` event.

## 5. Proofs

Every invariant and action property of the passing runs, and the refinement of
`RepairGate`, is stated by a theorem.

Assumptions, each as weak as the code allows and evaluated by TLC in every run:

* `QueueAssumption`: at least one attempt; `None` is no task and no worker.
* `ApprovalAssumption`: every user has a role; `None` is no key and no user.
* `AutomationAssumption`: at least one revision is explored, limits are numbers, and a
  trigger of a template names a task. `None` is no template.
* `WebhookAssumption`: a delivery names a task, and that of a pull request belongs to a
  pull request. `None` is no delivery.
* `ProcessingAssumption`, `SessionsAssumption`, `ConnectionsAssumption`,
  `LimiterAssumption`: the types of the bounds; the limit and the window are positive
  (`New` replaces what is not by 120), and so is the size of a page; the provider has a
  list to begin with; `None` is no address, person or flow.

Sets of tasks, workers, calls, users, keys, templates, requests, readers, sessions,
flows and clients are arbitrary, finite or not; plans and scenarios may be any.

`TaskQueueProofs`. `RunningRunIsLatest` and the others are not inductive alone: they
need that the runs of a task are exactly those of the attempts made so far
(`RunLedger`), that what a worker holds is a run that has been inserted
(`JobHeld`), and that only superseded tasks have a successor, so that superseding
the runs of an old successor again touches closed runs only
(`SuccessorMeansSuperseded`). Their conjunction `QueueInv` is preserved by each
action; `TypeCorrect`, `FencedRuns`, `ExclusiveRuns`, `LedgerAgrees`, `FrozenRuns`
and `HolderSettles` follow.

`ApprovalAPIProofs`. `GateInv` ties the answers given so far to the row (an "ok" to
a decision means that the row carries that key and decision; an "ok" to a
consumption means a consumed row with that key and digest), from which
`SingleConsumption`, `SingleDecision`, `FollowsStateMachine` and `DeadlineHolds` follow.

`RepairProofs`. Every copy of a row, in the table, a worker or a call, is sound:
the approvals its state presupposes are consumed with the digests it holds. That
is stable because requests only grow (`Grows`: a consumed request stays consumed,
with its action and digest), so an old copy that is written back is still sound,
which is why `Update` needs no version check for consent. `RepairRunsQueue` shows
that repair uses the queue only by the queue's operations, so all of
`TaskQueueProofs` holds of it; `ConsentIsExact` and `SuccessHasDraft` are the
safety properties; `RepairImplementsGate` shows that every step is a step of
`RepairGate` or leaves its view alone.

`IngestionProofs`. `IngestionInv` is `QueueInv` with two parts. `TemplateInv`: live rows
hold valid configurations, the version of a row counts its versions, the last version
of an enabled row is that row's configuration, every copy an administrator has open is
behind the row or equal to it, and every run has its task. That is what makes a run
match the version it names (`RunsKeepTheirVersion`) and a revision identify a row
(`RevisionsPreventLostUpdates`). `RequestInv`: what each place in `handleWebhook` presupposes
(`PlacesMean`), and that of two recorded reviews of a pull request, or a recorded one
and one that is about to be, one is superseded (`OneReviewCreated`): a request
supersedes the others before it is recorded, and nothing leaves `superseded`. From it
follow `AcknowledgedIsKept` and `ReviewsSupersedeEachOther`. The former also covers the
deliveries that templates handle: a trigger that is answered as a duplicate has its task,
since every run has one (`DuplicateHasWork`). `TriggersKeepLimit` is an
action property: a trigger counts under the lock of the row, so it adds one run to
fewer than the limit. `IngestionRunsQueue`: `IngestionSpec` implements `TaskQueue!Spec`.

`ProcessingProofs`. `ProcessingInv` adds to `QueueInv` what each phase presupposes of AC's
run, the evidence, the findings and the publications of the attempt that the worker
holds (`PhasesMean`), that an attempt nobody processes any more has been published in
full if it succeeded (`SuccessPublished`, `RunsSound`), and what is known of logs and
readers (`LogInv`). `OneWorkerPerRun` of the queue carries the argument: no second worker
has the attempt, so what a phase presupposes is changed by no other. `ReadersMissNothing`
rests on `ReadersBehind`: a new event is numbered past the greatest that is there, and
pruning touches only logs to which no worker appends any more, so a number at or below
a reader's id is never given again. That a log has a last event is part of the invariant, since
`SetMax` is a CHOOSE; least numbers come from `WFMin`. `ProcessingRunsQueue`:
`ProcessingSpec` implements `TaskQueue!Spec`.

`AccessProofs`. The theorems are about `WholeSpec`, in which sign-in, connections and
traffic interleave; `PlansArePartsOfTheWhole` says that each behaviour TLC explores is
one of it. `IdentityInv`: a row is free, local or of one person (`RowsByOrigin`), a
subject has one row, the user of a session exists, a flow that a request holds or a
session names is spent (`SpentFlows`) and in one place (`FlowInOnePlace`), and between
its two transactions a callback has the row of the subject it was vouched for
(`IdentifiedUser`). `ConnectionInv`: what a request has read was on the list, and as
long as all its pages are of one state of the list it has the beginning of that list up
to its offset, so all of it once a page was not full (`PagesRead`); only GitLab's rows
and requests hold tokens; while nothing is disturbed one request of GitLab is in
progress and its credential is one that GitLab accepts.

`LimiterProofs`. Past windows are not kept, so the invariant says of the requests let
through what they leave behind: those of the current window are the last ones
(`WindowIsSuffix`), all but the last `Limit` before it are a window older than it
(`EarlierWindowIsOver`), and of `2 * Limit + 1` in a row the last comes a window after
the first (`RequestsSpaced`), each up to the `Skew` with which requests are counted.
`BurstsBounded` follows by counting: a set of numbers no two of which are k apart has at
most k members.

Only model-checked: liveness (`PendingWorkDrains`, `ProcessingEnds`), which rests on
fairness and ENABLED and is out of the prover's reach, and the five counterexamples.

## 6. Plan

Done: all the components of section 1 that keep state, the abstract gate of repair,
and a proof of each safety property that holds. To come:

1. Action properties that the invariants of section 5 make provable and no run states
   yet: the history of a template (`versions`) only grows, an ended session stays
   ended, a recorded delivery keeps its outcome.
2. An abstract specification of ingestion, in which a delivery becomes work or is
   dropped once, and of a processed run, which publishes at most once and only what
   was accepted, with refinements like that of `RepairGate`.
3. `Processing` with heartbeats, which the queue offers and `RunQueue` does not call:
   the proofs should carry over, since `QueueInv` covers them.

## 7. Not modelled

* Metrics, telemetry, migrations, the SCM fixture and the web front end keep no state
  that the protocol depends on. Of the configuration only the dependencies between
  features matter (`Webhooks!Level`).
* The endpoints by which an operator starts, follows and cancels an execution of its
  own (`httpserver/execution.go`): they keep no rows. Their cancellation of a
  processor's execution is `CancelExecution`.
* Retention of audit rows, deliveries and the outbox: no operation decides anything by
  those rows. A delivery whose row is gone is recorded again when it is sent again; its
  work is found by its source key, as always.
* Audit rows, which are written after the transaction they record and whose errors are
  ignored (`approvals/service.go:183`): nothing reads them to act on them. `Sweep` of the
  rate limiter, which nothing in the server calls (`ratelimit/limiter.go:95`).
* Liveness of the whole repair pipeline: a crash that leaves a row in `patching`, or
  a consumption whose retry is refused, strands a repair. The steps are in `Repair`,
  the safety of them is proved, and no fairness is stated for it.
