------------------------------- MODULE Webhooks -------------------------------
(***************************************************************************)
(* Ingestion of webhooks: Server.handleWebhook with the services it calls  *)
(* for reviews, diagnoses, repairs and automations.                        *)
(*                                                                         *)
(* A request is handled by its own goroutine, one transaction at a time,   *)
(* so requests interleave between any two of its steps and a crash of the  *)
(* server cuts it off anywhere.  The provider may send a delivery again at *)
(* any time, whether it was acknowledged or not, and while the first copy  *)
(* is still being handled.  Requests that VerifyWebhook rejects change     *)
(* nothing and are left out; a step may fail because the database does.    *)
(* The row of issue_repairs belongs to module Repair.                      *)
(***************************************************************************)
EXTENDS Automations

CONSTANTS
  Handler,  \* the requests that may be in progress at once
  TaskOf,   \* TaskOf[d]: the task with the source key of delivery d's event
  Scenario  \* bound: the levels, the deliveries sent and the tasks posted that are
            \* explored together

ASSUME WebhookAssumption ==
  /\ None \notin Key
  /\ Scenario \subseteq [level : {2, 5, 6, 8, 9}, sent : [Handler -> SUBSET Key],
                          posted : SUBSET Task]
  /\ \A d \in Key : /\ TaskOf[d] \in Task
                    /\ EventOf[d].event = "pull_request" => PullOf[TaskOf[d]] # None

VARIABLES
  level,     \* the highest feature enabled: each needs the ones below it
  sent,      \* sent[h]: the deliveries that request h may carry, any of them again and again
  posted,    \* the tasks that users may create themselves
  at,        \* at[h]: where request h is in handleWebhook
  delivery,  \* delivery[h]: the delivery it handles
  pending,   \* pending[h]: the matched templates it has not triggered yet
  recorded   \* recorded[d]: "no", or what d's row in webhook_deliveries was
             \* acknowledged as when it was inserted

handlers == <<at, delivery, pending>>
webhookVars == <<level, sent, posted, handlers, recorded>>
ingestionVars == <<vars, automationVars, webhookVars>>

\* M2 connections, M5 code review, M6 diagnosis, M8 repair and M9 automations, as
\* config.Load accepts them (the others add nothing to ingestion).
Level == {2, 5, 6, 8, 9}

\* Some feature handles the deliveries of GitHub; those of GitLab nobody handles.
Handled(d) == level >= 5 /\ EventOf[d].provider = "github"

\* The events that become tasks when templates do not decide.
Reviewable(e) == /\ e.event = "pull_request"
                 /\ e.action \in {"opened", "reopened", "synchronize", "ready_for_review"}
Diagnosable(e) == /\ e.event = "workflow_run" /\ e.action = "completed"
                  /\ e.conclusion \in {"failure", "timed_out", "action_required"}
Repairable(e) == e.event = "issues" /\ e.action \in {"opened", "reopened"}

\* What the services enabled at this level make a task of.
Work(e) == \/ level >= 5 /\ Reviewable(e)
           \/ level >= 6 /\ Diagnosable(e)
           \/ level >= 8 /\ Repairable(e)

\* Request h begins with delivery d, whose first transaction this is.
Take(h, d, place) ==
  /\ at[h] = "idle" /\ d \in sent[h]
  /\ at' = [at EXCEPT ![h] = place]
  /\ delivery' = [delivery EXCEPT ![h] = d]
  /\ UNCHANGED <<level, sent, posted, recorded, automationVars>>

Goto(h, place) ==
  /\ at' = [at EXCEPT ![h] = place]
  /\ UNCHANGED <<level, sent, posted, delivery, pending, recorded, automationVars>>

\* The request is answered; nothing of it remains.
Answer(h) ==
  /\ at' = [at EXCEPT ![h] = "idle"]
  /\ delivery' = [delivery EXCEPT ![h] = None]
  /\ pending' = [pending EXCEPT ![h] = {}]
  /\ UNCHANGED <<level, sent, posted, automationVars>>

\* Create of the task service: an existing row is returned as it is.
CreateOrGet(t) == IF Exists(t) THEN UNCHANGED vars ELSE CreateTask(t)

-----------------------------------------------------------------------------
(* Without automations: review, then diagnosis, then repair.  A service    *)
(* whose first transaction fails is answered with an error, no step; but   *)
(* the error of the review service is lost if diagnosis is enabled, whose  *)
(* answer overwrites it, and the delivery is acknowledged as ignored.      *)

Review(h, d) ==
  /\ Handled(d) /\ level < 9 /\ Reviewable(EventOf[d])
  /\ \/ Take(h, d, "supersede") /\ CreateOrGet(TaskOf[d])
     \/ level >= 6 /\ Take(h, d, "record ignored") /\ UNCHANGED vars
  /\ UNCHANGED pending

\* Mutant: only the review service's first commit of a head supersedes others.
ReviewSupersedeOnce(h) ==
  /\ at[h] = "supersede"
  /\ IF status[TaskOf[delivery[h]]] = "queued"
     THEN SupersedeCodeReviews(TaskOf[delivery[h]]) ELSE UNCHANGED vars
  /\ Goto(h, "record created")

ReviewSupersede(h) ==
  /\ at[h] = "supersede"
  /\ SupersedeCodeReviews(TaskOf[delivery[h]])
  /\ Goto(h, "record created")

ReviewSupersedeFails(h) ==
  /\ at[h] = "supersede"
  /\ IF level >= 6 THEN Goto(h, "record ignored") ELSE Answer(h) /\ UNCHANGED recorded
  /\ UNCHANGED vars

\* Mutant: a diagnosis that fails is acknowledged like an unsupported event.
DiagnosisForgivesErrors(h, d) ==
  /\ level \in {6, 8} /\ Diagnosable(EventOf[d])
  /\ \/ Take(h, d, "record created") /\ CreateOrGet(TaskOf[d])
     \/ Take(h, d, "record ignored") /\ UNCHANGED vars
  /\ UNCHANGED pending

Diagnosis(h, d) ==
  /\ Handled(d) /\ level \in {6, 8} /\ Diagnosable(EventOf[d])
  /\ Take(h, d, "record created")
  /\ CreateOrGet(TaskOf[d])
  /\ UNCHANGED pending

\* The repository must be known, an actor and the base commit found and the
\* issue valid, before CreateFromIssue creates the task and then the repair.
Repair(h, d) ==
  /\ Handled(d) /\ level = 8 /\ Repairable(EventOf[d])
  /\ Take(h, d, "repair row")
  /\ CreateOrGet(TaskOf[d])
  /\ UNCHANGED pending

RepairRow(h) ==
  /\ at[h] = "repair row"
  /\ Goto(h, "record created") \/ (Answer(h) /\ UNCHANGED recorded)
  /\ UNCHANGED vars

Ignore(h, d) ==
  /\ Handled(d) /\ level < 9 /\ ~Work(EventOf[d])
  /\ Take(h, d, "record ignored")
  /\ UNCHANGED <<pending, vars>>

-----------------------------------------------------------------------------
(* With automations, templates are the sole scheduling authority.          *)

\* The templates that match are read here and triggered one after the other.
Matching(h, d) ==
  LET matched == {a \in Template : Matches(a, EventOf[d])}
  IN /\ Handled(d) /\ level = 9
     /\ Take(h, d, IF matched = {} THEN "record ignored" ELSE "trigger")
     /\ pending' = [pending EXCEPT ![h] = matched]
     /\ UNCHANGED vars

\* One turn of the loop over the matched templates.  The webhook passes the
\* provider's repository id, a number, which Trigger cannot cast to the uuid of
\* a repository: only a key that is already scheduled gets past Trigger, and
\* BindAutomationTask is never reached.
TriggerMatched(h) ==
  /\ at[h] = "trigger"
  /\ \E a \in pending[h] :
       IF TriggerAnswer(a, delivery[h], FALSE) = "duplicate"
       THEN /\ pending' = [pending EXCEPT ![h] = @ \ {a}]
            /\ at' = [at EXCEPT ![h] = IF pending[h] = {a} THEN "record created" ELSE @]
            /\ UNCHANGED <<level, sent, posted, delivery, recorded, automationVars>>
       ELSE Answer(h) /\ UNCHANGED recorded
  /\ UNCHANGED vars

-----------------------------------------------------------------------------
\* HandleWebhook of the SCM service: what nobody handles is recorded, no more.
HandleWebhook(h, d) ==
  /\ ~Handled(d)
  /\ Take(h, d, "record ignored")
  /\ UNCHANGED <<pending, vars>>

\* RecordWebhook: the delivery and its outbox event in one transaction, last.
\* A delivery that is already recorded stays as it is.
Record(h) ==
  /\ at[h] \in {"record created", "record ignored"}
  /\ Answer(h)
  /\ \/ recorded' = [recorded EXCEPT ![delivery[h]] =
                       IF @ # "no" THEN @
                       ELSE IF at[h] = "record created" THEN "created" ELSE "ignored"]
     \/ UNCHANGED recorded
  /\ UNCHANGED vars

\* The server dies, and with it every request.
CrashServer ==
  /\ \E h \in Handler : at[h] # "idle"
  /\ at' = [h \in Handler |-> "idle"]
  /\ delivery' = [h \in Handler |-> None]
  /\ pending' = [h \in Handler |-> {}]
  /\ UNCHANGED <<level, sent, posted, recorded, vars, automationVars>>

-----------------------------------------------------------------------------
IngestionInit ==
  /\ Init
  /\ AutomationInit
  /\ \E s \in Scenario : level = s.level /\ sent = s.sent /\ posted = s.posted
  /\ at = [h \in Handler |-> "idle"]
  /\ delivery = [h \in Handler |-> None]
  /\ pending = [h \in Handler |-> {}]
  /\ recorded = [d \in Key |-> "no"]

HandlerStep ==
  \E h \in Handler :
    \/ \E d \in Key : \/ Review(h, d) \/ Diagnosis(h, d) \/ Repair(h, d)
                      \/ Ignore(h, d) \/ Matching(h, d) \/ HandleWebhook(h, d)
    \/ ReviewSupersede(h) \/ ReviewSupersedeFails(h) \/ RepairRow(h)
    \/ TriggerMatched(h) \/ Record(h)

\* A user creates a task at the API, at any level and with any source key: that of
\* an event is taken as it is from the request body, and createRepair gives the task
\* of an issue the key that the issue's webhook gives it.  A task that exists is
\* returned, no step.  The row of a repair belongs to module Repair.
PostTask(t) == level >= 5 /\ t \in posted /\ CreateTask(t)

\* The tasks run while webhooks arrive and users work with them.  Leases and crashes
\* of workers, which TaskQueue explores, bring a task to no status that it does not
\* reach without them.
QueueStep ==
  /\ \/ \E t \in Task : PostTask(t) \/ CancelTask(t) \/ RetryTask(t)
     \/ \E w \in Worker : \/ \E t \in Task : ClaimTask(w, t)
                          \/ \E s \in Outcome : Process(w, s)
                          \/ CompleteTask(w) \/ Restart(w)
  /\ UNCHANGED <<automationVars, webhookVars>>

IngestionNext ==
  \/ HandlerStep
  \/ CrashServer
  \/ level = 9 /\ AutomationNext /\ UNCHANGED webhookVars
  \/ QueueStep

IngestionSpec == IngestionInit /\ [][IngestionNext]_ingestionVars

-----------------------------------------------------------------------------
(* Properties.                                                             *)

Place == {"idle", "supersede", "repair row", "trigger", "record created",
          "record ignored"}

\* Every variable of templates, requests and deliveries keeps to its type.
IngestionTypeOK ==
  /\ AutomationTypeOK
  /\ level \in Level
  /\ sent \in [Handler -> SUBSET Key]
  /\ posted \subseteq Task
  /\ at \in [Handler -> Place]
  /\ delivery \in [Handler -> Key \cup {None}]
  /\ pending \in [Handler -> SUBSET Template]
  /\ recorded \in [Key -> {"no", "created", "ignored"}]
  /\ \A h \in Handler : at[h] = "idle" <=> delivery[h] = None

\* The work that delivery d stands for is there: the event's task or, where
\* templates decide, that of a template.
WorkExists(d) ==
  IF level < 9 THEN Exists(TaskOf[d]) ELSE \E a \in Template : Exists(TriggeredTask[a][d])

\* An acknowledged delivery is not lost work, however requests interleave, fail
\* or are cut off.  If its row says that work was created the work is there; and
\* if GitHub's was acknowledged as ignored although it calls for work, templates
\* decided so, or it is a pull request whose error diagnosis has overwritten.
AcknowledgedIsHandled ==
  \A d \in Key :
    /\ recorded[d] = "created" => WorkExists(d)
    /\ recorded[d] = "ignored" /\ EventOf[d].provider = "github" /\ Work(EventOf[d])
         => level = 9 \/ (level >= 6 /\ Reviewable(EventOf[d]))

\* One review per pull request: of two heads whose deliveries were acknowledged
\* as reviews, at least one is superseded, whatever the order of the four steps
\* and whichever of them a crash made the provider send again.
OneReviewPerPull ==
  \A d, e \in {k \in Key : recorded[k] = "created" /\ Reviewable(EventOf[k])} :
    level < 9 /\ TaskOf[d] # TaskOf[e] /\ PullOf[TaskOf[d]] = PullOf[TaskOf[e]]
      => "superseded" \in {status[TaskOf[d]], status[TaskOf[e]]}

-----------------------------------------------------------------------------
(* What the repository says of ingestion and the code does not do.         *)

\* "newer commits supersede prior review tasks": the reviews of a pull request
\* are never all superseded, the newest one stands.
NewestReviewStands ==
  \A t \in Task : PullOf[t] # None /\ Exists(t)
    => \E u \in Task : PullOf[u] = PullOf[t] /\ status[u] \notin {"absent", "superseded"}
=============================================================================
