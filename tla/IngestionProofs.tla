--------------------------- MODULE IngestionProofs ---------------------------
(***************************************************************************)
(* Proofs that webhooks and templates use the queue by its operations      *)
(* only, and that the safety properties of Automations and Webhooks hold   *)
(* for every set of templates, administrators, configurations, deliveries, *)
(* requests, tasks and workers.                                            *)
(***************************************************************************)
EXTENDS Webhooks, TaskQueueProofs, FiniteSetTheorems

-----------------------------------------------------------------------------
(* The invariant of templates.                                             *)

\* A live row is a valid configuration and has a revision.
LiveRowsValid ==
  \A a \in Template :
    /\ Live(a) => /\ template[a].config \in Config /\ Validate(template[a].config)
                  /\ template[a].revision > 0
    /\ ~Live(a) => /\ template[a].revision = 0 /\ template[a].version = 0
                   /\ ~template[a].enabled

\* The version of a row counts its published versions.
VersionsCounted == \A a \in Template : Len(versions[a]) = template[a].version

\* What an enabled row does is what its last version says.
EnabledIsLastVersion ==
  \A a \in Template :
    template[a].enabled =>
      /\ template[a].version > 0
      /\ versions[a][template[a].version].enabled
      /\ versions[a][template[a].version].config = template[a].config

\* What an administrator has open is never ahead of the row.
CopiesBehind ==
  \A u \in Admin, a \in Template :
    opened[u].template = a =>
      /\ opened[u].row.revision > 0
      /\ Live(a) => opened[u].row.revision <= template[a].revision
      /\ ~Live(a) => template[a].state = "deleted"

\* The runs are finitely many, and the task of each, which is the one with the
\* source key of its template and its trigger key, exists.
RunsHaveTasks ==
  /\ IsFiniteSet(scheduled)
  /\ \A r \in scheduled : r.task = TriggeredTask[r.template][r.key] /\ Exists(r.task)

\* The inductive invariant of templates.
TemplateInv ==
  /\ AutomationTypeOK /\ LiveRowsValid /\ VersionsCounted /\ EnabledIsLastVersion
  /\ CopiesBehind /\ RunsHaveTasks
  /\ RunsMatchTheirVersion /\ RevisionIdentifiesRow

-----------------------------------------------------------------------------
(* The invariant of requests.                                              *)

\* The variables of requests keep to their types.
RequestTypes ==
  /\ level \in Level
  /\ sent \in [Handler -> SUBSET Key]
  /\ posted \subseteq Task
  /\ at \in [Handler -> Place]
  /\ delivery \in [Handler -> Key \cup {None}]
  /\ pending \in [Handler -> SUBSET Template]
  /\ recorded \in [Key -> {"no", "created", "ignored"}]
  /\ \A h \in Handler : at[h] = "idle" <=> delivery[h] = None

\* Delivery d may be acknowledged as ignored.
MayIgnore(d) ==
  EventOf[d].provider = "github" /\ Work(EventOf[d])
    => level = 9 \/ (level >= 6 /\ Reviewable(EventOf[d]))

\* What a request has done where it is.
PlaceMeans(place, d) ==
  /\ place = "supersede" => level < 9 /\ Exists(TaskOf[d]) /\ Reviewable(EventOf[d])
  /\ place = "repair row" => level < 9 /\ Exists(TaskOf[d]) /\ ~Reviewable(EventOf[d])
  /\ place = "trigger" => level = 9
  /\ place = "record created" => WorkExists(d)
  /\ place = "record ignored" => MayIgnore(d)

PlacesMean == \A h \in Handler : at[h] # "idle" => PlaceMeans(at[h], delivery[h])

\* Acknowledged as work, or about to be: the reviews that have superseded others.
Created(d) ==
  \/ recorded[d] = "created"
  \/ \E h \in Handler : at[h] = "record created" /\ delivery[h] = d

OneReviewCreated ==
  \A d, e \in Key :
    /\ level < 9 /\ Created(d) /\ Created(e)
    /\ Reviewable(EventOf[d]) /\ Reviewable(EventOf[e])
    /\ TaskOf[d] # TaskOf[e] /\ PullOf[TaskOf[d]] = PullOf[TaskOf[e]]
    => "superseded" \in {status[TaskOf[d]], status[TaskOf[e]]}

\* The inductive invariant of requests.
RequestInv ==
  /\ RequestTypes /\ PlacesMean /\ OneReviewCreated
  /\ AcknowledgedIsHandled

\* The inductive invariant of ingestion.
IngestionInv == QueueInv /\ TemplateInv /\ RequestInv

-----------------------------------------------------------------------------
(* What the queue does to the status of a task.                            *)

\* A task that exists stays, and one that is superseded stays superseded.
LEMMA StatusStable ==
  ASSUME QueueInv, [Next]_vars, NEW t \in Task
  PROVE  /\ Exists(t) => Exists(t)'
         /\ status[t] = "superseded" => status'[t] = "superseded"
  <1> USE DEF QueueInv, Exists
  <1>1. CASE \E u \in Task : CreateTask(u) \/ CancelTask(u) \/ RetryTask(u)
    BY <1>1, TransitionFacts DEF CreateTask, CancelTask, RetryTask, TypeOK
  <1>2. CASE \E u \in Task : SupersedeCodeReviews(u)
    BY <1>2 DEF SupersedeCodeReviews
  <1>3. CASE \E w \in Worker, u \in Task : ClaimTask(w, u)
    BY <1>3 DEF ClaimTask, Claimable, TypeOK
  <1>4. CASE \E w \in Worker : CompleteTask(w)
    <2>1. PICK w \in Worker : CompleteTask(w)
      BY <1>4
    <2>2. \/ status' = status
          \/ /\ job[w].task \in Task /\ status[job[w].task] = "running"
             /\ job[w].outcome \in Outcome
             /\ status' = [status EXCEPT ![job[w].task] = job[w].outcome]
      BY <2>1, CommitFacts
    <2> QED
      BY <2>2 DEF TypeOK, Outcome
  <1>5. CASE \/ \E u \in Task : LeaseExpires(u)
             \/ \E w \in Worker : \/ \E s \in Outcome : Process(w, s)
                                  \/ Heartbeat(w) \/ Crash(w) \/ Restart(w)
             \/ UNCHANGED vars
    BY <1>5 DEF LeaseExpires, Process, Heartbeat, Crash, Restart, taskRows, vars
  <1> QED
    BY <1>1, <1>2, <1>3, <1>4, <1>5 DEF Next, TaskStep, WorkerStep

\* So the work of a delivery stays.
LEMMA WorkStays ==
  ASSUME QueueInv, [Next]_vars, level' = level, NEW d \in Key, WorkExists(d)
  PROVE  WorkExists(d)'
  <1>1. TaskOf[d] \in Task /\ \A a \in Template : TriggeredTask[a][d] \in Task
    BY WebhookAssumption, AutomationAssumption
  <1>2. \A t \in Task : Exists(t) => Exists(t)'
    BY StatusStable
  <1> QED
    BY <1>1, <1>2 DEF WorkExists

-----------------------------------------------------------------------------
(* Templates: each operation preserves TemplateInv.                        *)

\* At the start there is no template.
LEMMA TemplateInit == AutomationInit => TemplateInv
  <1> SUFFICES ASSUME AutomationInit PROVE TemplateInv
    OBVIOUS
  <1> USE DEF AutomationInit
  <1>1. MaxRevision \in Nat /\ None \notin Template
    BY AutomationAssumption
  <1>2. NoRow \in Row /\ NoRow.revision = 0 /\ NoRow.version = 0 /\ NoRow.enabled = FALSE
        /\ NoRow.state = "absent"
    BY <1>1 DEF NoRow, Row
  <1>3. AutomationTypeOK
    <2>1. template \in [Template -> Row] /\ opened \in [Admin -> [template : Template \cup {None},
                                                                row : Row]]
      BY <1>2 DEF NothingOpen
    <2>2. versions \in [Template -> Seq([enabled : BOOLEAN, config : Config])]
      OBVIOUS
    <2> QED
      BY <2>1, <2>2 DEF AutomationTypeOK
  <1>4. LiveRowsValid /\ VersionsCounted /\ EnabledIsLastVersion
    BY <1>2 DEF LiveRowsValid, VersionsCounted, EnabledIsLastVersion, Live
  <1>5. CopiesBehind /\ RevisionIdentifiesRow
    BY <1>1 DEF CopiesBehind, RevisionIdentifiesRow, NothingOpen
  <1>6. RunsHaveTasks /\ RunsMatchTheirVersion
    BY FS_EmptySet DEF RunsHaveTasks, RunsMatchTheirVersion
  <1> QED
    BY <1>3, <1>4, <1>5, <1>6 DEF TemplateInv

\* A step of the queue or of a request leaves templates alone.
LEMMA TemplatesAlone ==
  ASSUME TemplateInv, UNCHANGED automationVars,
         \A t \in Task : Exists(t) => Exists(t)'
  PROVE  TemplateInv'
  <1> USE DEF TemplateInv
  <1>1. UNCHANGED <<template, versions, scheduled, opened>>
    BY DEF automationVars
  <1>2. AutomationTypeOK' /\ LiveRowsValid' /\ VersionsCounted' /\ EnabledIsLastVersion'
    BY <1>1 DEF AutomationTypeOK, LiveRowsValid, VersionsCounted, EnabledIsLastVersion,
                Live
  <1>3. CopiesBehind' /\ RevisionIdentifiesRow' /\ RunsMatchTheirVersion'
    BY <1>1 DEF CopiesBehind, RevisionIdentifiesRow, RunsMatchTheirVersion, Live
  <1>4. RunsHaveTasks'
    <2>1. \A r \in scheduled : r.task \in Task
      BY DEF AutomationTypeOK
    <2> QED
      BY <1>1, <2>1 DEF RunsHaveTasks
  <1> QED
    BY <1>2, <1>3, <1>4

\* Reading a row gives the current one.
LEMMA OpenInv ==
  ASSUME TemplateInv, NEW u \in Admin, NEW a \in Template, Open(u, a)
  PROVE  TemplateInv'
  <1> USE DEF TemplateInv
  <1>1. /\ Live(a)
        /\ opened' = [opened EXCEPT ![u] = [template |-> a, row |-> template[a]]]
        /\ UNCHANGED <<template, versions, scheduled, status>>
    BY DEF Open, vars, taskRows
  <1>2. AutomationTypeOK'
    BY <1>1 DEF AutomationTypeOK
  <1>3. LiveRowsValid' /\ VersionsCounted' /\ EnabledIsLastVersion' /\ RunsMatchTheirVersion'
        /\ RunsHaveTasks'
    BY <1>1 DEF LiveRowsValid, VersionsCounted, EnabledIsLastVersion, RunsMatchTheirVersion,
                RunsHaveTasks, Live, Exists
  <1>4. /\ opened'[u].template = a /\ opened'[u].row = template[a]
        /\ \A v \in Admin : v # u => opened'[v] = opened[v]
    BY <1>1 DEF AutomationTypeOK
  <1>5. template[a].revision \in Nat
    BY AutomationAssumption DEF AutomationTypeOK, Row
  <1>6. CopiesBehind'
    BY <1>1, <1>4, <1>5 DEF CopiesBehind, LiveRowsValid, Live
  <1>7. RevisionIdentifiesRow'
    BY <1>1, <1>4 DEF RevisionIdentifiesRow
  <1> QED
    BY <1>2, <1>3, <1>6, <1>7

\* A new row is one revision ahead of all copies.
LEMMA WriteFacts ==
  ASSUME TemplateInv, NEW u \in Admin, NEW a \in Template, NEW row \in Row,
         Write(u, a, row), row.state = "live", row.config \in Config, Validate(row.config),
         row.revision > 0,
         \/ template[a].state = "absent"
         \/ Live(a) /\ row.revision = template[a].revision + 1
  PROVE  /\ template' \in [Template -> Row]
         /\ opened' \in [Admin -> [template : Template \cup {None}, row : Row]]
         /\ template'[a] = row /\ \A b \in Template : b # a => template'[b] = template[b]
         /\ LiveRowsValid' /\ CopiesBehind' /\ RevisionIdentifiesRow'
  <1> USE DEF TemplateInv
  <1>1. /\ template' = [template EXCEPT ![a] = row]
        /\ opened' = [opened EXCEPT ![u] = [template |-> a, row |-> row]]
    BY DEF Write
  <1>2. /\ template' \in [Template -> Row]
        /\ opened' \in [Admin -> [template : Template \cup {None}, row : Row]]
        /\ template'[a] = row /\ \A b \in Template : b # a => template'[b] = template[b]
    BY <1>1 DEF AutomationTypeOK
  <1>3. LiveRowsValid'
    BY <1>2 DEF LiveRowsValid, Live
  <1>4. /\ opened'[u].template = a /\ opened'[u].row = row
        /\ \A v \in Admin : v # u => opened'[v] = opened[v]
    BY <1>1 DEF AutomationTypeOK
  <1>5. /\ row.revision \in Nat /\ template[a].revision \in Nat
        /\ \A v \in Admin : opened[v].row.revision \in Nat
    BY AutomationAssumption DEF AutomationTypeOK, Row
  <1>6. \A v \in Admin : opened[v].template = a
                           => /\ opened[v].row.revision > 0
                              /\ opened[v].row.revision < row.revision
    BY <1>5 DEF CopiesBehind, Live
  <1>7. CopiesBehind'
    <2> SUFFICES ASSUME NEW v \in Admin, NEW b \in Template, opened'[v].template = b
                 PROVE  /\ opened'[v].row.revision > 0
                        /\ Live(b)' => opened'[v].row.revision <= template'[b].revision
                        /\ ~Live(b)' => template'[b].state = "deleted"
      BY DEF CopiesBehind
    <2>1. CASE b = a
      BY <2>1, <1>2, <1>4, <1>5, <1>6 DEF Live
    <2>2. CASE b # a
      BY <2>2, <1>2, <1>4 DEF CopiesBehind, Live
    <2> QED
      BY <2>1, <2>2
  <1>8. RevisionIdentifiesRow'
    <2> SUFFICES ASSUME NEW v \in Admin, NEW b \in Template, opened'[v].template = b,
                        opened'[v].row.revision = template'[b].revision
                 PROVE  opened'[v].row = template'[b]
      BY DEF RevisionIdentifiesRow
    <2>1. CASE b = a
      BY <2>1, <1>2, <1>4, <1>5, <1>6
    <2>2. CASE b # a
      BY <2>2, <1>2, <1>4 DEF RevisionIdentifiesRow
    <2> QED
      BY <2>1, <2>2
  <1> QED
    BY <1>2, <1>3, <1>7, <1>8

\* A draft that is written leaves versions and runs alone.
LEMMA DraftInv ==
  ASSUME TemplateInv, NEW u \in Admin, NEW a \in Template, NEW row \in Row,
         Write(u, a, row), row.state = "live", row.config \in Config, Validate(row.config),
         row.revision > 0, ~row.enabled, row.version = template[a].version,
         \/ template[a].state = "absent"
         \/ Live(a) /\ row.revision = template[a].revision + 1,
         UNCHANGED <<vars, versions, scheduled>>
  PROVE  TemplateInv'
  <1> USE DEF TemplateInv
  <1>1. /\ template' \in [Template -> Row]
        /\ opened' \in [Admin -> [template : Template \cup {None}, row : Row]]
        /\ template'[a] = row /\ \A b \in Template : b # a => template'[b] = template[b]
        /\ LiveRowsValid' /\ CopiesBehind' /\ RevisionIdentifiesRow'
    BY WriteFacts
  <1>2. status' = status
    BY DEF vars, taskRows
  <1>3. AutomationTypeOK'
    BY <1>1 DEF AutomationTypeOK
  <1>4. VersionsCounted' /\ EnabledIsLastVersion'
    BY <1>1 DEF VersionsCounted, EnabledIsLastVersion
  <1>5. RunsMatchTheirVersion' /\ RunsHaveTasks'
    BY <1>2 DEF RunsMatchTheirVersion, RunsHaveTasks, Exists
  <1> QED
    BY <1>1, <1>3, <1>4, <1>5

\* A new template starts as a draft, under an id that nobody has open.
LEMMA CreateTemplateInv ==
  ASSUME TemplateInv, NEW u \in Admin, NEW a \in Template, NEW c \in Config, Create(u, a, c)
  PROVE  TemplateInv'
  <1> DEFINE row == [state |-> "live", enabled |-> FALSE, version |-> 0, revision |-> 1,
                     config |-> c]
  <1>1. /\ Validate(c) /\ template[a].state = "absent" /\ Write(u, a, row)
        /\ UNCHANGED <<vars, versions, scheduled>>
    BY DEF Create
  <1>2. row \in Row
    BY AutomationAssumption DEF Row
  <1>3. template[a].version = 0
    BY <1>1 DEF TemplateInv, LiveRowsValid, Live
  <1> QED
    BY <1>1, <1>2, <1>3, DraftInv

\* A draft is edited only at the revision that the editor has seen.
LEMMA UpdateDraftInv ==
  ASSUME TemplateInv, NEW u \in Admin, NEW a \in Template, NEW n, NEW c \in Config,
         UpdateDraft(u, a, n, c)
  PROVE  TemplateInv'
  <1> DEFINE row == [template[a] EXCEPT !.config = c, !.revision = n + 1]
  <1>1. /\ Validate(c) /\ n > 0 /\ Live(a) /\ template[a].revision = n
        /\ ~template[a].enabled /\ n < MaxRevision /\ Write(u, a, row)
        /\ UNCHANGED <<vars, versions, scheduled>>
    BY DEF UpdateDraft
  <1>2. template[a] \in Row
    BY DEF TemplateInv, AutomationTypeOK
  <1>3. n \in Nat /\ n + 1 \in 0 .. MaxRevision
    BY <1>1, <1>2, AutomationAssumption DEF Row
  <1>4. /\ row \in Row /\ row.state = "live" /\ row.config = c /\ row.revision = n + 1
        /\ row.version = template[a].version /\ row.enabled = template[a].enabled
    BY <1>1, <1>2, <1>3 DEF Row, Live
  <1>5. row.revision > 0
    BY <1>3, <1>4
  <1> HIDE DEF row
  <1> QED
    BY <1>1, <1>4, <1>5, DraftInv

\* A publication appends the version that the row now has; the old ones stay.
LEMMA PublishLockedInv ==
  ASSUME TemplateInv, NEW u \in Admin, NEW a \in Template, NEW enabled \in BOOLEAN, Live(a),
         PublishLocked(u, a, enabled)
  PROVE  TemplateInv'
  <1> USE DEF TemplateInv
  <1> DEFINE row == [template[a] EXCEPT !.enabled = enabled, !.version = @ + 1,
                                        !.revision = @ + 1]
             new == [enabled |-> enabled, config |-> template[a].config]
  <1>1. template[a] \in Row /\ MaxRevision \in Nat
    BY AutomationAssumption DEF AutomationTypeOK
  <1>2. /\ row.state = "live" /\ row.config = template[a].config /\ row.enabled = enabled
        /\ row.revision = template[a].revision + 1
        /\ row.version = template[a].version + 1
    BY <1>1 DEF Row, Live
  <1>3. /\ row.revision <= MaxRevision /\ Write(u, a, row)
        /\ versions' = [versions EXCEPT ![a] = Append(@, new)]
        /\ UNCHANGED <<vars, scheduled>>
    BY <1>2 DEF PublishLocked
  <1>4. row \in Row /\ row.revision > 0
    <2>1. /\ template[a].revision + 1 \in 0 .. MaxRevision
          /\ template[a].revision + 1 > 0
          /\ template[a].version + 1 \in Nat
      BY <1>1, <1>2, <1>3 DEF Row
    <2> QED
      BY <1>1, <1>2, <2>1 DEF Row
  <1> HIDE DEF row
  <1>5. template[a].config \in Config /\ Validate(template[a].config)
    BY DEF LiveRowsValid
  <1>6. /\ template' \in [Template -> Row]
        /\ opened' \in [Admin -> [template : Template \cup {None}, row : Row]]
        /\ template'[a] = row /\ \A b \in Template : b # a => template'[b] = template[b]
        /\ LiveRowsValid' /\ CopiesBehind' /\ RevisionIdentifiesRow'
    BY <1>2, <1>3, <1>4, <1>5, WriteFacts
  <1>7. status' = status
    BY <1>3 DEF vars, taskRows
  <1>8. new \in [enabled : BOOLEAN, config : Config]
    BY <1>5
  <1> HIDE DEF new
  <1>9. /\ versions[a] \in Seq([enabled : BOOLEAN, config : Config])
        /\ versions'[a] = Append(versions[a], new)
        /\ \A b \in Template : b # a => versions'[b] = versions[b]
    BY <1>3 DEF AutomationTypeOK
  <1>10. /\ versions'[a] \in Seq([enabled : BOOLEAN, config : Config])
         /\ Len(versions'[a]) = Len(versions[a]) + 1
         /\ versions'[a][Len(versions[a]) + 1] = new
         /\ \A i \in DOMAIN versions[a] : /\ i \in DOMAIN versions'[a]
                                          /\ versions'[a][i] = versions[a][i]
    BY <1>8, <1>9
  <1>11. AutomationTypeOK'
    <2>1. versions' \in [Template -> Seq([enabled : BOOLEAN, config : Config])]
      BY <1>3, <1>9, <1>10 DEF AutomationTypeOK
    <2> QED
      BY <1>3, <1>6, <2>1 DEF AutomationTypeOK
  <1>12. VersionsCounted'
    BY <1>2, <1>6, <1>9, <1>10 DEF VersionsCounted
  <1>13. EnabledIsLastVersion'
    <2> SUFFICES ASSUME NEW b \in Template, template'[b].enabled
                 PROVE  /\ template'[b].version > 0
                        /\ versions'[b][template'[b].version].enabled
                        /\ versions'[b][template'[b].version].config = template'[b].config
      BY DEF EnabledIsLastVersion
    <2>1. CASE b = a
      <3>1. template[a].version \in Nat /\ Len(versions[a]) = template[a].version
        BY <1>1 DEF VersionsCounted, Row
      <3>2. new.enabled = enabled /\ new.config = template[a].config
        BY DEF new
      <3> QED
        BY <2>1, <3>1, <3>2, <1>2, <1>6, <1>10
    <2>2. CASE b # a
      BY <2>2, <1>6, <1>9 DEF EnabledIsLastVersion
    <2> QED
      BY <2>1, <2>2
  <1>14. RunsMatchTheirVersion'
    <2> SUFFICES ASSUME NEW r \in scheduled
                 PROVE  /\ r.version \in DOMAIN versions[r.template]
                        /\ r.version \in DOMAIN versions'[r.template]
                        /\ versions'[r.template][r.version] = versions[r.template][r.version]
      BY <1>3 DEF RunsMatchTheirVersion
    <2>1. r.version \in DOMAIN versions[r.template] /\ r.template \in Template
      BY DEF RunsMatchTheirVersion, AutomationTypeOK
    <2> QED
      BY <2>1, <1>9, <1>10
  <1>15. RunsHaveTasks'
    BY <1>3, <1>7 DEF RunsHaveTasks, Exists
  <1> QED
    BY <1>6, <1>11, <1>12, <1>13, <1>14, <1>15

\* A template is deleted with its versions and its runs.
LEMMA DeleteInv ==
  ASSUME TemplateInv, NEW u \in Admin, NEW a \in Template, NEW n, Delete(u, a, n)
  PROVE  TemplateInv'
  <1> USE DEF TemplateInv
  <1> DEFINE gone == [NoRow EXCEPT !.state = "deleted"]
  <1>1. /\ template' = [template EXCEPT ![a] = gone]
        /\ versions' = [versions EXCEPT ![a] = <<>>]
        /\ scheduled' = {r \in scheduled : r.template # a}
        /\ opened' = [opened EXCEPT ![u] = NothingOpen]
        /\ status' = status
    BY DEF Delete, vars, taskRows
  <1>2. /\ gone \in Row /\ gone.state = "deleted" /\ gone.revision = 0 /\ gone.version = 0
        /\ gone.enabled = FALSE /\ NoRow \in Row
    <2>1. 0 \in 0 .. MaxRevision
      BY AutomationAssumption
    <2> QED
      BY <2>1 DEF NoRow, Row
  <1> HIDE DEF gone
  <1>3. NothingOpen \in [template : Template \cup {None}, row : Row]
        /\ NothingOpen.template \notin Template
    BY <1>2, AutomationAssumption DEF NothingOpen
  <1>4. AutomationTypeOK'
    <2>1. template' \in [Template -> Row]
      BY <1>1, <1>2 DEF AutomationTypeOK
    <2>2. versions' \in [Template -> Seq([enabled : BOOLEAN, config : Config])]
      <3> DEFINE Histories == Seq([enabled : BOOLEAN, config : Config])
      <3>1. <<>> \in Histories
        OBVIOUS
      <3>2. versions \in [Template -> Histories]
        BY DEF AutomationTypeOK
      <3> HIDE DEF Histories
      <3>3. versions' \in [Template -> Histories]
        BY <1>1, <3>1, <3>2
      <3> QED
        BY <3>3 DEF Histories
    <2>3. opened' \in [Admin -> [template : Template \cup {None}, row : Row]]
      BY <1>1, <1>3 DEF AutomationTypeOK
    <2> QED
      BY <1>1, <2>1, <2>2, <2>3 DEF AutomationTypeOK
  <1>5. /\ template'[a] = gone /\ \A b \in Template : b # a => template'[b] = template[b]
        /\ versions'[a] = <<>> /\ \A b \in Template : b # a => versions'[b] = versions[b]
        /\ opened'[u] = NothingOpen /\ \A v \in Admin : v # u => opened'[v] = opened[v]
    BY <1>1 DEF AutomationTypeOK
  <1>6. LiveRowsValid' /\ EnabledIsLastVersion'
    BY <1>2, <1>5 DEF LiveRowsValid, EnabledIsLastVersion, Live
  <1>7. VersionsCounted'
    BY <1>2, <1>5 DEF VersionsCounted
  <1>8. CopiesBehind' /\ RevisionIdentifiesRow'
    BY <1>2, <1>3, <1>5 DEF CopiesBehind, RevisionIdentifiesRow, Live
  <1>9. RunsMatchTheirVersion'
    BY <1>1, <1>5 DEF RunsMatchTheirVersion, AutomationTypeOK
  <1>10. RunsHaveTasks'
    BY <1>1, FS_Subset DEF RunsHaveTasks, Exists
  <1> QED
    BY <1>4, <1>6, <1>7, <1>8, <1>9, <1>10

\* Every request of an administrator preserves the invariant.
LEMMA AdminStepInv ==
  ASSUME TemplateInv, AdminStep
  PROVE  TemplateInv'
  <1>1. PICK u \in Admin, a \in Template :
          \/ Open(u, a)
          \/ \E c \in Config : Create(u, a, c)
          \/ \E r \in Expected(u, a) :
               \/ \E c \in Config : UpdateDraft(u, a, r, c)
               \/ Publish(u, a, r)
               \/ \E enabled \in BOOLEAN : SetEnabled(u, a, r, enabled)
               \/ Delete(u, a, r)
    BY DEF AdminStep
  <1>2. CASE \E r \in Expected(u, a) : \/ Publish(u, a, r)
                                       \/ \E e \in BOOLEAN : SetEnabled(u, a, r, e)
    <2>1. Live(a) /\ \E e \in BOOLEAN : PublishLocked(u, a, e)
      BY <1>2 DEF Publish, SetEnabled, LockTemplate
    <2> QED
      BY <2>1, PublishLockedInv
  <1> QED
    BY <1>1, <1>2, OpenInv, CreateTemplateInv, UpdateDraftInv, DeleteInv

\* What a trigger that schedules has found.
LEMMA TriggerFacts ==
  ASSUME NEW a \in Template, NEW k \in Key, TriggerAnswer(a, k, TRUE) = "scheduled"
  PROVE  /\ Live(a) /\ template[a].enabled /\ Selects(template[a].config, EventOf[k])
         /\ ~(Cardinality(ActiveRuns(a)) >= template[a].config.limit)
  <1>1. Live(a)
    BY DEF TriggerAnswer
  <1>2. template[a].enabled
    BY <1>1 DEF TriggerAnswer
  <1>3. Matches(a, EventOf[k])
    BY <1>1, <1>2 DEF TriggerAnswer
  <1>4. ~(Cardinality(ActiveRuns(a)) >= template[a].config.limit)
    BY <1>1, <1>2, <1>3 DEF TriggerAnswer
  <1> QED
    BY <1>1, <1>2, <1>3, <1>4 DEF Matches

\* The new run names the enabled row's version, which is the last one published.
LEMMA TriggerInv ==
  ASSUME TemplateInv, QueueInv, NEW a \in Template, NEW k \in Key, Trigger(a, k)
  PROVE  TemplateInv'
  <1> USE DEF TemplateInv
  <1> DEFINE t == TriggeredTask[a][k]
             r == [template |-> a, version |-> template[a].version, key |-> k, task |-> t]
  <1>1. /\ CreateTask(t) /\ scheduled' = scheduled \cup {r}
        /\ UNCHANGED <<template, versions, opened>>
    BY DEF Trigger
  <1>2. /\ template[a].enabled /\ Selects(template[a].config, EventOf[k]) /\ Live(a)
    BY TriggerFacts DEF Trigger
  <1>3. /\ template[a].version \in Nat \ {0} /\ t \in Task
        /\ template[a].version = Len(versions[a])
        /\ versions[a][template[a].version].enabled
        /\ versions[a][template[a].version].config = template[a].config
        /\ Validate(template[a].config)
    BY <1>2, AutomationAssumption
       DEF EnabledIsLastVersion, VersionsCounted, AutomationTypeOK, Row, LiveRowsValid
  <1>4. template[a].version \in DOMAIN versions[a]
    BY <1>3 DEF AutomationTypeOK
  <1>5. /\ r \in [template : Template, version : Nat \ {0}, key : Key, task : Task]
        /\ r.template = a /\ r.version = template[a].version /\ r.key = k /\ r.task = t
        /\ r.task = TriggeredTask[r.template][r.key]
    BY <1>3
  <1> HIDE DEF r, t
  <1>6. AutomationTypeOK'
    BY <1>1, <1>5 DEF AutomationTypeOK
  <1>7. LiveRowsValid' /\ VersionsCounted' /\ EnabledIsLastVersion' /\ CopiesBehind'
        /\ RevisionIdentifiesRow'
    BY <1>1 DEF LiveRowsValid, VersionsCounted, EnabledIsLastVersion, CopiesBehind,
                RevisionIdentifiesRow, Live
  <1>8. RunsMatchTheirVersion'
    BY <1>1, <1>2, <1>3, <1>4, <1>5 DEF RunsMatchTheirVersion
  <1>9. RunsHaveTasks'
    <2>1. Exists(t)' /\ \A u \in Task : Exists(u) => Exists(u)'
      BY <1>1, <1>3 DEF CreateTask, Exists, QueueInv, TypeOK
    <2>2. \A q \in scheduled : q.task \in Task
      BY DEF AutomationTypeOK
    <2>3. IsFiniteSet(scheduled')
      BY <1>1, FS_AddElement DEF RunsHaveTasks
    <2> QED
      BY <1>1, <1>5, <2>1, <2>2, <2>3 DEF RunsHaveTasks
  <1> QED
    BY <1>6, <1>7, <1>8, <1>9

-----------------------------------------------------------------------------
(* Requests: what every step must see to, and that each step does.         *)

\* Where a request is moved to, what that place means is true.
MovesSoundly ==
  \A h \in Handler :
    at'[h] # "idle" => \/ at'[h] = at[h] /\ delivery'[h] = delivery[h]
                       \/ PlaceMeans(at[h], delivery[h])'

\* A delivery that becomes work is no review, or has superseded the others.
CreatesSoundly ==
  \A d \in Key :
    Created(d)' =>
      \/ Created(d) \/ level = 9 \/ ~Reviewable(EventOf[d])
      \/ \A e \in Key : TaskOf[e] # TaskOf[d] /\ PullOf[TaskOf[e]] = PullOf[TaskOf[d]]
                          => status'[TaskOf[e]] \in {"absent", "superseded"}

\* A row of a delivery is written by a request that may.
RecordsSoundly ==
  \A d \in Key :
    recorded'[d] # recorded[d] =>
      \E h \in Handler : /\ delivery[h] = d
                         /\ \/ at[h] = "record created" /\ recorded'[d] = "created"
                            \/ at[h] = "record ignored" /\ recorded'[d] = "ignored"

\* A step that moves, creates and records soundly preserves the invariant of
\* requests.
LEMMA SoundStepInv ==
  ASSUME QueueInv, RequestInv, [Next]_vars, UNCHANGED level, RequestTypes',
         MovesSoundly, CreatesSoundly, RecordsSoundly
  PROVE  RequestInv'
  <1> USE DEF RequestInv
  <1>1. \A d \in Key : /\ TaskOf[d] \in Task
                       /\ Exists(TaskOf[d]) => Exists(TaskOf[d])'
                       /\ WorkExists(d) => WorkExists(d)'
                       /\ status[TaskOf[d]] = "superseded"
                            => status'[TaskOf[d]] = "superseded"
    BY WebhookAssumption, StatusStable, WorkStays
  <1>2. \A h \in Handler : /\ at[h] # "idle" => delivery[h] \in Key
                           /\ at'[h] # "idle" => delivery'[h] \in Key
    BY DEF RequestTypes
  <1>3. PlacesMean'
    <2> SUFFICES ASSUME NEW h \in Handler, at'[h] # "idle"
                 PROVE  PlaceMeans(at[h], delivery[h])'
      BY DEF PlacesMean
    <2>1. CASE PlaceMeans(at[h], delivery[h])'
      BY <2>1
    <2>2. CASE at'[h] = at[h] /\ delivery'[h] = delivery[h]
      <3>1. PlaceMeans(at[h], delivery[h]) /\ delivery[h] \in Key
        BY <2>2, <1>2 DEF PlacesMean
      <3>2. PlaceMeans(at[h], delivery[h])'
        BY <2>2, <3>1, <1>1 DEF PlaceMeans, MayIgnore, Work
      <3> QED
        BY <3>2
    <2> QED
      BY <2>1, <2>2 DEF MovesSoundly
  <1>4. AcknowledgedIsHandled'
    <2> SUFFICES ASSUME NEW d \in Key
                 PROVE  /\ recorded'[d] = "created" => WorkExists(d)'
                        /\ recorded'[d] = "ignored" => MayIgnore(d)
      BY DEF AcknowledgedIsHandled, MayIgnore, Work
    <2>1. CASE recorded'[d] = recorded[d]
      BY <2>1, <1>1 DEF AcknowledgedIsHandled, MayIgnore
    <2>2. CASE recorded'[d] # recorded[d]
      <3>1. PICK h \in Handler :
              /\ delivery[h] = d
              /\ \/ at[h] = "record created" /\ recorded'[d] = "created"
                 \/ at[h] = "record ignored" /\ recorded'[d] = "ignored"
        BY <2>2 DEF RecordsSoundly
      <3>2. PlaceMeans(at[h], d)
        BY <3>1 DEF PlacesMean
      <3> QED
        BY <3>1, <3>2, <1>1 DEF PlaceMeans
    <2> QED
      BY <2>1, <2>2
  <1>5. \A d \in Key : Created(d)' /\ level < 9 => Exists(TaskOf[d])'
    BY <1>3, <1>4 DEF Created, PlacesMean, PlaceMeans, AcknowledgedIsHandled, WorkExists
  <1>6. OneReviewCreated'
    <2> SUFFICES ASSUME NEW d \in Key, NEW e \in Key, level < 9, Created(d)', Created(e)',
                        Reviewable(EventOf[d]), Reviewable(EventOf[e]),
                        TaskOf[d] # TaskOf[e], PullOf[TaskOf[d]] = PullOf[TaskOf[e]]
                 PROVE  "superseded" \in {status'[TaskOf[d]], status'[TaskOf[e]]}
      BY DEF OneReviewCreated, Reviewable
    <2>1. Exists(TaskOf[d])' /\ Exists(TaskOf[e])' /\ level # 9
      BY <1>5
    <2>2. CASE Created(d) /\ Created(e)
      BY <2>2, <1>1 DEF OneReviewCreated
    <2>3. CASE ~Created(d)
      <3>1. status'[TaskOf[e]] \in {"absent", "superseded"}
        BY <2>1, <2>3 DEF CreatesSoundly
      <3> QED
        BY <2>1, <3>1 DEF Exists
    <2>4. CASE ~Created(e)
      <3>1. status'[TaskOf[d]] \in {"absent", "superseded"}
        BY <2>1, <2>4 DEF CreatesSoundly
      <3> QED
        BY <2>1, <3>1 DEF Exists
    <2> QED
      BY <2>2, <2>3, <2>4
  <1> QED
    BY <1>3, <1>4, <1>6

\* The tasks of events are created or found by an operation of the queue.
LEMMA CreateOrGetFacts ==
  ASSUME QueueInv, NEW t \in Task, CreateOrGet(t)
  PROVE  [Next]_vars /\ Exists(t)'
  <1>1. CASE Exists(t)
    BY <1>1 DEF CreateOrGet, vars, taskRows, Exists
  <1>2. CASE ~Exists(t)
    BY <1>2 DEF CreateOrGet, CreateTask, Exists, QueueInv, TypeOK, Next, TaskStep
  <1> QED
    BY <1>1, <1>2

\* A request begins where its first transaction has brought it.
LEMMA TakeInv ==
  ASSUME QueueInv, RequestInv, [Next]_vars,
         NEW h \in Handler, NEW d \in Key, NEW place \in Place \ {"idle"},
         Take(h, d, place), pending' \in [Handler -> SUBSET Template],
         PlaceMeans(place, d)', place = "record created" => ~Reviewable(EventOf[d])
  PROVE  RequestInv'
  <1> USE DEF RequestInv
  <1>1. /\ at' = [at EXCEPT ![h] = place] /\ delivery' = [delivery EXCEPT ![h] = d]
        /\ UNCHANGED <<level, sent, posted, recorded>>
    BY DEF Take
  <1>2. /\ at'[h] = place /\ delivery'[h] = d /\ d # None
        /\ \A g \in Handler : g # h => at'[g] = at[g] /\ delivery'[g] = delivery[g]
    BY <1>1, WebhookAssumption DEF RequestTypes
  <1>3. RequestTypes'
    BY <1>1, <1>2 DEF RequestTypes
  <1>4. MovesSoundly
    BY <1>2 DEF MovesSoundly
  <1>5. CreatesSoundly
    <2> SUFFICES ASSUME NEW e \in Key, Created(e)', ~Created(e)
                 PROVE  ~Reviewable(EventOf[e])
      BY DEF CreatesSoundly
    <2>1. PICK g \in Handler : at'[g] = "record created" /\ delivery'[g] = e
      BY <1>1 DEF Created
    <2>2. g = h
      BY <2>1, <1>2 DEF Created
    <2> QED
      BY <2>1, <2>2, <1>2
  <1>6. RecordsSoundly
    BY <1>1 DEF RecordsSoundly
  <1> QED
    BY <1>1, <1>3, <1>4, <1>5, <1>6, SoundStepInv

\* A request goes on.
LEMMA GotoInv ==
  ASSUME QueueInv, RequestInv, [Next]_vars,
         NEW h \in Handler, NEW place \in Place \ {"idle"}, at[h] # "idle",
         Goto(h, place), PlaceMeans(place, delivery[h])',
         place = "record created" =>
           \/ ~Reviewable(EventOf[delivery[h]])
           \/ \A e \in Key : /\ TaskOf[e] # TaskOf[delivery[h]]
                             /\ PullOf[TaskOf[e]] = PullOf[TaskOf[delivery[h]]]
                             => status'[TaskOf[e]] \in {"absent", "superseded"}
  PROVE  RequestInv'
  <1> USE DEF RequestInv
  <1>1. /\ at' = [at EXCEPT ![h] = place]
        /\ UNCHANGED <<level, sent, posted, delivery, pending, recorded>>
    BY DEF Goto
  <1>2. at'[h] = place /\ \A g \in Handler : g # h => at'[g] = at[g]
    BY <1>1 DEF RequestTypes
  <1>3. RequestTypes'
    BY <1>1, <1>2 DEF RequestTypes
  <1>4. MovesSoundly
    <2>1. PlaceMeans(at[h], delivery[h])'
      BY <1>1, <1>2 DEF PlaceMeans, MayIgnore, Work
    <2> QED
      BY <1>1, <1>2, <2>1 DEF MovesSoundly
  <1>5. CreatesSoundly
    <2> SUFFICES ASSUME NEW d \in Key, Created(d)', ~Created(d)
                 PROVE  d = delivery[h] /\ place = "record created"
      BY DEF CreatesSoundly
    <2>1. PICK g \in Handler : at'[g] = "record created" /\ delivery'[g] = d
      BY <1>1 DEF Created
    <2>2. g = h
      BY <2>1, <1>1, <1>2 DEF Created
    <2> QED
      BY <2>1, <2>2, <1>1, <1>2
  <1>6. RecordsSoundly
    BY <1>1 DEF RecordsSoundly
  <1> QED
    BY <1>1, <1>3, <1>4, <1>5, <1>6, SoundStepInv

\* A request is answered, and has recorded its delivery or not.
LEMMA AnswerInv ==
  ASSUME QueueInv, RequestInv, UNCHANGED vars, NEW h \in Handler, Answer(h),
         \/ UNCHANGED recorded
         \/ /\ at[h] \in {"record created", "record ignored"}
            /\ recorded' = [recorded EXCEPT ![delivery[h]] =
                              IF @ # "no" THEN @
                              ELSE IF at[h] = "record created" THEN "created" ELSE "ignored"]
  PROVE  RequestInv'
  <1> USE DEF RequestInv
  <1>1. /\ at' = [at EXCEPT ![h] = "idle"] /\ delivery' = [delivery EXCEPT ![h] = None]
        /\ pending' = [pending EXCEPT ![h] = {}] /\ UNCHANGED <<level, sent, posted>>
    BY DEF Answer
  <1>2. /\ at'[h] = "idle" /\ delivery'[h] = None
        /\ \A g \in Handler : g # h => at'[g] = at[g] /\ delivery'[g] = delivery[g]
    BY <1>1 DEF RequestTypes
  <1>3. RecordsSoundly /\ recorded' \in [Key -> {"no", "created", "ignored"}]
    <2>1. CASE UNCHANGED recorded
      BY <2>1 DEF RecordsSoundly, RequestTypes
    <2>2. CASE at[h] = "record created" /\ ~UNCHANGED recorded
      BY <2>2 DEF RecordsSoundly, RequestTypes
    <2>3. CASE at[h] = "record ignored" /\ ~UNCHANGED recorded
      BY <2>3 DEF RecordsSoundly, RequestTypes
    <2> QED
      BY <2>1, <2>2, <2>3
  <1>4. RequestTypes'
    BY <1>1, <1>2, <1>3 DEF RequestTypes, Place
  <1>5. MovesSoundly
    BY <1>2 DEF MovesSoundly
  <1>6. CreatesSoundly
    <2> SUFFICES ASSUME NEW d \in Key, Created(d)'
                 PROVE  Created(d)
      BY DEF CreatesSoundly
    <2>1. CASE recorded'[d] = "created"
      BY <2>1, <1>3 DEF Created, RecordsSoundly
    <2>2. CASE \E g \in Handler : at'[g] = "record created" /\ delivery'[g] = d
      <3>1. PICK g \in Handler : at'[g] = "record created" /\ delivery'[g] = d
        BY <2>2
      <3> QED
        BY <3>1, <1>2 DEF Created
    <2> QED
      BY <2>1, <2>2 DEF Created
  <1> QED
    BY <1>1, <1>3, <1>4, <1>5, <1>6, SoundStepInv

\* A step that is not a request's leaves requests alone.
LEMMA RequestsAlone ==
  ASSUME QueueInv, RequestInv, [Next]_vars, UNCHANGED webhookVars
  PROVE  RequestInv'
  <1> USE DEF RequestInv
  <1>1. UNCHANGED <<level, sent, posted, at, delivery, pending, recorded>>
    BY DEF webhookVars, handlers
  <1>2. RequestTypes' /\ MovesSoundly /\ CreatesSoundly /\ RecordsSoundly
    BY <1>1 DEF RequestTypes, MovesSoundly, CreatesSoundly, Created, RecordsSoundly
  <1> QED
    BY <1>1, <1>2, SoundStepInv

\* A review begins by making its task, or fails and is acknowledged all the same.
LEMMA ReviewInv ==
  ASSUME QueueInv, RequestInv, NEW h \in Handler, NEW d \in Key, Review(h, d)
  PROVE  RequestInv' /\ [Next]_vars /\ UNCHANGED automationVars
  <1>1. /\ level < 9 /\ Reviewable(EventOf[d]) /\ pending' = pending
        /\ \/ Take(h, d, "supersede") /\ CreateOrGet(TaskOf[d])
           \/ level >= 6 /\ Take(h, d, "record ignored") /\ UNCHANGED vars
    BY DEF Review
  <1>2. pending' \in [Handler -> SUBSET Template] /\ TaskOf[d] \in Task
    BY <1>1, WebhookAssumption DEF RequestInv, RequestTypes
  <1>3. CASE Take(h, d, "supersede") /\ CreateOrGet(TaskOf[d])
    <2>1. [Next]_vars /\ Exists(TaskOf[d])' /\ level' = level /\ UNCHANGED automationVars
      BY <1>2, <1>3, CreateOrGetFacts DEF Take
    <2>2. PlaceMeans("supersede", d)'
      BY <1>1, <2>1 DEF PlaceMeans
    <2> QED
      BY <1>2, <1>3, <2>1, <2>2, TakeInv DEF Place
  <1>4. CASE level >= 6 /\ Take(h, d, "record ignored") /\ UNCHANGED vars
    <2>1. [Next]_vars /\ level' = level /\ UNCHANGED automationVars
      BY <1>4 DEF Take
    <2>2. PlaceMeans("record ignored", d)'
      BY <1>1, <1>4, <2>1 DEF PlaceMeans, MayIgnore
    <2> QED
      BY <1>2, <1>4, <2>1, <2>2, TakeInv DEF Place
  <1> QED
    BY <1>1, <1>3, <1>4

\* A diagnosis makes its task in the transaction that begins it, or is answered
\* with the error.
LEMMA DiagnosisInv ==
  ASSUME QueueInv, RequestInv, NEW h \in Handler, NEW d \in Key, Diagnosis(h, d)
  PROVE  RequestInv' /\ [Next]_vars /\ UNCHANGED automationVars
  <1>1. /\ level < 9 /\ ~Reviewable(EventOf[d]) /\ pending' = pending
        /\ Take(h, d, "record created") /\ CreateOrGet(TaskOf[d])
    <2>1. /\ level \in {6, 8} /\ Diagnosable(EventOf[d]) /\ pending' = pending
          /\ Take(h, d, "record created") /\ CreateOrGet(TaskOf[d])
      BY DEF Diagnosis
    <2>2. ~Reviewable(EventOf[d])
      BY <2>1 DEF Diagnosable, Reviewable
    <2>3. level < 9
      <3>1. level \in {6, 8}
        BY <2>1
      <3> QED
        BY <3>1
    <2> QED
      BY <2>1, <2>2, <2>3
  <1>2. pending' \in [Handler -> SUBSET Template] /\ TaskOf[d] \in Task
    BY <1>1, WebhookAssumption DEF RequestInv, RequestTypes
  <1>3. [Next]_vars /\ Exists(TaskOf[d])' /\ UNCHANGED automationVars /\ level' = level
    BY <1>1, <1>2, CreateOrGetFacts DEF Take
  <1>4. PlaceMeans("record created", d)'
    BY <1>1, <1>3 DEF PlaceMeans, WorkExists
  <1> QED
    BY <1>1, <1>2, <1>3, <1>4, TakeInv DEF Place

\* A repair makes its task first and its row afterwards.
LEMMA RepairInv ==
  ASSUME QueueInv, RequestInv, NEW h \in Handler, NEW d \in Key, Repair(h, d)
  PROVE  RequestInv' /\ [Next]_vars /\ UNCHANGED automationVars
  <1>1. /\ level < 9 /\ ~Reviewable(EventOf[d]) /\ pending' = pending
        /\ Take(h, d, "repair row") /\ CreateOrGet(TaskOf[d])
    <2>1. /\ level = 8 /\ Repairable(EventOf[d]) /\ pending' = pending
          /\ Take(h, d, "repair row") /\ CreateOrGet(TaskOf[d])
      BY DEF Repair
    <2>2. ~Reviewable(EventOf[d])
      BY <2>1 DEF Repairable, Reviewable
    <2>3. level < 9
      <3>1. level \in {6, 8}
        BY <2>1
      <3> QED
        BY <3>1
    <2> QED
      BY <2>1, <2>2, <2>3
  <1>2. pending' \in [Handler -> SUBSET Template] /\ TaskOf[d] \in Task
    BY <1>1, WebhookAssumption DEF RequestInv, RequestTypes
  <1>3. [Next]_vars /\ Exists(TaskOf[d])' /\ UNCHANGED automationVars /\ level' = level
    BY <1>1, <1>2, CreateOrGetFacts DEF Take
  <1>4. PlaceMeans("repair row", d)'
    BY <1>1, <1>3 DEF PlaceMeans
  <1> QED
    BY <1>1, <1>2, <1>3, <1>4, TakeInv DEF Place

\* What is ignored calls for no work.
LEMMA IgnoreInv ==
  ASSUME QueueInv, RequestInv, NEW h \in Handler, NEW d \in Key,
         Ignore(h, d) \/ HandleWebhook(h, d)
  PROVE  RequestInv' /\ UNCHANGED vars /\ UNCHANGED automationVars
  <1>1. /\ Take(h, d, "record ignored") /\ UNCHANGED <<pending, vars>>
        /\ ~Work(EventOf[d]) \/ ~Handled(d)
    BY DEF Ignore, HandleWebhook
  <1>2. pending' \in [Handler -> SUBSET Template] /\ level' = level /\ UNCHANGED automationVars
    BY <1>1 DEF RequestInv, RequestTypes, Take
  <1>3. MayIgnore(d)
    <2>1. level >= 6 \/ level >= 8 => level >= 5
      BY DEF RequestInv, RequestTypes, Level
    <2> QED
      BY <1>1, <2>1 DEF MayIgnore, Handled, Work
  <1>4. PlaceMeans("record ignored", d)'
    BY <1>2, <1>3 DEF PlaceMeans, MayIgnore, Work
  <1> QED
    BY <1>1, <1>2, <1>4, TakeInv DEF Place

\* Where templates decide, a request begins by matching them.
LEMMA MatchingInv ==
  ASSUME QueueInv, RequestInv, NEW h \in Handler, NEW d \in Key, Matching(h, d)
  PROVE  RequestInv' /\ UNCHANGED vars /\ UNCHANGED automationVars
  <1> DEFINE matched == {a \in Template : Matches(a, EventOf[d])}
  <1>1. PICK place \in {"record ignored", "trigger"} :
          /\ level = 9 /\ Take(h, d, place) /\ pending' = [pending EXCEPT ![h] = matched]
          /\ UNCHANGED vars
    BY DEF Matching
  <1>2. matched \in SUBSET Template
    OBVIOUS
  <1> HIDE DEF matched
  <1>3. level' = 9 /\ UNCHANGED automationVars
    BY <1>1 DEF Take
  <1>4. PlaceMeans(place, d)'
    BY <1>1, <1>3 DEF PlaceMeans, MayIgnore
  <1>5. pending' \in [Handler -> SUBSET Template]
    BY <1>1, <1>2 DEF RequestInv, RequestTypes
  <1>6. place \in Place \ {"idle"} /\ place # "record created"
    BY <1>1 DEF Place
  <1> QED
    BY <1>1, <1>3, <1>4, <1>5, <1>6, TakeInv

\* A review that has superseded the others of its pull request leaves it as the
\* only one.
LEMMA ReviewSupersedeInv ==
  ASSUME QueueInv, RequestInv, NEW h \in Handler, ReviewSupersede(h)
  PROVE  RequestInv' /\ [Next]_vars /\ UNCHANGED automationVars
  <1>1. PICK d \in Key : /\ d = delivery[h] /\ at[h] = "supersede"
                         /\ SupersedeCodeReviews(TaskOf[d]) /\ Goto(h, "record created")
    BY DEF ReviewSupersede, RequestInv, RequestTypes
  <1>2. TaskOf[d] \in Task /\ level < 9
    BY <1>1, WebhookAssumption DEF RequestInv, PlacesMean, PlaceMeans
  <1>3. [Next]_vars
    BY <1>1, <1>2 DEF Next, TaskStep
  <1>4. Exists(TaskOf[d])'
    BY <1>1, <1>2, <1>3, StatusStable DEF SupersedeCodeReviews
  <1>5. \A e \in Key : TaskOf[e] # TaskOf[d] /\ PullOf[TaskOf[e]] = PullOf[TaskOf[d]]
                         => status'[TaskOf[e]] \in {"absent", "superseded"}
    <2> SUFFICES ASSUME NEW t \in Task, t # TaskOf[d], PullOf[t] = PullOf[TaskOf[d]]
                 PROVE  status'[t] \in {"absent", "superseded"}
      BY WebhookAssumption
    <2> QED
      BY <1>1 DEF SupersedeCodeReviews
  <1>6. /\ delivery' = delivery /\ UNCHANGED automationVars /\ level' = level
    BY <1>1 DEF Goto
  <1>7. PlaceMeans("record created", delivery[h])'
    BY <1>1, <1>2, <1>4, <1>6 DEF PlaceMeans, WorkExists, Exists
  <1> QED
    BY <1>1, <1>2, <1>3, <1>5, <1>6, <1>7, GotoInv DEF Place

\* A review that could not is answered, or acknowledged as ignored where
\* diagnosis overwrites its error.
LEMMA ReviewSupersedeFailsInv ==
  ASSUME QueueInv, RequestInv, NEW h \in Handler, ReviewSupersedeFails(h)
  PROVE  RequestInv' /\ UNCHANGED vars /\ UNCHANGED automationVars
  <1>1. /\ at[h] = "supersede" /\ UNCHANGED vars
        /\ \/ level >= 6 /\ Goto(h, "record ignored")
           \/ Answer(h) /\ UNCHANGED recorded
    BY DEF ReviewSupersedeFails
  <1>2. UNCHANGED automationVars
    BY <1>1 DEF Goto, Answer
  <1>3. CASE Answer(h) /\ UNCHANGED recorded
    BY <1>1, <1>2, <1>3, AnswerInv
  <1>4. CASE level >= 6 /\ Goto(h, "record ignored")
    <2>1. Reviewable(EventOf[delivery[h]]) /\ level' = level /\ delivery' = delivery
      BY <1>1, <1>4 DEF RequestInv, PlacesMean, PlaceMeans, Goto
    <2>2. PlaceMeans("record ignored", delivery[h])'
      BY <1>4, <2>1 DEF PlaceMeans, MayIgnore
    <2> QED
      BY <1>1, <1>2, <1>4, <2>2, GotoInv DEF Place
  <1> QED
    BY <1>1, <1>3, <1>4

\* The task of a repair is there whether or not its row is.
LEMMA RepairRowInv ==
  ASSUME QueueInv, RequestInv, NEW h \in Handler, RepairRow(h)
  PROVE  RequestInv' /\ UNCHANGED vars /\ UNCHANGED automationVars
  <1>1. /\ at[h] = "repair row" /\ UNCHANGED vars
        /\ Goto(h, "record created") \/ (Answer(h) /\ UNCHANGED recorded)
    BY DEF RepairRow
  <1>2. UNCHANGED automationVars
    BY <1>1 DEF Goto, Answer
  <1>3. CASE Answer(h) /\ UNCHANGED recorded
    BY <1>1, <1>2, <1>3, AnswerInv
  <1>4. CASE Goto(h, "record created")
    <2>1. /\ Exists(TaskOf[delivery[h]]) /\ ~Reviewable(EventOf[delivery[h]])
          /\ delivery' = delivery /\ status' = status /\ level < 9 /\ level' = level
      BY <1>1, <1>4 DEF RequestInv, PlacesMean, PlaceMeans, Goto, vars, taskRows
    <2>2. PlaceMeans("record created", delivery[h])'
      BY <2>1 DEF PlaceMeans, WorkExists, Exists
    <2> QED
      BY <1>1, <1>2, <1>4, <2>1, <2>2, GotoInv DEF Place
  <1> QED
    BY <1>1, <1>3, <1>4

\* A template that answers "duplicate" has a run for the key, and so its task.
LEMMA DuplicateHasWork ==
  ASSUME TemplateInv, NEW a \in Template, NEW d \in Key, level = 9,
         TriggerAnswer(a, d, FALSE) = "duplicate"
  PROVE  WorkExists(d)
  <1>1. Live(a)
    BY DEF TriggerAnswer
  <1>2. template[a].enabled
    BY <1>1 DEF TriggerAnswer
  <1>3. Matches(a, EventOf[d])
    BY <1>1, <1>2 DEF TriggerAnswer
  <1>4. PICK r \in scheduled : r.template = a /\ r.key = d
    BY <1>1, <1>2, <1>3 DEF TriggerAnswer
  <1>5. Exists(TriggeredTask[a][d])
    BY <1>4 DEF TemplateInv, RunsHaveTasks
  <1> QED
    BY <1>5 DEF WorkExists

\* A request triggers the templates it matched one after the other, and goes on to
\* record only when the last one has answered that its work is there.
LEMMA TriggerMatchedInv ==
  ASSUME QueueInv, TemplateInv, RequestInv, NEW h \in Handler, TriggerMatched(h)
  PROVE  RequestInv' /\ UNCHANGED vars /\ UNCHANGED automationVars
  <1> USE DEF RequestInv
  <1>1. at[h] = "trigger" /\ UNCHANGED vars
    BY DEF TriggerMatched
  <1>2. PICK a \in pending[h] :
          \/ /\ TriggerAnswer(a, delivery[h], FALSE) = "duplicate"
             /\ pending' = [pending EXCEPT ![h] = @ \ {a}]
             /\ at' = [at EXCEPT ![h] = IF pending[h] = {a} THEN "record created" ELSE @]
             /\ UNCHANGED <<level, sent, posted, delivery, recorded, automationVars>>
          \/ Answer(h) /\ UNCHANGED recorded
    BY DEF TriggerMatched
  <1>3. UNCHANGED automationVars
    BY <1>2 DEF Answer
  <1>4. level = 9 /\ [Next]_vars
    BY <1>1 DEF PlacesMean, PlaceMeans
  <1>5. CASE Answer(h) /\ UNCHANGED recorded
    BY <1>1, <1>3, <1>5, AnswerInv
  <1>6. CASE /\ TriggerAnswer(a, delivery[h], FALSE) = "duplicate"
             /\ pending' = [pending EXCEPT ![h] = @ \ {a}]
             /\ at' = [at EXCEPT ![h] = IF pending[h] = {a} THEN "record created" ELSE @]
             /\ UNCHANGED <<level, sent, posted, delivery, recorded, automationVars>>
    <2>1. /\ at'[h] \in {"record created", "trigger"}
          /\ \A g \in Handler : g # h => at'[g] = at[g]
      BY <1>1, <1>6 DEF RequestTypes
    <2>2. RequestTypes'
      <3>1. at' \in [Handler -> Place]
        BY <1>6, <2>1 DEF RequestTypes, Place
      <3>2. pending' \in [Handler -> SUBSET Template]
        BY <1>6 DEF RequestTypes
      <3> QED
        BY <1>1, <1>6, <2>1, <3>1, <3>2 DEF RequestTypes
    <2>3. MovesSoundly
      <3>1. level' = 9 /\ ~(level' < 9)
        <4>1. level = 9 /\ level' = level
          BY <1>4, <1>6
        <4> QED
          BY <4>1
      <3>2. a \in Template /\ delivery[h] \in Key /\ delivery' = delivery /\ level' = level
        BY <1>1, <1>6 DEF RequestTypes
      <3>3. WorkExists(delivery[h])
        BY <1>4, <1>6, <3>2, DuplicateHasWork
      <3>4. WorkExists(delivery[h])'
        BY <1>4, <3>2, <3>3, WorkStays DEF WorkExists
      <3>5. PlaceMeans(at[h], delivery[h])'
        BY <2>1, <3>1, <3>2, <3>4 DEF PlaceMeans, WorkExists
      <3> QED
        BY <1>6, <2>1, <3>5 DEF MovesSoundly
    <2>4. CreatesSoundly /\ RecordsSoundly
      BY <1>4, <1>6 DEF CreatesSoundly, RecordsSoundly
    <2>5. level' = level
      BY <1>6
    <2> QED
      BY <1>1, <1>3, <1>4, <2>2, <2>3, <2>4, <2>5, SoundStepInv
  <1> QED
    BY <1>2, <1>5, <1>6

\* The last step of a request records what it has done.
LEMMA RecordInv ==
  ASSUME QueueInv, RequestInv, NEW h \in Handler, Record(h)
  PROVE  RequestInv' /\ UNCHANGED vars /\ UNCHANGED automationVars
  <1>1. UNCHANGED vars /\ UNCHANGED automationVars /\ Answer(h)
    BY DEF Record, Answer
  <1> QED
    BY <1>1, AnswerInv DEF Record

\* A crash forgets every request and no row.
LEMMA CrashServerInv ==
  ASSUME QueueInv, RequestInv, CrashServer
  PROVE  RequestInv' /\ UNCHANGED vars /\ UNCHANGED automationVars
  <1> USE DEF RequestInv
  <1>1. /\ at' = [h \in Handler |-> "idle"] /\ delivery' = [h \in Handler |-> None]
        /\ pending' = [h \in Handler |-> {}]
        /\ UNCHANGED <<level, sent, posted, recorded, vars, automationVars>>
    BY DEF CrashServer
  <1>2. RequestTypes'
    BY <1>1 DEF RequestTypes, Place
  <1>3. MovesSoundly /\ CreatesSoundly /\ RecordsSoundly
    BY <1>1 DEF MovesSoundly, CreatesSoundly, Created, RecordsSoundly
  <1> QED
    BY <1>1, <1>2, <1>3, SoundStepInv

\* Every step of a request preserves the invariant and uses the queue by its
\* operations.
LEMMA HandlerStepInv ==
  ASSUME QueueInv, TemplateInv, RequestInv, HandlerStep
  PROVE  RequestInv' /\ [Next]_vars /\ UNCHANGED automationVars
  BY ReviewInv, DiagnosisInv, RepairInv, IgnoreInv, MatchingInv, ReviewSupersedeInv,
     ReviewSupersedeFailsInv, RepairRowInv, TriggerMatchedInv, RecordInv DEF HandlerStep

-----------------------------------------------------------------------------
(* The whole of ingestion.                                                 *)

\* Templates use the queue by its operations.
LEMMA AutomationStepFacts ==
  ASSUME AutomationNext
  PROVE  [Next]_vars
  <1>1. CASE AdminStep
    <2>1. \A u \in Admin, a \in Template :
            /\ Open(u, a) => UNCHANGED vars
            /\ \A c \in Config : Create(u, a, c) => UNCHANGED vars
            /\ \A n \in Expected(u, a) :
                 /\ \A c \in Config : UpdateDraft(u, a, n, c) => UNCHANGED vars
                 /\ Delete(u, a, n) => UNCHANGED vars
            /\ \A e \in BOOLEAN : PublishLocked(u, a, e) => UNCHANGED vars
      BY DEF Open, Create, UpdateDraft, Delete, PublishLocked
    <2> QED
      BY <1>1, <2>1 DEF AdminStep, Publish, SetEnabled
  <1>2. CASE \E a \in Template, k \in Key : Trigger(a, k)
    BY <1>2, AutomationAssumption DEF Trigger, Next, TaskStep
  <1> QED
    BY <1>1, <1>2 DEF AutomationNext

\* Every step of ingestion is a step of the queue or leaves the queue alone.
LEMMA IngestionStepsQueue ==
  ASSUME IngestionInv, [IngestionNext]_ingestionVars
  PROVE  [Next]_vars
  <1> USE DEF IngestionInv
  <1>1. CASE QueueStep
    BY <1>1 DEF QueueStep, PostTask, Next, TaskStep, WorkerStep
  <1>2. CASE UNCHANGED ingestionVars
    BY <1>2 DEF ingestionVars
  <1> QED
    BY <1>1, <1>2, HandlerStepInv, CrashServerInv, AutomationStepFacts DEF IngestionNext

\* The inductive invariant holds initially.
LEMMA IngestionInitInv == IngestionInit => IngestionInv
  <1> SUFFICES ASSUME IngestionInit PROVE IngestionInv
    OBVIOUS
  <1> USE DEF IngestionInit
  <1>1. QueueInv /\ TemplateInv
    BY InitInv, TemplateInit
  <1>2. RequestTypes
    BY WebhookAssumption DEF RequestTypes, Place, Level
  <1>3. PlacesMean /\ OneReviewCreated /\ AcknowledgedIsHandled
    BY DEF PlacesMean, OneReviewCreated, Created, AcknowledgedIsHandled
  <1> QED
    BY <1>1, <1>2, <1>3 DEF IngestionInv, RequestInv

\* Every step preserves it.
LEMMA IngestionNextInv ==
  ASSUME IngestionInv, [IngestionNext]_ingestionVars
  PROVE  IngestionInv'
  <1> USE DEF IngestionInv
  <1>1. [Next]_vars
    BY IngestionStepsQueue
  <1>2. QueueInv'
    BY <1>1, NextInv
  <1>3. \A t \in Task : Exists(t) => Exists(t)'
    BY <1>1, StatusStable
  <1>4. CASE HandlerStep
    BY <1>2, <1>3, <1>4, HandlerStepInv, TemplatesAlone
  <1>5. CASE CrashServer
    BY <1>2, <1>3, <1>5, CrashServerInv, TemplatesAlone
  <1>6. CASE level = 9 /\ AutomationNext /\ UNCHANGED webhookVars
    <2>1. TemplateInv'
      BY <1>6, AdminStepInv, TriggerInv DEF AutomationNext
    <2>2. RequestInv'
      BY <1>1, <1>6, RequestsAlone
    <2> QED
      BY <1>2, <2>1, <2>2
  <1>7. CASE QueueStep
    <2>1. UNCHANGED automationVars /\ UNCHANGED webhookVars
      BY <1>7 DEF QueueStep
    <2> QED
      BY <1>1, <1>2, <1>3, <2>1, TemplatesAlone, RequestsAlone
  <1>8. CASE UNCHANGED ingestionVars
    <2>1. UNCHANGED vars /\ UNCHANGED automationVars /\ UNCHANGED webhookVars
      BY <1>8 DEF ingestionVars
    <2> QED
      BY <1>1, <1>2, <1>3, <2>1, TemplatesAlone, RequestsAlone
  <1> QED
    BY <1>4, <1>5, <1>6, <1>7, <1>8 DEF IngestionNext

\* The inductive invariant of ingestion is an invariant.
THEOREM IngestionInvariant == IngestionSpec => []IngestionInv
  <1>1. IngestionInv /\ [IngestionNext]_ingestionVars => IngestionInv'
    BY IngestionNextInv
  <1> QED
    BY IngestionInitInv, <1>1, PTL DEF IngestionSpec

\* Webhooks, templates and administrators touch tasks through the transactions
\* of the task store only: every behaviour of ingestion is one of the queue, so
\* what is proved of the queue holds while deliveries arrive, fail and repeat.
THEOREM IngestionRunsQueue == IngestionSpec => Spec
  <1>1. IngestionInit => Init
    BY DEF IngestionInit
  <1>2. IngestionInv /\ [IngestionNext]_ingestionVars => [Next]_vars
    BY IngestionStepsQueue
  <1> QED
    BY <1>1, <1>2, IngestionInvariant, PTL DEF IngestionSpec, Spec

\* Every variable of templates, requests and deliveries keeps to its type.
THEOREM IngestionTypes == IngestionSpec => []IngestionTypeOK
  <1>1. IngestionInv => IngestionTypeOK
    BY DEF IngestionInv, TemplateInv, RequestInv, RequestTypes, IngestionTypeOK
  <1> QED
    BY <1>1, IngestionInvariant, PTL

\* A run names the version that scheduled it, which is still there, enabled,
\* valid and selects the run's event, however UpdateDraft, SetEnabled, Delete and
\* Trigger race for the row.
THEOREM RunsKeepTheirVersion == IngestionSpec => []RunsMatchTheirVersion
  <1>1. IngestionInv => RunsMatchTheirVersion
    BY DEF IngestionInv, TemplateInv
  <1> QED
    BY <1>1, IngestionInvariant, PTL

\* No lost update: the revision an administrator sends back is the current one
\* only if the row it has open is the current row.
THEOREM RevisionsPreventLostUpdates == IngestionSpec => []RevisionIdentifiesRow
  <1>1. IngestionInv => RevisionIdentifiesRow
    BY DEF IngestionInv, TemplateInv
  <1> QED
    BY <1>1, IngestionInvariant, PTL

\* A delivery that handleWebhook acknowledged is not lost work.
THEOREM AcknowledgedIsKept == IngestionSpec => []AcknowledgedIsHandled
  <1>1. IngestionInv => AcknowledgedIsHandled
    BY DEF IngestionInv, RequestInv
  <1> QED
    BY <1>1, IngestionInvariant, PTL

\* Of two acknowledged reviews of one pull request one is superseded, in whatever
\* order the two requests create, supersede and record.
THEOREM ReviewsSupersedeEachOther == IngestionSpec => []OneReviewPerPull
  <1>1. IngestionInv => OneReviewPerPull
    BY DEF IngestionInv, RequestInv, OneReviewCreated, Created, OneReviewPerPull
  <1> QED
    BY <1>1, IngestionInvariant, PTL

\* A run is new only if it is what a trigger scheduled.
LEMMA OnlyTriggersSchedule ==
  ASSUME IngestionInv, [IngestionNext]_ingestionVars, NEW r \in scheduled' \ scheduled
  PROVE  \E a \in Template, k \in Key :
           /\ Trigger(a, k)
           /\ r = [template |-> a, version |-> template[a].version, key |-> k,
                   task |-> TriggeredTask[a][k]]
  <1> USE DEF IngestionInv
  <1>1. ~UNCHANGED scheduled
    OBVIOUS
  <1>2. AutomationNext
    BY <1>1, HandlerStepInv, CrashServerInv
       DEF IngestionNext, QueueStep, ingestionVars, automationVars
  <1>3. ~AdminStep
    <2>1. \A u \in Admin, a \in Template :
            /\ Open(u, a) => scheduled' = scheduled
            /\ \A c \in Config : Create(u, a, c) => scheduled' = scheduled
            /\ \A n \in Expected(u, a) :
                 /\ \A c \in Config : UpdateDraft(u, a, n, c) => scheduled' = scheduled
                 /\ Delete(u, a, n) => scheduled' \subseteq scheduled
            /\ \A e \in BOOLEAN : PublishLocked(u, a, e) => scheduled' = scheduled
      BY DEF Open, Create, UpdateDraft, Delete, PublishLocked
    <2> QED
      BY <2>1 DEF AdminStep, Publish, SetEnabled
  <1> QED
    BY <1>2, <1>3 DEF AutomationNext, Trigger

\* What counts against the limit after a trigger: the runs it counted, and its own.
LEMMA TriggerCounts ==
  ASSUME IngestionInv, NEW a \in Template, NEW k \in Key, Trigger(a, k)
  PROVE  LET Unfinished == {q \in scheduled' :
                              /\ q.template = a
                              /\ status'[q.task] \notin Finished \cup {"superseded"}}
         IN Cardinality(Unfinished) <= template[a].config.limit
  <1> USE DEF IngestionInv, TemplateInv
  <1> DEFINE t == TriggeredTask[a][k]
             r == [template |-> a, version |-> template[a].version, key |-> k, task |-> t]
             Unfinished == {q \in scheduled' :
                              /\ q.template = a
                              /\ status'[q.task] \notin Finished \cup {"superseded"}}
  <1>1. /\ ~Exists(t) /\ status' = [status EXCEPT ![t] = "queued"]
        /\ scheduled' = scheduled \cup {r} /\ t \in Task
    BY AutomationAssumption DEF Trigger, CreateTask
  <1>2. Live(a) /\ ~(Cardinality(ActiveRuns(a)) >= template[a].config.limit)
    BY TriggerFacts DEF Trigger
  <1> HIDE DEF r, t
  <1>3. Unfinished \subseteq ActiveRuns(a) \cup {r}
    <2> SUFFICES ASSUME NEW q \in scheduled, q.template = a,
                        status'[q.task] \notin Finished \cup {"superseded"}
                 PROVE  status[q.task] \in Active
      BY <1>1 DEF ActiveRuns
    <2>1. q.task \in Task /\ status[q.task] # "absent" /\ q.task # t
      BY <1>1 DEF RunsHaveTasks, AutomationTypeOK, Exists
    <2>2. status'[q.task] = status[q.task] /\ status[q.task] \in Status \cup {"absent"}
      BY <1>1, <2>1 DEF QueueInv, TypeOK
    <2> QED
      BY <2>1, <2>2 DEF Active, Status, Finished
  <1>4. IsFiniteSet(ActiveRuns(a))
    BY FS_Subset DEF RunsHaveTasks, ActiveRuns
  <1>5. /\ IsFiniteSet(ActiveRuns(a) \cup {r})
        /\ \/ Cardinality(ActiveRuns(a) \cup {r}) = Cardinality(ActiveRuns(a))
           \/ Cardinality(ActiveRuns(a) \cup {r}) = Cardinality(ActiveRuns(a)) + 1
    BY <1>4, FS_AddElement
  <1>6. /\ IsFiniteSet(Unfinished)
        /\ Cardinality(Unfinished) <= Cardinality(ActiveRuns(a) \cup {r})
    BY <1>3, <1>5, FS_Subset
  <1>7. Cardinality(ActiveRuns(a)) \in Nat /\ Cardinality(Unfinished) \in Nat
        /\ template[a].config.limit \in Nat
    BY <1>2, <1>4, <1>6, FS_CardinalityType, AutomationAssumption DEF LiveRowsValid
  <1> HIDE DEF Unfinished
  <1>8. Cardinality(Unfinished) <= template[a].config.limit
    BY <1>2, <1>5, <1>6, <1>7
  <1> QED
    BY <1>8 DEF Unfinished

\* A trigger never takes a template past the concurrency limit of the version it
\* runs under, whatever the earlier tasks of the template have come to.
THEOREM TriggersKeepLimit == IngestionSpec => TriggerKeepsLimit
  <1>1. ASSUME IngestionInv, [IngestionNext]_ingestionVars,
               NEW r \in scheduled' \ scheduled
        PROVE  Cardinality({q \in scheduled' :
                              /\ q.template = r.template
                              /\ status'[q.task] \notin Finished \cup {"superseded"}})
                 <= versions'[r.template][r.version].config.limit
    <2>1. PICK a \in Template, k \in Key :
            /\ Trigger(a, k)
            /\ r = [template |-> a, version |-> template[a].version, key |-> k,
                    task |-> TriggeredTask[a][k]]
      BY <1>1, OnlyTriggersSchedule
    <2>2. r.template = a /\ r.version = template[a].version
      BY <2>1
    <2>3. template[a].enabled /\ versions' = versions
      BY <2>1, TriggerFacts DEF Trigger
    <2>4. versions'[r.template][r.version].config = template[a].config
      BY <1>1, <2>2, <2>3 DEF IngestionInv, TemplateInv, EnabledIsLastVersion
    <2> QED
      BY <1>1, <2>1, <2>2, <2>4, TriggerCounts
  <1>2. IngestionInv /\ [IngestionNext]_ingestionVars
          => [\A r \in scheduled' \ scheduled :
                Cardinality({q \in scheduled' :
                               /\ q.template = r.template
                               /\ status'[q.task] \notin Finished \cup {"superseded"}})
                  <= versions'[r.template][r.version].config.limit]_<<vars, automationVars>>
    BY <1>1
  <1> QED
    BY <1>2, IngestionInvariant, PTL DEF IngestionSpec, TriggerKeepsLimit
=============================================================================
