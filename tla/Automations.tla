----------------------------- MODULE Automations -----------------------------
(***************************************************************************)
(* Automation templates: drafts, immutable published versions and the runs *)
(* they trigger (automations.PostgreSQLStore), composed with the queue     *)
(* that runs the triggered tasks.                                          *)
(*                                                                         *)
(* Every store operation is one transaction that locks the template row,   *)
(* so every operation is one action.  The administrators who edit a        *)
(* template are not atomic: each holds the row as it last read it and      *)
(* sends back that row's revision.  Names, descriptions, budgets and       *)
(* timeouts are left out: nothing in this code reads them again.           *)
(***************************************************************************)
EXTENDS TaskQueue, Sequences, FiniteSets

CONSTANTS
  Template,       \* the ids templates may get; newID never returns one twice
  Admin,          \* administrators with a template open in their browser
  Config,         \* the inputs they may submit, valid or not
  Key,            \* trigger keys; a webhook uses its delivery id
  EventOf,        \* EventOf[k]: the event that a trigger with key k carries
  TriggeredTask,  \* TriggeredTask[a][k]: the task with the source key of a and k
  MaxRevision     \* bound: the revisions explored of one template

ASSUME AutomationAssumption ==
  /\ MaxRevision \in Nat \ {0}
  /\ None \notin Template
  /\ \A c \in Config : c.limit \in Nat
  /\ \A a \in Template, k \in Key : TriggeredTask[a][k] \in Task

VARIABLES
  template,  \* template[a]: the row of automation_templates
  versions,  \* versions[a]: its rows of automation_template_versions, in order
  scheduled, \* the rows of automation_runs
  opened     \* opened[u]: the template and the row that administrator u last read

automationVars == <<template, versions, scheduled, opened>>

NoRow == [state |-> "absent", enabled |-> FALSE, version |-> 0, revision |-> 0,
          config |-> None]
NothingOpen == [template |-> None, row |-> NoRow]
Live(a) == template[a].state = "live"

AllowedEvent == [code_review |-> "pull_request", ci_diagnosis |-> "workflow_run",
                 issue_repair |-> "issues"]
AllowedActions ==
  [pull_request |-> {"opened", "reopened", "synchronize", "ready_for_review"},
   workflow_run |-> {"completed"},
   issues |-> {"opened", "reopened"}]

ValidFilter(kind, filter) ==
  /\ filter.event = AllowedEvent[kind]
  /\ filter.actions # {}
  /\ filter.actions \subseteq AllowedActions[filter.event]

Validate(c) ==
  /\ c.provider = "github"
  /\ c.kind \in DOMAIN AllowedEvent
  /\ c.scope # {} /\ "*" \notin c.scope
  /\ c.filters # {} /\ \A f \in c.filters : ValidFilter(c.kind, f)
  /\ c.limit \in 1 .. 20
  /\ c.risk = "critical" => c.approval = "required"

\* What a configuration selects: provider, repository scope, event, action and,
\* if the filter names branches, the branch.
Selects(c, e) ==
  /\ e.provider = c.provider
  /\ e.repository \in c.scope
  /\ \E f \in c.filters : /\ f.event = e.event
                          /\ e.action \in f.actions
                          /\ f.branches = {} \/ e.branch \in f.branches

Matches(a, e) == Live(a) /\ template[a].enabled /\ Selects(template[a].config, e)

-----------------------------------------------------------------------------
(* The administrators' requests.                                           *)

Open(u, a) ==
  /\ Live(a)
  /\ opened' = [opened EXCEPT ![u] = [template |-> a, row |-> template[a]]]
  /\ UNCHANGED <<vars, template, versions, scheduled>>

\* The answer carries the new row, which is what u has open from now on.
Write(u, a, row) ==
  /\ template' = [template EXCEPT ![a] = row]
  /\ opened' = [opened EXCEPT ![u] = [template |-> a, row |-> row]]

Create(u, a, c) ==
  /\ Validate(c)
  /\ template[a].state = "absent"
  /\ Write(u, a, [state |-> "live", enabled |-> FALSE, version |-> 0,
                  revision |-> 1, config |-> c])
  /\ UNCHANGED <<vars, versions, scheduled>>

\* The revisions a request of u for a may expect: the one of the row it has
\* open, or none, which a request that leaves the field out means.
Expected(u, a) == (IF opened[u].template = a THEN {opened[u].row.revision} ELSE {}) \cup {0}

\* Mutant: an enabled template can be edited in place.
UpdateDraftInPlace(u, a, expected, c) ==
  /\ Validate(c)
  /\ expected > 0 /\ Live(a) /\ template[a].revision = expected
  /\ expected < MaxRevision
  /\ Write(u, a, [template[a] EXCEPT !.config = c, !.revision = expected + 1])
  /\ UNCHANGED <<vars, versions, scheduled>>

UpdateDraft(u, a, expected, c) ==
  /\ Validate(c)
  /\ expected > 0 /\ Live(a) /\ template[a].revision = expected
  /\ ~template[a].enabled
  /\ expected < MaxRevision
  /\ Write(u, a, [template[a] EXCEPT !.config = c, !.revision = expected + 1])
  /\ UNCHANGED <<vars, versions, scheduled>>

LockTemplate(a, expected) ==
  /\ Live(a)
  /\ expected > 0 => template[a].revision = expected

\* Mutant: a new version keeps the revision.
PublishLockedSameRevision(u, a, enabled) ==
  LET row == [template[a] EXCEPT !.enabled = enabled, !.version = @ + 1]
  IN /\ row.revision < MaxRevision
     /\ Write(u, a, row)
     /\ versions' = [versions EXCEPT ![a] = Append(@, [enabled |-> enabled,
                                                       config |-> row.config])]
     /\ UNCHANGED <<vars, scheduled>>

\* Every publication, activation and deactivation is a new immutable version.
PublishLocked(u, a, enabled) ==
  LET row == [template[a] EXCEPT !.enabled = enabled, !.version = @ + 1,
                                 !.revision = @ + 1]
  IN /\ row.revision <= MaxRevision
     /\ Write(u, a, row)
     /\ versions' = [versions EXCEPT ![a] = Append(@, [enabled |-> enabled,
                                                       config |-> row.config])]
     /\ UNCHANGED <<vars, scheduled>>

Publish(u, a, expected) ==
  /\ LockTemplate(a, expected)
  /\ ~(template[a].version > 0 /\ template[a].enabled)
  /\ Validate(template[a].config)
  /\ PublishLocked(u, a, FALSE)

\* Setting the value a template already has only reads it: that is Open.
SetEnabled(u, a, expected, enabled) ==
  /\ LockTemplate(a, expected)
  /\ template[a].version > 0
  /\ template[a].enabled # enabled
  /\ PublishLocked(u, a, enabled)

\* The schema deletes the versions and the runs with the template; the tasks
\* of the runs stay.
Delete(u, a, expected) ==
  /\ Live(a)
  /\ template[a].revision = expected
  /\ ~template[a].enabled
  /\ template' = [template EXCEPT ![a] = [NoRow EXCEPT !.state = "deleted"]]
  /\ versions' = [versions EXCEPT ![a] = <<>>]
  /\ scheduled' = {r \in scheduled : r.template # a}
  /\ opened' = [opened EXCEPT ![u] = NothingOpen]
  /\ UNCHANGED vars

-----------------------------------------------------------------------------
(* Trigger.                                                                *)

\* Mutant: a task that waits for an approval is not counted.
ActiveForgetsPaused == {"queued", "running"}

Active == {"queued", "running", "awaiting_approval"}

ActiveRuns(a) == {r \in scheduled : r.template = a /\ status[r.task] \in Active}

\* Mutant: the template need not be enabled.
TriggerAnswerDrafts(a, k, castable) ==
  IF ~Live(a) THEN "not found"
  ELSE IF ~Selects(template[a].config, EventOf[k]) THEN "invalid"
  ELSE IF \E r \in scheduled : r.template = a /\ r.key = k THEN "duplicate"
  ELSE IF Cardinality(ActiveRuns(a)) >= template[a].config.limit THEN "limit"
  ELSE IF castable THEN "scheduled" ELSE "error"

\* The answers of Trigger to key k for template a.  "scheduled" is the only one
\* that writes.  INSERT casts the repository id to uuid, so a request whose
\* repository id is neither empty nor a uuid gets as far as the insert and no
\* further.
TriggerAnswer(a, k, castable) ==
  IF ~Live(a) THEN "not found"
  ELSE IF ~template[a].enabled THEN "disabled"
  ELSE IF ~Matches(a, EventOf[k]) THEN "invalid"
  ELSE IF \E r \in scheduled : r.template = a /\ r.key = k THEN "duplicate"
  ELSE IF Cardinality(ActiveRuns(a)) >= template[a].config.limit THEN "limit"
  ELSE IF castable THEN "scheduled" ELSE "error"

\* POST /api/v1/automations/{id}/trigger: task and run in one transaction.
Trigger(a, k) ==
  /\ TriggerAnswer(a, k, TRUE) = "scheduled"
  /\ CreateTask(TriggeredTask[a][k])
  /\ scheduled' = scheduled \cup {[template |-> a, version |-> template[a].version,
                                   key |-> k, task |-> TriggeredTask[a][k]]}
  /\ UNCHANGED <<template, versions, opened>>

-----------------------------------------------------------------------------
AutomationInit ==
  /\ template = [a \in Template |-> NoRow]
  /\ versions = [a \in Template |-> <<>>]
  /\ scheduled = {}
  /\ opened = [u \in Admin |-> NothingOpen]

AdminStep ==
  \E u \in Admin, a \in Template :
    \/ Open(u, a)
    \/ \E c \in Config : Create(u, a, c)
    \/ \E r \in Expected(u, a) :
         \/ \E c \in Config : UpdateDraft(u, a, r, c)
         \/ Publish(u, a, r)
         \/ \E enabled \in BOOLEAN : SetEnabled(u, a, r, enabled)
         \/ Delete(u, a, r)

AutomationNext == AdminStep \/ \E a \in Template, k \in Key : Trigger(a, k)

-----------------------------------------------------------------------------
(* Properties.                                                             *)

Row == [state : {"absent", "live", "deleted"}, enabled : BOOLEAN,
        version : Nat, revision : 0 .. MaxRevision, config : Config \cup {None}]

AutomationTypeOK ==
  /\ template \in [Template -> Row]
  /\ versions \in [Template -> Seq([enabled : BOOLEAN, config : Config])]
  /\ scheduled \subseteq [template : Template, version : Nat \ {0}, key : Key, task : Task]
  /\ opened \in [Admin -> [template : Template \cup {None}, row : Row]]

\* A run names the exact version that scheduled it: that version is still in
\* the history, was an enabled one, is a valid configuration and selects the
\* event of the run.  So nobody can change what an enabled template does without
\* a new version, although UpdateDraft, SetEnabled and Trigger race for the row.
RunsMatchTheirVersion ==
  \A r \in scheduled :
    /\ r.version \in DOMAIN versions[r.template]
    /\ LET v == versions[r.template][r.version]
       IN v.enabled /\ Validate(v.config) /\ Selects(v.config, EventOf[r.key])

\* No lost update: a revision identifies a row.  If the revision an
\* administrator sends back is the current one, the row it had open is the
\* current row, so an edit that is accepted overwrites nothing it did not see.
RevisionIdentifiesRow ==
  \A u \in Admin, a \in Template :
    opened[u].template = a /\ opened[u].row.revision = template[a].revision
      => opened[u].row = template[a]

\* A trigger never takes a template past the concurrency limit of the version
\* it runs under, whatever state the earlier tasks are in.  (A retry of an old
\* task may: RetryTask does not ask.)
TriggerKeepsLimit ==
  [][\A r \in scheduled' \ scheduled :
       Cardinality({q \in scheduled' :
                      /\ q.template = r.template
                      /\ status'[q.task] \notin Finished \cup {"superseded"}})
         <= versions'[r.template][r.version].config.limit]_<<vars, automationVars>>
=============================================================================
