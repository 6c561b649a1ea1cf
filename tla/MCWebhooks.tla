------------------------------ MODULE MCWebhooks ------------------------------
(* Instances of Webhooks for TLC: two heads of one pull request, a failed   *)
(* workflow run, an issue and a push at GitLab; one template and the tasks  *)
(* it may trigger.                                                          *)
EXTENDS Webhooks, TLC

CONSTANTS d1, d2, dw, di, dg, t1, t2, tw, ti, m1, m2, a1, pr

Pull(action) == [provider |-> "github", event |-> "pull_request", action |-> action,
                 branch |-> "main", repository |-> "repo", conclusion |-> ""]

MCEventOf ==
  d1 :> Pull("opened") @@ d2 :> Pull("synchronize")
  @@ dw :> [Pull("completed") EXCEPT !.event = "workflow_run", !.conclusion = "failure"]
  @@ di :> [Pull("opened") EXCEPT !.event = "issues"]
  @@ dg :> [Pull("") EXCEPT !.provider = "gitlab", !.event = "Push Hook"]

MCTaskOf == d1 :> t1 @@ d2 :> t2 @@ dw :> tw @@ di :> ti @@ dg :> ti
MCTask == {t1, t2, tw, ti, m1, m2}
MCPullOf == [t \in MCTask |-> IF t \in {t1, t2} THEN pr ELSE None]
\* The template's configurations select pull requests: the others are never triggered.
MCTriggeredTask == a1 :> (d1 :> m1 @@ d2 :> m2 @@ dw :> m2 @@ di :> m2 @@ dg :> m2)

Reviews(actions, limit) ==
  [provider |-> "github", kind |-> "code_review", scope |-> {"repo"}, limit |-> limit,
   filters |-> {[event |-> "pull_request", actions |-> actions, branches |-> {"main"}]},
   risk |-> "critical", approval |-> "required"]

\* Two valid configurations, and one that lacks the approval it needs.
MCConfig == {Reviews({"opened", "synchronize"}, 1), Reviews({"opened"}, 2),
             [Reviews({"opened"}, 1) EXCEPT !.approval = "risk_based"]}

\* Copies of a delivery race, or different deliveries; where templates race with
\* administrators, one request is in progress at a time.
Racing(D) == [h \in Handler |-> D]
Alone(h, D) == [g \in Handler |-> IF g = h THEN D ELSE {}]
Apart(h, D, E) == [g \in Handler |-> IF g = h THEN D ELSE E]

MCScenario ==
  {[level |-> 2, sent |-> Racing({d1}), posted |-> {}],
   [level |-> 5, sent |-> Racing({d1, dg}), posted |-> {t2}],
   [level |-> 5, sent |-> Racing({dw}), posted |-> {}],
   [level |-> 8, sent |-> Racing({dw, di}), posted |-> {ti}]}
  \cup {[level |-> 6, sent |-> Apart(h, {d1}, {d2}), posted |-> {}] : h \in Handler}
  \cup {[level |-> 9, sent |-> Alone(h, {d1}), posted |-> {m1}] : h \in Handler}

Symmetric == Permutations(Handler) \cup Permutations(Admin)
=============================================================================
