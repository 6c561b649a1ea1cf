------------------------------ MODULE Approvals ------------------------------
(***************************************************************************)
(* The protected-action gate: the rows of approval_requests and what       *)
(* approvals.Service and its PostgreSQLStore do to them.                   *)
(*                                                                         *)
(* Every mutation is one transaction that locks the row, so it is one      *)
(* action.  The role check of Decide and Cancel reads the row before the   *)
(* transaction, but only its requester and eligible roles, which nothing   *)
(* ever changes, so checking and writing in one step loses no behaviour.   *)
(*                                                                         *)
(* The module has no next-state relation: it offers the service's          *)
(* operations to the modules that compose them.  Each one comes as an      *)
(* answer, a function of the row and the input, and an action that applies *)
(* that answer.  Risk, reasons and timestamps are left out; expires_at is  *)
(* the Boolean "has passed".                                               *)
(***************************************************************************)
CONSTANTS
  Approval,     \* the ids of the requests
  Digest,       \* the SHA-256 digests of plans and patches
  Key,          \* the idempotency keys clients send
  User,
  RoleOf,       \* RoleOf[u]: the role of user u
  None

VARIABLE request

Action == {"repair_plan", "publish_patch", "sandbox_network"}
State == {"pending", "approved", "rejected", "expired", "cancelled", "consumed"}
Decision == {"approved", "rejected"}
Role == {"admin", "maintainer", "developer", "auditor"}
Privileged == {"admin", "maintainer"}

ASSUME ApprovalAssumption ==
  /\ RoleOf \in [User -> Role]
  /\ None \notin Key
  /\ None \notin User

NoRequest == [state |-> "absent", action |-> None, digest |-> None,
              requester |-> None, eligible |-> {}, late |-> FALSE,
              decisionKey |-> None, decider |-> None,
              consumptionKey |-> None, consumer |-> None]

Request == [state : State, action : Action, digest : Digest, requester : User,
            eligible : (SUBSET Privileged) \ {{}}, late : BOOLEAN,
            decisionKey : Key \cup {None}, decider : User \cup {None},
            consumptionKey : Key \cup {None}, consumer : User \cup {None}]

Requested(id) == request[id].state # "absent"

\* The state machine of approvals.CanTransition.  The store does not call it.
CanTransition(from, to) ==
  \/ from = "pending" /\ to \in {"approved", "rejected", "expired", "cancelled"}
  \/ from = "approved" /\ to \in {"consumed", "cancelled"}

\* Mutant: the eligible roles are not validated.
CreateUnchecked(id, action, digest, requester, eligible) ==
  /\ ~Requested(id)
  /\ request' = [request EXCEPT ![id] =
       [NoRequest EXCEPT !.state = "pending", !.action = action, !.digest = digest,
                         !.requester = requester, !.eligible = eligible]]

\* ValidateCreate admits only roles that may decide, and at least one of them.
Create(id, action, digest, requester, eligible) ==
  /\ ~Requested(id)
  /\ eligible # {} /\ eligible \subseteq Privileged
  /\ request' = [request EXCEPT ![id] =
       [NoRequest EXCEPT !.state = "pending", !.action = action, !.digest = digest,
                         !.requester = requester, !.eligible = eligible]]

\* Time passes expires_at.
DeadlinePasses(id) ==
  /\ Requested(id) /\ ~request[id].late
  /\ request' = [request EXCEPT ![id].late = TRUE]

\* Mutants: every late request counts as expired; none does.
ExpiredWhateverState(r) == r.late
NeverExpired(r) == FALSE

\* Only a pending request expires, and only when a call finds it late.
IsExpired(r) == r.state = "pending" /\ r.late

CanDecide(u, r) == RoleOf[u] \in Privileged /\ RoleOf[u] \in r.eligible

\* Mutant: a decision may be changed until it is consumed.
DecideAnswerRevises(r, decision, key) ==
  IF r.decisionKey = key
  THEN IF r.state = decision THEN "repeated" ELSE "conflict"
  ELSE IF IsExpired(r) THEN "expired"
  ELSE IF r.state \in {"pending", "approved"} THEN "decided" ELSE "closed"

DecideAnswer(r, decision, key) ==
  IF r.decisionKey = key
  THEN IF r.state = decision THEN "repeated" ELSE "conflict"
  ELSE IF IsExpired(r) THEN "expired"
  ELSE IF r.state = "pending" THEN "decided" ELSE "closed"

\* An answer other than "decided" and "expired" leaves the row as it is.
Decide(id, actor, decision, key) ==
  LET answer == DecideAnswer(request[id], decision, key)
  IN /\ Requested(id) /\ CanDecide(actor, request[id])
     /\ request' = [request EXCEPT ![id] =
          IF answer = "decided"
          THEN [@ EXCEPT !.state = decision, !.decisionKey = key, !.decider = actor]
          ELSE IF answer = "expired" THEN [@ EXCEPT !.state = "expired"] ELSE @]

\* Mutant: the digest is not compared.
ConsumeAnswerAnyDigest(r, digest, key) ==
  IF r.consumptionKey = key
  THEN IF r.state = "consumed" THEN "repeated" ELSE "conflict"
  ELSE IF IsExpired(r) THEN "expired"
  ELSE IF r.state = "approved" THEN "consumed" ELSE "closed"

ConsumeAnswer(r, digest, key) ==
  IF r.consumptionKey = key
  THEN IF r.digest = digest /\ r.state = "consumed" THEN "repeated" ELSE "conflict"
  ELSE IF IsExpired(r) THEN "expired"
  ELSE IF r.state # "approved" THEN "closed"
  ELSE IF r.digest = digest THEN "consumed" ELSE "mismatch"

Consume(id, actor, digest, key) ==
  LET answer == ConsumeAnswer(request[id], digest, key)
  IN /\ Requested(id)
     /\ request' = [request EXCEPT ![id] =
          IF answer = "consumed"
          THEN [@ EXCEPT !.state = "consumed", !.consumptionKey = key, !.consumer = actor]
          ELSE IF answer = "expired" THEN [@ EXCEPT !.state = "expired"] ELSE @]

\* The requester may withdraw a request, and so may whoever could decide one.
Cancel(id, actor) ==
  LET r == request[id]
  IN /\ Requested(id)
     /\ actor = r.requester \/ RoleOf[actor] \in Privileged
     /\ IsExpired(r) \/ r.state \in {"pending", "approved"}
     /\ request' = [request EXCEPT ![id].state =
          IF IsExpired(r) THEN "expired" ELSE "cancelled"]
=============================================================================
