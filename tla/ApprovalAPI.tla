----------------------------- MODULE ApprovalAPI -----------------------------
(***************************************************************************)
(* The approval endpoints: every signed-in user may call them at any time, *)
(* in any order, with any idempotency key, and again after a response was  *)
(* lost.  told keeps what the callers of Decide and Consume were answered, *)
(* since that is what they act on: whoever is told "ok" by Consume goes on *)
(* to execute the protected action.                                        *)
(***************************************************************************)
EXTENDS Approvals

VARIABLE told

vars == <<request, told>>

\* An answer without the record of who asked: the input and the outcome.
Answer == [call : {"decide", "consume"}, id : Approval,
           input : Decision \cup Digest, key : Key, result : {"ok", "conflict"}]

Done == {"repeated", "decided", "consumed"}

\* The response to a call: success, the idempotency conflict, or another error,
\* which tells the caller only that nothing was done.
Tell(call, id, input, key, answer) ==
  told' = IF answer \in Done \cup {"conflict"}
          THEN told \cup {[call |-> call, id |-> id, input |-> input, key |-> key,
                           result |-> IF answer \in Done THEN "ok" ELSE "conflict"]}
          ELSE told

\* requireApprovalMutation turns auditors away.
MayMutate(u) == RoleOf[u] # "auditor"

CreateApproval(u, id, action, digest, eligible) ==
  /\ MayMutate(u)
  /\ Create(id, action, digest, u, eligible)
  /\ UNCHANGED told

DecideApproval(u, id, decision, key) ==
  /\ Decide(id, u, decision, key)
  /\ Tell("decide", id, decision, key, DecideAnswer(request[id], decision, key))

ConsumeApproval(u, id, digest, key) ==
  /\ MayMutate(u)
  /\ Consume(id, u, digest, key)
  /\ Tell("consume", id, digest, key, ConsumeAnswer(request[id], digest, key))

CancelApproval(u, id) ==
  /\ MayMutate(u)
  /\ Cancel(id, u)
  /\ UNCHANGED told

TimePasses(id) == DeadlinePasses(id) /\ UNCHANGED told

Init ==
  /\ request = [id \in Approval |-> NoRequest]
  /\ told = {}

Next ==
  \E id \in Approval :
    \/ TimePasses(id)
    \/ \E u \in User :
         \/ \E action \in Action, digest \in Digest, eligible \in SUBSET Privileged :
              CreateApproval(u, id, action, digest, eligible)
         \/ \E decision \in Decision, key \in Key : DecideApproval(u, id, decision, key)
         \/ \E digest \in Digest, key \in Key : ConsumeApproval(u, id, digest, key)
         \/ CancelApproval(u, id)

Spec == Init /\ [][Next]_vars

-----------------------------------------------------------------------------
(* Properties.                                                             *)

\* Every variable keeps to its type.
TypeOK ==
  /\ request \in [Approval -> Request \cup {NoRequest}]
  /\ told \subseteq Answer

\* The gate opens once: all callers that Consume ever told "ok" for a request
\* sent one and the same key and exactly the digest the request was made for,
\* and an eligible admin or maintainer had approved it.
OneConsumption ==
  \A x \in told : x.call = "consume" /\ x.result = "ok" =>
    LET r == request[x.id]
    IN /\ r.consumptionKey = x.key /\ r.digest = x.input
       /\ r.decider \in User /\ RoleOf[r.decider] \in r.eligible
       /\ \E d \in told : /\ d.call = "decide" /\ d.id = x.id
                          /\ d.input = "approved" /\ d.result = "ok"

\* One decision: nobody is told "approved" while another is told "rejected",
\* and only one key ever decides a request.
OneDecision ==
  \A x, y \in told :
    x.call = "decide" /\ y.call = "decide" /\ x.id = y.id
      /\ x.result = "ok" /\ y.result = "ok" => x.input = y.input /\ x.key = y.key

\* Every change of state is one the documented state machine allows, although
\* the store never asks it; so a final state is final, and an approval that
\* was given in time does not expire.
LegalChanges ==
  [][\A id \in Approval :
       Requested(id) /\ request'[id].state # request[id].state
         => CanTransition(request[id].state, request'[id].state)]_vars

\* A request that is still undecided when its deadline passes can only expire: a
\* decision that comes late does not count, though nobody may have noticed the
\* deadline before.  One that was approved in time has no deadline any more.
LateRequestsAreNotDecided ==
  [][\A id \in Approval :
       Requested(id) /\ request[id].late /\ request[id].state \in {"pending", "expired"}
         => request'[id].state \in {"pending", "expired"}]_vars

-----------------------------------------------------------------------------
\* "Repeated approval/consumption requests are idempotent": a call that repeats
\* one that was answered "ok" is not refused as a conflict.
RepeatsAreIdempotent ==
  \A x \in told : x.result = "ok" => [x EXCEPT !.result = "conflict"] \notin told
=============================================================================
