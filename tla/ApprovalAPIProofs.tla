-------------------------- MODULE ApprovalAPIProofs --------------------------
(***************************************************************************)
(* Proofs of ApprovalAPI's properties for any number of requests, users,   *)
(* keys and digests.                                                       *)
(*                                                                         *)
(* The properties speak of answers that were given long ago.  GateInv ties *)
(* each kind of answer to what the row still says (AnswersStand), and what *)
(* a row says to how it got there (RowsTell): a decided row has its key    *)
(* and an eligible decider, and an approved one was answered "ok".         *)
(***************************************************************************)
EXTENDS ApprovalAPI, TLAPS

\* What a row's state says of its keys and of who decided it.
RowsTell ==
  \A id \in Approval :
    LET r == request[id]
    IN /\ r.state \in {"absent", "pending", "expired"} => r.decisionKey = None
       /\ r.state \in {"approved", "rejected", "consumed"} =>
            /\ r.decisionKey \in Key
            /\ r.decider \in User /\ RoleOf[r.decider] \in r.eligible
       /\ r.state # "consumed" => r.consumptionKey = None
       /\ r.state = "consumed" => r.consumptionKey \in Key
       /\ r.state \in {"approved", "consumed"} =>
            \E d \in told : /\ d.call = "decide" /\ d.id = id
                            /\ d.input = "approved" /\ d.result = "ok"

\* What an answer still says of the row.
AnswersStand ==
  \A x \in told : x.result = "ok" =>
    LET r == request[x.id]
    IN /\ x.call = "consume" => /\ r.state = "consumed"
                                /\ r.consumptionKey = x.key
                                /\ r.digest = x.input
       /\ x.call = "decide" =>
            /\ r.decisionKey = x.key
            /\ x.input = "approved" => r.state \in {"approved", "consumed", "cancelled"}
            /\ x.input = "rejected" => r.state = "rejected"
            /\ x.input \in Decision

GateInv == TypeOK /\ RowsTell /\ AnswersStand

\* The row of a step's request has its type, and the others do not change.
LEMMA RowType ==
  ASSUME TypeOK, NEW id \in Approval, Requested(id)
  PROVE  request[id] \in Request
BY DEF TypeOK, Requested, NoRequest

\* A request is only made once, so creating one cannot disturb an answer.
LEMMA CreateKeeps ==
  ASSUME GateInv, NEW u \in User, NEW id \in Approval, NEW action \in Action,
         NEW digest \in Digest, NEW eligible \in SUBSET Privileged,
         CreateApproval(u, id, action, digest, eligible)
  PROVE  GateInv'
<1>1. /\ request[id] = NoRequest
      /\ eligible \in (SUBSET Privileged) \ {{}}
      /\ UNCHANGED told
      /\ request' = [request EXCEPT ![id] =
           [NoRequest EXCEPT !.state = "pending", !.action = action, !.digest = digest,
                             !.requester = u, !.eligible = eligible]]
  BY DEF GateInv, TypeOK, CreateApproval, Create, Requested, Request, State
<1>2. request'[id] \in Request
  BY <1>1 DEF GateInv, TypeOK, Request, State, NoRequest
<1>3. TypeOK'
  BY <1>1, <1>2 DEF GateInv, TypeOK
<1>4. RowsTell'
  BY <1>1 DEF GateInv, TypeOK, RowsTell, NoRequest
<1>5. AnswersStand'
  BY <1>1 DEF GateInv, TypeOK, AnswersStand, NoRequest, Answer
<1> QED BY <1>3, <1>4, <1>5 DEF GateInv

\* Deciding writes only where no decision has been given.
LEMMA DecideKeeps ==
  ASSUME GateInv, NEW u \in User, NEW id \in Approval, NEW decision \in Decision,
         NEW key \in Key, DecideApproval(u, id, decision, key)
  PROVE  GateInv'
<1> DEFINE r == request[id]
           answer == DecideAnswer(r, decision, key)
           said(result) == [call |-> "decide", id |-> id, input |-> decision,
                            key |-> key, result |-> result]
<1> USE ApprovalAssumption
<1>1. r \in Request /\ CanDecide(u, r)
  BY RowType DEF GateInv, DecideApproval, Decide
<1>2. CASE answer = "decided"
  <2>1. /\ r.state = "pending"
        /\ told' = told \cup {said("ok")}
        /\ request' = [request EXCEPT ![id] =
             [@ EXCEPT !.state = decision, !.decisionKey = key, !.decider = u]]
    BY <1>2 DEF DecideApproval, Decide, DecideAnswer, Tell, Done
  <2>2. request'[id] \in Request /\ said("ok") \in Answer
    BY <1>1, <2>1 DEF GateInv, TypeOK, Request, State, Decision, Answer
  <2>3. TypeOK'
    BY <2>1, <2>2 DEF GateInv, TypeOK
  <2>4. RowsTell'
    <3>1. /\ request'[id].state = decision /\ request'[id].decisionKey = key
          /\ request'[id].decider = u /\ request'[id].eligible = r.eligible
          /\ request'[id].consumptionKey = r.consumptionKey
      BY <1>1, <2>1 DEF GateInv, TypeOK, Request
    <3>2. /\ said("ok") \in told' /\ said("ok").call = "decide" /\ said("ok").id = id
          /\ said("ok").input = decision /\ said("ok").result = "ok"
      BY <2>1
    <3>3. r.consumptionKey = None /\ RoleOf[u] \in r.eligible
      BY <1>1, <2>1 DEF GateInv, RowsTell, CanDecide
    <3>4. \A j \in Approval : j # id => request'[j] = request[j]
      BY <2>1 DEF GateInv, TypeOK
    <3>5. told \subseteq told'
      BY <2>1
    <3> HIDE DEF said, r, answer
    <3> QED BY <3>1, <3>2, <3>3, <3>4, <3>5 DEF GateInv, RowsTell, Decision
  <2>5. AnswersStand'
    <3>1. \A x \in told : x.result = "ok" => x.id # id
      BY <2>1, <1>1 DEF GateInv, TypeOK, RowsTell, AnswersStand, Answer
    <3> QED BY <1>1, <2>1, <3>1 DEF GateInv, TypeOK, AnswersStand, Request, Decision, Answer
  <2> QED BY <2>3, <2>4, <2>5 DEF GateInv
<1>3. CASE answer = "expired"
  <2>1. /\ r.state = "pending" /\ UNCHANGED told
        /\ request' = [request EXCEPT ![id] = [@ EXCEPT !.state = "expired"]]
    BY <1>3 DEF DecideApproval, Decide, DecideAnswer, IsExpired, Tell, Done
  <2>2. TypeOK'
    BY <1>1, <2>1 DEF GateInv, TypeOK, Request, State
  <2>3. RowsTell'
    BY <1>1, <2>1 DEF GateInv, TypeOK, RowsTell, Request
  <2>4. AnswersStand'
    BY <1>1, <2>1 DEF GateInv, TypeOK, RowsTell, AnswersStand, Request, Answer, Decision
  <2> QED BY <2>2, <2>3, <2>4 DEF GateInv
<1>4. CASE answer = "repeated"
  <2>1. /\ r.decisionKey = key /\ r.state = decision
        /\ told' = told \cup {said("ok")} /\ UNCHANGED request
    BY <1>1, <1>4 DEF GateInv, TypeOK, DecideApproval, Decide, DecideAnswer, Tell, Done
  <2>2. TypeOK'
    BY <2>1 DEF GateInv, TypeOK, Answer
  <2>3. RowsTell' /\ AnswersStand'
    BY <1>1, <2>1 DEF GateInv, TypeOK, RowsTell, AnswersStand, Decision
  <2> QED BY <2>2, <2>3 DEF GateInv
<1>5. CASE answer = "conflict"
  <2>1. told' = told \cup {said("conflict")} /\ UNCHANGED request
    BY <1>1, <1>5 DEF GateInv, TypeOK, DecideApproval, Decide, DecideAnswer, Tell, Done
  <2> QED BY <2>1 DEF GateInv, TypeOK, RowsTell, AnswersStand, Answer
<1>6. CASE answer = "closed"
  <2>1. UNCHANGED <<told, request>>
    BY <1>1, <1>6 DEF GateInv, TypeOK, DecideApproval, Decide, DecideAnswer, Tell, Done
  <2> QED BY <2>1 DEF GateInv, TypeOK, RowsTell, AnswersStand
<1>7. answer \in {"decided", "expired", "repeated", "conflict", "closed"}
  BY DEF DecideAnswer
<1> QED BY <1>2, <1>3, <1>4, <1>5, <1>6, <1>7

\* Consuming needs an approved row, and makes it one that only repeats.
LEMMA ConsumeKeeps ==
  ASSUME GateInv, NEW u \in User, NEW id \in Approval, NEW digest \in Digest,
         NEW key \in Key, ConsumeApproval(u, id, digest, key)
  PROVE  GateInv'
<1> DEFINE r == request[id]
           answer == ConsumeAnswer(r, digest, key)
           said(result) == [call |-> "consume", id |-> id, input |-> digest,
                            key |-> key, result |-> result]
<1> USE ApprovalAssumption
<1>1. r \in Request
  BY RowType DEF GateInv, ConsumeApproval, Consume
<1>2. CASE answer = "consumed"
  <2>1. /\ r.state = "approved" /\ r.digest = digest
        /\ told' = told \cup {said("ok")}
        /\ request' = [request EXCEPT ![id] =
             [@ EXCEPT !.state = "consumed", !.consumptionKey = key, !.consumer = u]]
    BY <1>2 DEF ConsumeApproval, Consume, ConsumeAnswer, Tell, Done
  <2>2. request'[id] \in Request /\ said("ok") \in Answer
    BY <1>1, <2>1 DEF GateInv, TypeOK, Request, State, Answer
  <2>3. TypeOK'
    BY <2>1, <2>2 DEF GateInv, TypeOK
  <2>4. RowsTell'
    BY <1>1, <2>1 DEF GateInv, TypeOK, RowsTell, Request
  <2>5. AnswersStand'
    <3>1. \A x \in told : x.result = "ok" /\ x.id = id =>
            x.call = "decide" /\ x.key = r.decisionKey /\ x.input = "approved"
      BY <2>1, <1>1 DEF GateInv, TypeOK, AnswersStand, Answer, Decision
    <3> QED BY <1>1, <2>1, <3>1 DEF GateInv, TypeOK, AnswersStand, Request, Decision, Answer
  <2> QED BY <2>3, <2>4, <2>5 DEF GateInv
<1>3. CASE answer = "expired"
  <2>1. /\ r.state = "pending" /\ UNCHANGED told
        /\ request' = [request EXCEPT ![id] = [@ EXCEPT !.state = "expired"]]
    BY <1>3 DEF ConsumeApproval, Consume, ConsumeAnswer, IsExpired, Tell, Done
  <2>2. TypeOK'
    BY <1>1, <2>1 DEF GateInv, TypeOK, Request, State
  <2>3. RowsTell'
    BY <1>1, <2>1 DEF GateInv, TypeOK, RowsTell, Request
  <2>4. AnswersStand'
    BY <1>1, <2>1 DEF GateInv, TypeOK, RowsTell, AnswersStand, Request, Answer, Decision
  <2> QED BY <2>2, <2>3, <2>4 DEF GateInv
<1>4. CASE answer = "repeated"
  <2>1. /\ r.consumptionKey = key /\ r.digest = digest /\ r.state = "consumed"
        /\ told' = told \cup {said("ok")} /\ UNCHANGED request
    BY <1>1, <1>4 DEF GateInv, TypeOK, ConsumeApproval, Consume, ConsumeAnswer, Tell, Done
  <2>2. TypeOK'
    BY <2>1 DEF GateInv, TypeOK, Answer
  <2>3. RowsTell' /\ AnswersStand'
    BY <1>1, <2>1 DEF GateInv, TypeOK, RowsTell, AnswersStand
  <2> QED BY <2>2, <2>3 DEF GateInv
<1>5. CASE answer = "conflict"
  <2>1. told' = told \cup {said("conflict")} /\ UNCHANGED request
    BY <1>1, <1>5 DEF GateInv, TypeOK, ConsumeApproval, Consume, ConsumeAnswer, Tell, Done
  <2> QED BY <2>1 DEF GateInv, TypeOK, RowsTell, AnswersStand, Answer
<1>6. CASE answer \in {"closed", "mismatch"}
  <2>1. UNCHANGED <<told, request>>
    BY <1>1, <1>6 DEF GateInv, TypeOK, ConsumeApproval, Consume, ConsumeAnswer, Tell, Done
  <2> QED BY <2>1 DEF GateInv, TypeOK, RowsTell, AnswersStand
<1>7. answer \in {"consumed", "expired", "repeated", "conflict", "closed", "mismatch"}
  BY DEF ConsumeAnswer
<1> QED BY <1>2, <1>3, <1>4, <1>5, <1>6, <1>7

\* Cancelling and the passing of time.
LEMMA CancelKeeps ==
  ASSUME GateInv, NEW u \in User, NEW id \in Approval, CancelApproval(u, id)
  PROVE  GateInv'
<1> USE ApprovalAssumption
<1>1. request[id] \in Request
  BY RowType DEF GateInv, CancelApproval, Cancel
<1>2. PICK s \in {"expired", "cancelled"} :
        /\ request' = [request EXCEPT ![id].state = s]
        /\ s = "expired" => request[id].state = "pending"
        /\ request[id].state \in {"pending", "approved"}
  BY DEF CancelApproval, Cancel, IsExpired
<1>3. TypeOK'
  BY <1>1, <1>2 DEF GateInv, TypeOK, Request, State, CancelApproval
<1>4. RowsTell'
  BY <1>1, <1>2 DEF GateInv, TypeOK, RowsTell, Request, CancelApproval
<1>5. AnswersStand'
  BY <1>1, <1>2 DEF GateInv, TypeOK, RowsTell, AnswersStand, Request, CancelApproval, Answer, Decision
<1> QED BY <1>3, <1>4, <1>5 DEF GateInv

LEMMA TimeKeeps ==
  ASSUME GateInv, NEW id \in Approval, TimePasses(id)
  PROVE  GateInv'
<1>1. request[id] \in Request
  BY RowType DEF GateInv, TimePasses, DeadlinePasses
<1>2. request' = [request EXCEPT ![id].late = TRUE] /\ UNCHANGED told
  BY DEF TimePasses, DeadlinePasses
<1>3. TypeOK'
  BY <1>1, <1>2 DEF GateInv, TypeOK, Request
<1>4. RowsTell'
  BY <1>1, <1>2 DEF GateInv, TypeOK, RowsTell, Request
<1>5. AnswersStand'
  BY <1>1, <1>2 DEF GateInv, TypeOK, AnswersStand, Request, Answer
<1> QED BY <1>3, <1>4, <1>5 DEF GateInv

\* GateInv is an invariant of the API.
THEOREM GateInvariant == Spec => []GateInv
<1>1. Init => GateInv
  BY DEF Init, GateInv, TypeOK, RowsTell, AnswersStand, NoRequest
<1>2. GateInv /\ [Next]_vars => GateInv'
  <2> SUFFICES ASSUME GateInv, [Next]_vars PROVE GateInv'
    OBVIOUS
  <2>1. CASE UNCHANGED vars
    BY <2>1 DEF vars, GateInv, TypeOK, RowsTell, AnswersStand
  <2>2. CASE Next
    BY <2>2, CreateKeeps, DecideKeeps, ConsumeKeeps, CancelKeeps, TimeKeeps DEF Next
  <2> QED BY <2>1, <2>2
<1> QED BY <1>1, <1>2, PTL DEF Spec

\* The rows and the answers keep to their types: TypeOK.
THEOREM ApprovalTypes == Spec => []TypeOK
BY GateInvariant, PTL DEF GateInv

\* The protected-action gate opens for one key, one digest and after one
\* eligible approval: OneConsumption.
THEOREM SingleConsumption == Spec => []OneConsumption
<1>1. GateInv => OneConsumption
  BY DEF GateInv, TypeOK, RowsTell, AnswersStand, OneConsumption, Answer
<1> QED BY <1>1, GateInvariant, PTL

\* No two callers are told different decisions: OneDecision.
THEOREM SingleDecision == Spec => []OneDecision
<1>1. GateInv => OneDecision
  BY DEF GateInv, TypeOK, AnswersStand, OneDecision, Answer, Decision
<1> QED BY <1>1, GateInvariant, PTL

\* How the state of a request may change in one step.
LEMMA StateChange ==
  ASSUME GateInv, Next, NEW j \in Approval, Requested(j)
  PROVE  /\ request'[j].state # request[j].state
              => CanTransition(request[j].state, request'[j].state)
         /\ request[j].late /\ request[j].state \in {"pending", "expired"}
              => request'[j].state \in {"pending", "expired"}
<1> USE DEF CanTransition
<1>1. request[j] \in Request
  BY RowType DEF GateInv
<1>2. PICK id \in Approval :
        \/ TimePasses(id)
        \/ \E u \in User :
             \/ \E action \in Action, digest \in Digest, eligible \in SUBSET Privileged :
                  CreateApproval(u, id, action, digest, eligible)
             \/ \E decision \in Decision, key \in Key : DecideApproval(u, id, decision, key)
             \/ \E digest \in Digest, key \in Key : ConsumeApproval(u, id, digest, key)
             \/ CancelApproval(u, id)
  BY DEF Next
<1>3. ASSUME NEW u \in User, NEW decision \in Decision, NEW key \in Key,
             DecideApproval(u, id, decision, key)
      PROVE  /\ request'[j].state # request[j].state
                   => CanTransition(request[j].state, request'[j].state)
             /\ request[j].late /\ request[j].state \in {"pending", "expired"}
                   => request'[j].state \in {"pending", "expired"}
  <2> USE ApprovalAssumption
  <2>1. request[j].decisionKey # key \/ request[j].state \notin {"pending", "expired"}
    BY DEF GateInv, RowsTell
  <2> QED BY <1>1, <1>3, <2>1
          DEF GateInv, TypeOK, DecideApproval, Decide, DecideAnswer, IsExpired, Request, Decision
<1>4. ASSUME NEW u \in User, NEW digest \in Digest, NEW key \in Key,
             ConsumeApproval(u, id, digest, key)
      PROVE  /\ request'[j].state # request[j].state
                   => CanTransition(request[j].state, request'[j].state)
             /\ request[j].late /\ request[j].state \in {"pending", "expired"}
                   => request'[j].state \in {"pending", "expired"}
  BY <1>1, <1>4 DEF GateInv, TypeOK, ConsumeApproval, Consume, ConsumeAnswer, IsExpired, Request
<1>5. ASSUME NEW u \in User, CancelApproval(u, id)
      PROVE  /\ request'[j].state # request[j].state
                   => CanTransition(request[j].state, request'[j].state)
             /\ request[j].late /\ request[j].state \in {"pending", "expired"}
                   => request'[j].state \in {"pending", "expired"}
  BY <1>1, <1>5 DEF GateInv, TypeOK, CancelApproval, Cancel, IsExpired, Request
<1>6. ASSUME TimePasses(id)
      PROVE  request'[j].state = request[j].state
  BY <1>1, <1>6 DEF GateInv, TypeOK, TimePasses, DeadlinePasses, Request
<1>7. ASSUME NEW u \in User, NEW action \in Action, NEW digest \in Digest,
             NEW eligible \in SUBSET Privileged, CreateApproval(u, id, action, digest, eligible)
      PROVE  request'[j].state = request[j].state
  <2>1. j # id
    BY <1>7 DEF CreateApproval, Create
  <2>2. request'[j] = request[j]
    BY <1>7, <2>1 DEF GateInv, TypeOK, CreateApproval, Create
  <2> QED BY <2>2
<1> QED BY <1>2, <1>3, <1>4, <1>5, <1>6, <1>7

\* The store follows the state machine it never asks: LegalChanges.
THEOREM FollowsStateMachine == Spec => LegalChanges
<1>1. GateInv /\ [Next]_vars =>
        [\A id \in Approval :
           Requested(id) /\ request'[id].state # request[id].state
             => CanTransition(request[id].state, request'[id].state)]_vars
  BY StateChange
<1> QED BY <1>1, GateInvariant, PTL DEF Spec, LegalChanges

\* A request that is undecided at its deadline can only expire:
\* LateRequestsAreNotDecided.  It says nothing of one that was approved in time.
THEOREM DeadlineHolds == Spec => LateRequestsAreNotDecided
<1>1. GateInv /\ [Next]_vars =>
        [\A id \in Approval :
           Requested(id) /\ request[id].late /\ request[id].state \in {"pending", "expired"}
             => request'[id].state \in {"pending", "expired"}]_vars
  BY StateChange
<1> QED BY <1>1, GateInvariant, PTL DEF Spec, LateRequestsAreNotDecided
=============================================================================
