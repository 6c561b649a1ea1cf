------------------------------- MODULE MCRepair -------------------------------
(* One repair whose task takes three claims: plan, patch and publish.       *)
EXTENDS Repair, FiniteSets, TLC

CONSTANTS t1, u1

MCTask == {t1}
MCPullOf == [t \in MCTask |-> None]
MCRoleOf == u1 :> "maintainer"

\* Bound: at most one of the claims made so far has brought no consent, and it
\* was not the first.
Consents == Cardinality({r \in Run : request[r].state = "consumed"})
OneWastedClaim == attempts[t1] <= IF Consents = 0 THEN 1 ELSE 2 + Consents
=============================================================================
