------------------------------ MODULE RepairGate ------------------------------
(***************************************************************************)
(* What issue repair promises, without queue, workers or rows: documents   *)
(* (plans and patches) are proposed, a human consents to each or refuses   *)
(* it, once and for all; a patch is proposed only for a task that has a    *)
(* plan with consent, and only a patch with consent is shipped.            *)
(***************************************************************************)
CONSTANTS
  Task,
  Version    \* a document is the version of one task's plan or patch

VARIABLES
  doc,       \* doc[d]: its kind and the consent it has
  shipped    \* the documents pushed to the provider

Doc == Task \X Version
Kind == {"repair_plan", "publish_patch"}

Blank == [kind |-> "none", consent |-> "none"]

Has(d, kind, consent) == doc[d] = [kind |-> kind, consent |-> consent]

Propose(d) ==
  /\ doc[d] = Blank
  /\ \E kind \in Kind :
       /\ kind = "publish_patch" =>
            \E p \in Doc : p[1] = d[1] /\ Has(p, "repair_plan", "granted")
       /\ doc' = [doc EXCEPT ![d] = [kind |-> kind, consent |-> "open"]]
  /\ UNCHANGED shipped

Settle(d) ==
  /\ doc[d].consent = "open"
  /\ \E consent \in {"granted", "refused"} : doc' = [doc EXCEPT ![d].consent = consent]
  /\ UNCHANGED shipped

Ship(d) ==
  /\ Has(d, "publish_patch", "granted")
  /\ shipped' = shipped \cup {d}
  /\ UNCHANGED doc

Init == doc = [d \in Doc |-> Blank] /\ shipped = {}

Next == \E d \in Doc : Propose(d) \/ Settle(d) \/ Ship(d)

Spec == Init /\ [][Next]_<<doc, shipped>>
=============================================================================
