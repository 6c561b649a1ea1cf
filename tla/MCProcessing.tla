---------------------------- MODULE MCProcessing ----------------------------
(***************************************************************************)
(* Instance of Processing: one task, a review or a diagnosis, of a pull    *)
(* request; its attempts, workers and a reader race.                       *)
(***************************************************************************)
EXTENDS Processing, TLC

CONSTANTS t1, pr

MCPullOf == t1 :> pr

\* Two attempts race, or one attempt and its log are followed.
MCPlan == {[attempts |-> 2, readers |-> {}, logs |-> 0],
           [attempts |-> 1, readers |-> Reader, logs |-> 1]}
=============================================================================
