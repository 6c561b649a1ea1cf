----------------------------- MODULE MCTaskQueue -----------------------------
(* Instances of TaskQueue for TLC: two reviews of one pull request.         *)
EXTENDS TaskQueue, TLC

CONSTANTS t1, t2, pr

MCTask == {t1, t2}
MCPullOf == [t \in MCTask |-> pr]
=============================================================================
