---------------------------- MODULE MCApprovalAPI ----------------------------
(* One request, two digests, two keys, and a user of every role.  Requests  *)
(* share no state, so one of them shows what each of them does.             *)
EXTENDS ApprovalAPI

CONSTANTS adm, mnt, dev, aud

MCUser == {adm, mnt, dev, aud}
MCRoleOf == [u \in MCUser |-> IF u = adm THEN "admin"
                              ELSE IF u = mnt THEN "maintainer"
                              ELSE IF u = dev THEN "developer" ELSE "auditor"]
=============================================================================
