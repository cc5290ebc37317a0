---------------------------- MODULE MCUserAdmin ----------------------------
(***************************************************************************)
(* Two tenants: one with two administrators and a reviewer, one with the   *)
(* System Admin and an administrator of its own.                           *)
(***************************************************************************)
EXTENDS UserAdmin, TLC

CONSTANTS ada, alan, rev, root, edna, t1, t2

MCTenantOf == [u \in User |-> IF u \in {root, edna} THEN t2 ELSE t1]

MCInitialRole ==
    [u \in User |-> CASE u \in {ada, alan, edna} -> "tenant_admin"
                      [] u = rev                 -> "reviewer"
                      [] u = root                -> "system_admin"]

SetRole(a, u, r) == [kind |-> "patch", actor |-> a, target |-> u, role |-> r,
                     status |-> "active"]
SetStatus(a, u, s) == [kind |-> "status", actor |-> a, target |-> u, role |-> "staff",
                       status |-> s]

\* The two administrators turn on each other and on themselves, the System Admin
\* and the other tenant's administrator join in, and a reviewer is promoted.
AdminCalls ==
    {SetRole(ada, alan, "staff"), SetStatus(ada, alan, "inactive"),
     SetRole(ada, ada, "reviewer"), SetStatus(alan, alan, "inactive"),
     SetStatus(alan, ada, "inactive"), SetStatus(alan, ada, "active"),
     SetRole(ada, rev, "tenant_admin"), SetRole(ada, rev, "system_admin"),
     SetRole(root, alan, "system_admin"), SetStatus(root, edna, "inactive"),
     SetStatus(edna, ada, "inactive"), SetRole(rev, ada, "staff"),
     SetRole(alan, rev, "unset")}

Symmetry == Permutations(Request)
=============================================================================
