----------------------------- MODULE MCWorkflow -----------------------------
(***************************************************************************)
(* Small instances of Workflow: who works for whom, and what the clients   *)
(* of a run ask for.                                                       *)
(***************************************************************************)
EXTENDS Workflow, TLC

CONSTANTS staff, rev1, rev2, admin, outsider, root, t1, t2, i1, i2

MCTenantOf == [u \in User |-> IF u \in {outsider, root} THEN t2 ELSE t1]

MCInitialRole ==
    [u \in User |-> CASE u = staff          -> "staff"
                      [] u \in {rev1, rev2} -> "reviewer"
                      [] u = admin          -> "tenant_admin"
                      [] u = outsider       -> "tenant_admin"
                      [] u = root           -> "system_admin"]

Create(u, i) == [kind |-> "create", actor |-> u, incident |-> i, to |-> "open",
                 note |-> "blank", target |-> u]
Move(u, i, to, note) == [kind |-> "transition", actor |-> u, incident |-> i, to |-> to,
                         note |-> note, target |-> u]
Assign(u, i, t) == [kind |-> "reassign", actor |-> u, incident |-> i, to |-> "open",
                    note |-> "blank", target |-> t]
View(u, i) == [kind |-> "view", actor |-> u, incident |-> i, to |-> "open",
               note |-> "blank", target |-> u]

\* Every incident but the last is waiting in the queue.
MCFiled == [i \in Incident |-> IF i = i2 THEN NoUser ELSE staff]

\* One open incident: claims, closes with and without a note, a reassignment.
RaceCalls ==
    {Move(rev1, i1, "in_review", "blank"), Move(rev2, i1, "in_review", "blank"),
     Move(rev2, i1, "closed", "blank"), Move(admin, i1, "closed", "text"),
     Assign(admin, i1, rev2)}

\* Every kind of request, callers of two tenants and a System Admin.
TenantCalls ==
    {Create(staff, i2), View(root, i1),
     Move(staff, i1, "in_review", "blank"), Move(outsider, i1, "in_review", "blank"),
     Move(admin, i1, "in_review", "blank"), Move(admin, i1, "open", "blank"),
     Move(admin, i1, "closed", "blank"), Move(admin, i1, "closed", "text"),
     Assign(admin, i1, rev1), Assign(admin, i1, outsider), Assign(outsider, i1, rev1)}

Symmetry == Permutations(Request)
=============================================================================
