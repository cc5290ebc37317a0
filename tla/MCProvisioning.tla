--------------------------- MODULE MCProvisioning ---------------------------
(***************************************************************************)
(* Small instances of Provisioning: names and addresses that differ only   *)
(* in case, and what the clients of a run ask for.                         *)
(***************************************************************************)
EXTENDS Provisioning, TLC

CONSTANTS t1, t2, acme, ACME, globex, initech, ann, Ann, bob

MCInitialName == [t \in Existing |-> IF t = t1 THEN globex ELSE initech]
MCFold == [n \in Name |-> IF n = ACME THEN acme ELSE n]
MCMailbox == [a \in Address |-> IF a = Ann THEN ann ELSE a]

Register(n, a) == [kind |-> "register", name |-> n, address |-> a,
                   tenant |-> t1, escalates |-> FALSE]
Invite(a, t) == [kind |-> "invite", name |-> acme, address |-> a,
                 tenant |-> t, escalates |-> FALSE]
Escalate(a, t) == [kind |-> "invite", name |-> acme, address |-> a,
                   tenant |-> t, escalates |-> TRUE]
Rename(t, n) == [kind |-> "rename", name |-> n, address |-> ann,
                 tenant |-> t, escalates |-> FALSE]

\* Everybody wants ann: registrations, invitations from two tenants, one of an
\* organisation that is not there yet.
SagaCalls ==
    {Register(acme, ann), Register(globex, bob), Register(acme, bob),
     Invite(ann, t1), Invite(Ann, t1), Invite(ann, t2), Escalate(bob, t1),
     Rename(t1, acme), Rename(t1, globex)}
    \cup {Invite(ann, q) : q \in Request}

InviteCalls == {Invite(ann, t1), Invite(ann, t2)}

Symmetry == Permutations(Request)
=============================================================================
