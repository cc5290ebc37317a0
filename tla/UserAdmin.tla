------------------------------ MODULE UserAdmin ------------------------------
(***************************************************************************)
(* Administering users: PATCH /users/{id} and activate / deactivate as     *)
(* concurrent requests.  A request reads its target, may count the         *)
(* administrators of the target's tenant, and commits: three transactions' *)
(* worth of time in which other requests commit.                           *)
(***************************************************************************)
EXTENDS Naturals, FiniteSets

CONSTANTS
    User, Tenant, TenantOf,
    InitialRole,     \* InitialRole[u]: users.role when the run starts
    Request,
    Calls,           \* what a request may ask for
    NoCall

Role == {"system_admin", "tenant_admin", "staff", "reviewer"}
UserStatus == {"active", "inactive"}

\* A PATCH names a role, unless it only changes the user's name; an activation or
\* deactivation names a status.  The other field carries any value.
Call == [kind : {"patch", "status"}, actor : User, target : User,
         role : Role \cup {"unset"}, status : UserStatus]

ASSUME ConstantsAssumption ==
    /\ IsFiniteSet(User)
    /\ TenantOf \in [User -> Tenant]
    /\ InitialRole \in [User -> Role]
    /\ Calls \subseteq Call
    /\ NoCall \notin Calls

VARIABLES
    role, status,         \* the users rows
    pc, call,
    asRole,               \* the caller's role, from get_current_user
    seenRole, seenStatus, \* the target as the session loaded it
    overtaken,            \* history: has the users table changed since then?
    answer

rows == <<role, status>>
seen == <<asRole, seenRole, seenStatus>>
vars == <<rows, pc, call, seen, overtaken, answer>>

PCs == {"idle", "load", "check", "count", "commit", "done"}
Answers == {"none", "200", "403", "404", "409", "lost"}

Init ==
    /\ role = InitialRole
    /\ status = [u \in User |-> "active"]
    /\ pc = [q \in Request |-> "idle"]
    /\ call = [q \in Request |-> NoCall]
    /\ asRole = [q \in Request |-> "staff"]
    /\ seenRole = [q \in Request |-> "staff"]
    /\ seenStatus = [q \in Request |-> "active"]
    /\ overtaken = [q \in Request |-> FALSE]
    /\ answer = [q \in Request |-> "none"]
-----------------------------------------------------------------------------
Goto(q, step) ==
    /\ pc' = [pc EXCEPT ![q] = step]
    /\ UNCHANGED answer

Respond(q, code) ==
    /\ pc' = [pc EXCEPT ![q] = "done"]
    /\ answer' = [answer EXCEPT ![q] = code]

\* The active Tenant Admins of a tenant.
Admins(t) == {u \in User : TenantOf[u] = t /\ role[u] = "tenant_admin" /\ status[u] = "active"}

\* get_current_user and require_role.  CurrentUser is a copy, so the session has
\* forgotten the caller's row when the handler runs, and loads it again for a
\* caller who administers themselves.
Begin(q, c) ==
    /\ pc[q] = "idle"
    /\ call' = [call EXCEPT ![q] = c]
    /\ asRole' = [asRole EXCEPT ![q] = role[c.actor]]
    /\ IF /\ status[c.actor] = "active"
          /\ role[c.actor] \in {"tenant_admin", "system_admin"}
       THEN Goto(q, "load")
       ELSE Respond(q, "403")
    /\ UNCHANGED <<rows, seenRole, seenStatus, overtaken>>

BuggyOutOfScope(q) ==
    asRole[q] # "system_admin" /\ role[call[q].target] = "system_admin"

OutOfScope(q) ==
    asRole[q] # "system_admin" /\ TenantOf[call[q].target] # TenantOf[call[q].actor]

\* get_user.
Load(q) ==
    /\ pc[q] = "load"
    /\ seenRole' = [seenRole EXCEPT ![q] = role[call[q].target]]
    /\ seenStatus' = [seenStatus EXCEPT ![q] = status[call[q].target]]
    /\ overtaken' = [overtaken EXCEPT ![q] = FALSE]
    /\ IF OutOfScope(q) THEN Respond(q, "404") ELSE Goto(q, "check")
    /\ UNCHANGED <<rows, call, asRole>>

BuggyGuardApplies(q) == seenRole[q] = "tenant_admin"

\* _guard_last_tenant_admin looks no further unless the target, as loaded, is an
\* active Tenant Admin.
GuardApplies(q) == seenRole[q] = "tenant_admin" /\ seenStatus[q] = "active"

Escalates(q) == call[q].role = "system_admin" /\ asRole[q] # "system_admin"

\* update_user, up to the guard.
CheckRole(q) ==
    /\ pc[q] = "check"
    /\ call[q].kind = "patch"
    /\ IF Escalates(q) THEN Respond(q, "403")
       ELSE Goto(q, IF call[q].role \notin {"tenant_admin", "unset"} /\ GuardApplies(q)
                    THEN "count" ELSE "commit")
    /\ UNCHANGED <<rows, call, seen, overtaken>>

Deactivates(q) == call[q].status = "inactive" /\ seenStatus[q] = "active"

\* set_status, up to the guard: gated on the transition, never on the target
\* state, so that activation is never refused.
CheckStatus(q) ==
    /\ pc[q] = "check"
    /\ call[q].kind = "status"
    /\ IF Deactivates(q) /\ call[q].target = call[q].actor THEN Respond(q, "403")
       ELSE Goto(q, IF Deactivates(q) /\ GuardApplies(q) THEN "count" ELSE "commit")
    /\ UNCHANGED <<rows, call, seen, overtaken>>

BuggyCount(q) ==
    /\ pc[q] = "count"
    /\ IF Cardinality(Admins(TenantOf[call[q].actor])) > 1 \/ asRole[q] = "system_admin"
       THEN Goto(q, "commit") ELSE Respond(q, "409")
    /\ UNCHANGED <<rows, call, seen, overtaken>>

\* _count_active_tenant_admins, in the target's tenant and not the caller's.
Count(q) ==
    /\ pc[q] = "count"
    /\ IF Cardinality(Admins(TenantOf[call[q].target])) > 1
       THEN Goto(q, "commit") ELSE Respond(q, "409")
    /\ UNCHANGED <<rows, call, seen, overtaken>>

\* The role a PATCH leaves its target with.
Patched(q) ==
    IF call[q].role \in {"unset", seenRole[q]} THEN role[call[q].target] ELSE call[q].role

BuggyCommit(q) ==
    /\ pc[q] = "commit"
    /\ LET u == call[q].target
       IN  IF call[q].kind = "patch"
           THEN /\ role' = [role EXCEPT ![u] = IF @ = seenRole[q] THEN Patched(q) ELSE @]
                /\ UNCHANGED status
           ELSE /\ status' = [status EXCEPT ![u] = call[q].status]
                /\ UNCHANGED role
    /\ overtaken' = [p \in Request |-> overtaken[p] \/ (p # q /\ rows' # rows)]
    /\ Respond(q, "200")
    /\ UNCHANGED <<call, seen>>

\* The UPDATE names the one column the request changes, and there is none if the
\* column already had that value when it was loaded.
Commit(q) ==
    /\ pc[q] = "commit"
    /\ LET u == call[q].target
       IN  IF call[q].kind = "patch"
           THEN role' = [role EXCEPT ![u] = Patched(q)] /\ UNCHANGED status
           ELSE /\ status' = [status EXCEPT ![u] =
                       IF call[q].status = seenStatus[q] THEN @ ELSE call[q].status]
                /\ UNCHANGED role
    /\ overtaken' = [p \in Request |-> overtaken[p] \/ (p # q /\ rows' # rows)]
    /\ Respond(q, "200")
    /\ UNCHANGED <<call, seen>>

\* The request dies before its commit, or after it.
Fail(q) ==
    /\ pc[q] \notin {"idle", "done"}
    /\ Respond(q, "lost")
    /\ UNCHANGED <<rows, call, seen, overtaken>>

Terminating ==
    /\ \A q \in Request : pc[q] = "done"
    /\ UNCHANGED vars

Next ==
    \/ \E q \in Request :
        \/ \E c \in Calls : Begin(q, c)
        \/ Load(q) \/ CheckRole(q) \/ CheckStatus(q) \/ Count(q) \/ Commit(q) \/ Fail(q)
    \/ Terminating

Spec == Init /\ [][Next]_vars
-----------------------------------------------------------------------------
\* Roles and statuses of the rows and of what sessions remember have their types.
TypeOK ==
    /\ role \in [User -> Role]
    /\ status \in [User -> UserStatus]
    /\ pc \in [Request -> PCs]
    /\ call \in [Request -> Calls \cup {NoCall}]
    /\ asRole \in [Request -> Role]
    /\ seenRole \in [Request -> Role]
    /\ seenStatus \in [Request -> UserStatus]
    /\ overtaken \in [Request -> BOOLEAN]
    /\ answer \in [Request -> Answers]
    /\ \A q \in Request : pc[q] # "idle" => call[q] # NoCall

\* D-3: a tenant loses its last active administrator only to a race, that is to
\* a request in whose back the users table changed between its reading of the
\* target and its commit.  The docstring of _guard_last_tenant_admin accepts
\* that race; this says that it accepts nothing else, for System Admins acting
\* on other tenants and for roles and statuses alike.
LastAdminFallsOnlyToARace ==
    [][\A q \in Request, t \in Tenant :
        pc[q] = "commit" /\ answer'[q] = "200" /\ Admins(t) # {} /\ Admins(t)' = {}
        => overtaken[q]]_vars

\* NFR-12 and UC-03 E2: whatever roles change under way, a users row is changed
\* for a caller who, when authenticated, was a System Admin or administered the
\* row's tenant, and only the former makes System Admins.
WritesAreAuthorised ==
    [][\A u \in User : <<role[u], status[u]>>' # <<role[u], status[u]>> =>
        \E q \in Request :
            /\ pc[q] = "commit" /\ answer'[q] = "200" /\ call[q].target = u
            /\ \/ asRole[q] = "system_admin"
               \/ /\ asRole[q] = "tenant_admin"
                  /\ TenantOf[call[q].actor] = TenantOf[u]
                  /\ role'[u] = "system_admin" => role[u] = "system_admin"]_vars

\* The other half of D-3: the guard refuses only to take the one active administrator
\* there is, unless the users table changed behind it; appointing another one first,
\* as the error advises, always helps (_guard_last_tenant_admin).
GuardSparesTheOthers ==
    [][\A q \in Request : pc[q] = "count" /\ answer'[q] = "409" /\ ~overtaken[q] =>
        Admins(TenantOf[call[q].target]) = {call[q].target}]_vars

\* A 200 means that the row has what was asked for, also when no column was written
\* because the session had loaded that value already; only then can a request
\* that was overtaken find it gone (update_user, set_status).
OkMeansDone ==
    [][\A q \in Request : pc[q] = "commit" /\ answer'[q] = "200" =>
        LET u == call[q].target
        IN  /\ call[q].kind = "status" =>
                \/ status'[u] = call[q].status
                \/ overtaken[q] /\ seenStatus[q] = call[q].status
            /\ call[q].kind = "patch" /\ call[q].role # "unset" =>
                \/ role'[u] = call[q].role
                \/ overtaken[q] /\ seenRole[q] = call[q].role]_vars
=============================================================================
