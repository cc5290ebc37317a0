------------------------------ MODULE Workflow ------------------------------
(***************************************************************************)
(* The incident workflow of the FlowDesk API: filing, transitioning,       *)
(* reassigning and viewing incidents, as concurrent requests over one      *)
(* PostgreSQL database at READ COMMITTED.                                  *)
(*                                                                         *)
(* A request is a coroutine with a session of its own: one step here is    *)
(* one statement sent to the database together with the in-memory code     *)
(* that follows it, up to the next await that another request can slip     *)
(* into.  A write becomes visible at the COMMIT step of the request that   *)
(* made it; until then the request holds the lock of the incident's row.   *)
(***************************************************************************)
EXTENDS Integers, Sequences

CONSTANTS
    User,            \* accounts, all provisioned (users rows are never deleted)
    Tenant,
    TenantOf,        \* TenantOf[u]: users.tenant_id, which no endpoint changes
    InitialRole,     \* InitialRole[u]: users.role when the run starts
    Incident,        \* incident identifiers
    Filed,           \* Filed[i]: who filed i before the run starts, or NoUser
    Request,         \* requests the clients send, each handled once
    Calls,           \* what a request may ask for
    NoUser,          \* SQL NULL in incidents.assigned_to
    NoRequest,       \* nobody holds the row lock
    MaxAdminChanges  \* bound on role and status changes of accounts

Role == {"system_admin", "tenant_admin", "staff", "reviewer"}
UserStatus == {"active", "inactive"}
Status == {"open", "in_review", "closed"}
Kind == {"create", "transition", "reassign", "view"}

\* A request body, with the addressed incident and the caller.  Fields that a
\* kind of request has no use for carry any value.  note: is a non-blank
\* resolution note present?
Call == [kind : Kind, actor : User, incident : Incident, to : Status,
         note : {"text", "blank"}, target : User]

ASSUME ConstantsAssumption ==
    /\ TenantOf \in [User -> Tenant]
    /\ InitialRole \in [User -> Role]
    /\ Filed \in [Incident -> User \cup {NoUser}]
    /\ Calls \subseteq Call
    /\ Calls # {}
    /\ NoUser \notin User
    /\ NoRequest \notin Request
    /\ MaxAdminChanges \in Nat

VARIABLES
    \* the database
    role, active,                 \* users.role, users.status
    status, submitter, assignee,  \* incidents rows; "unfiled" before the INSERT
    timeline,                     \* workflow_transitions rows, in commit order
    notifications,                \* notifications rows
    lock,                         \* lock[i]: request whose open UPDATE holds row i
    \* outside the database
    audit,                        \* lines of the audit log
    clock,                        \* transactions begun so far: what now() returns
    adminChanges,                 \* counts against MaxAdminChanges
    \* the requests
    pc, call,
    started,                      \* the start time of its transaction
    answer,                       \* the HTTP status of its response
    \* what its session holds in memory
    asRole,                       \* the caller's role, from get_current_user
    seenStatus, seenAssignee,     \* the incident's columns as last SELECTed
    seenRows,                     \* length of its timeline as last SELECTed
    known                         \* the identity map's status of the user to notify

users == <<role, active, adminChanges>>
rows == <<status, submitter, assignee, timeline, notifications>>
local == <<call, started, clock>>
seen == <<asRole, seenStatus, seenAssignee, seenRows, known>>
vars == <<users, rows, lock, audit, local, pc, seen, answer>>

PCs == {"idle", "category", "load", "classify", "target", "flush", "update",
        "reread", "reclassify", "commit", "log", "final", "respond", "done"}
Answers == {"none", "200", "201", "403", "404", "409", "422", "lost"}

Row == [from : Status, to : Status, by : User, note : {"text", "blank"}, at : Nat]
Notification == [incident : Incident, recipient : User, by : User,
                 why : {"transition", "reassign"}, at : Nat]
Line == [incident : Incident, by : User, why : {"transition", "reassign"}, at : Nat]

Init ==
    /\ role = InitialRole
    /\ active = [u \in User |-> "active"]
    /\ status = [i \in Incident |-> IF Filed[i] = NoUser THEN "unfiled" ELSE "open"]
    /\ submitter = Filed
    /\ assignee = [i \in Incident |-> NoUser]
    /\ timeline = [i \in Incident |-> <<>>]
    /\ notifications = {}
    /\ lock = [i \in Incident |-> NoRequest]
    /\ audit = {}
    /\ clock = 0
    /\ adminChanges = 0
    /\ pc = [q \in Request |-> "idle"]
    /\ call = [q \in Request |-> CHOOSE c \in Calls : TRUE]
    /\ asRole = [q \in Request |-> "staff"]
    /\ seenStatus = [q \in Request |-> "unfiled"]
    /\ seenAssignee = [q \in Request |-> NoUser]
    /\ seenRows = [q \in Request |-> 0]
    /\ known = [q \in Request |-> "unloaded"]
    /\ started = [q \in Request |-> 0]
    /\ answer = [q \in Request |-> "none"]
-----------------------------------------------------------------------------
(***************************************************************************)
(* The state machine and the guards the handlers apply.  An operator whose *)
(* name starts with Buggy is a wrong version of the one after it; nothing  *)
(* in the model uses it, it is there to show that a property notices.      *)
(***************************************************************************)
Allowed == {<<"open", "in_review">>, <<"in_review", "closed">>}

\* Targets of some edge: the states in which from = to is a replay.
Reachable == {e[2] : e \in Allowed}

TenantOfIncident(i) == TenantOf[submitter[i]]

\* The roles each endpoint admits (require_role).
Permitted(kind) ==
    CASE kind = "create"     -> {"staff"}
      [] kind = "transition" -> {"reviewer", "tenant_admin"}
      [] kind = "reassign"   -> {"tenant_admin"}
      [] kind = "view"       -> Role

FirstStep(kind) ==
    CASE kind = "create" -> "category"
      [] kind = "view"   -> "final"
      [] OTHER           -> "load"

BuggyVisible(q, i) ==
    \/ asRole[q] \in {"system_admin", "tenant_admin"}
    \/ asRole[q] = "reviewer" /\ assignee[i] \in {call[q].actor, NoUser}
    \/ asRole[q] = "staff" /\ submitter[i] = call[q].actor

BuggyAssignedOnly(q, i) ==
    /\ TenantOfIncident(i) = TenantOf[call[q].actor]
    /\ asRole[q] \in {"reviewer", "tenant_admin"} => assignee[i] \in {call[q].actor, NoUser}

\* _visibility_conds, with the role the caller had when it authenticated.
Visible(q, i) ==
    \/ asRole[q] = "system_admin"
    \/ /\ TenantOfIncident(i) = TenantOf[call[q].actor]
       /\ asRole[q] = "reviewer" => assignee[i] \in {call[q].actor, NoUser}
       /\ asRole[q] = "staff" => submitter[i] = call[q].actor

BuggyLacksNote(q) == FALSE

\* UC-08 E2: closing needs a note.
LacksNote(q) == call[q].to = "closed" /\ call[q].note = "blank"

BuggyGuardHolds(q) == TRUE

\* The WHERE clause of the guarded UPDATE, on the committed row.
GuardHolds(q) == status[call[q].incident] = seenStatus[q]

\* open -> in_review of an incident that was unassigned WHEN IT WAS LOADED.
Claims(q) ==
    /\ seenStatus[q] = "open"
    /\ call[q].to = "in_review"
    /\ seenAssignee[q] = NoUser

\* The user select in reassign: an active reviewer of the incident's tenant.
Eligible(q) ==
    LET t == call[q].target
    IN  /\ TenantOf[t] = TenantOfIncident(call[q].incident)
        /\ role[t] = "reviewer"
        /\ active[t] = "active"

\* Whom the hook notifies: the submitter, or the new assignee.
Recipient(q) ==
    IF call[q].kind = "transition" THEN submitter[call[q].incident] ELSE call[q].target

\* Users have been SELECTed: the recipient, if it is one of them, enters the
\* session's identity map.  A user already in the map keeps the attributes it had.
Know(q, loaded) ==
    known' = IF known[q] = "unloaded" /\ Recipient(q) \in loaded
             THEN [known EXCEPT ![q] = active[Recipient(q)]]
             ELSE known

BuggyDeliverable(q) == known[q] = "active"

\* _deliver: not the caller, and active as far as the session knows.
Deliverable(q) == Recipient(q) # call[q].actor /\ known[q] = "active"

BuggyReleased(q) == lock

\* The end of a transaction, by COMMIT or ROLLBACK, frees the row it locked.
Released(q) == [i \in Incident |-> IF lock[i] = q THEN NoRequest ELSE lock[i]]
-----------------------------------------------------------------------------
Goto(q, step) ==
    /\ pc' = [pc EXCEPT ![q] = step]
    /\ UNCHANGED answer

Respond(q, code) ==
    /\ pc' = [pc EXCEPT ![q] = "done"]
    /\ answer' = [answer EXCEPT ![q] = code]

\* An identifier no other filing uses: ids are random UUIDs.
Fresh(i) ==
    /\ status[i] = "unfiled"
    /\ \A p \in Request : pc[p] # "idle" /\ call[p].kind = "create" => call[p].incident # i

\* A request arrives: get_current_user reads the caller's row, which begins the
\* session's transaction, and require_role admits the caller or does not.
Accept(q, c) ==
    /\ pc[q] = "idle"
    /\ c.kind = "create" => Fresh(c.incident)
    /\ call' = [call EXCEPT ![q] = c]
    /\ clock' = clock + 1
    /\ started' = [started EXCEPT ![q] = clock + 1]
    /\ asRole' = [asRole EXCEPT ![q] = role[c.actor]]
    /\ IF active[c.actor] = "active" /\ role[c.actor] \in Permitted(c.kind)
       THEN Goto(q, FirstStep(c.kind))
       ELSE Respond(q, "403")
    /\ UNCHANGED <<users, rows, lock, audit,
                   seenStatus, seenAssignee, seenRows, known>>

\* create_incident: the category is not one of the caller's tenant.
RefuseCategory(q) ==
    /\ pc[q] = "category"
    /\ Respond(q, "422")
    /\ UNCHANGED <<users, rows, lock, audit, local, seen>>

\* create_incident: the INSERT and its commit.
File(q) ==
    /\ pc[q] = "category"
    /\ LET i == call[q].incident
       IN  /\ status' = [status EXCEPT ![i] = "open"]
           /\ submitter' = [submitter EXCEPT ![i] = call[q].actor]
    /\ Goto(q, "final")
    /\ UNCHANGED <<users, assignee, timeline, notifications, lock, audit, local, seen>>

AfterLoad(step) ==
    CASE step = "load"   -> "classify"
      [] step = "reread" -> "reclassify"
      [] step = "final"  -> "respond"

\* get_incident, first SELECT: before the classification, after losing the
\* guarded UPDATE, or to build the response.  It brings the incident's columns
\* and its submitter and assignee into the session.  create_incident ends with
\* _load, which applies no visibility rule.
ReadIncident(q) ==
    /\ pc[q] \in {"load", "reread", "final"}
    /\ LET i == call[q].incident
       IN  IF status[i] # "unfiled" /\ (call[q].kind = "create" \/ Visible(q, i))
           THEN /\ seenStatus' = [seenStatus EXCEPT ![q] = status[i]]
                /\ seenAssignee' = [seenAssignee EXCEPT ![q] = assignee[i]]
                /\ IF pc[q] = "load" THEN Know(q, {submitter[i], assignee[i]})
                   ELSE UNCHANGED known
                /\ Goto(q, AfterLoad(pc[q]))
           ELSE /\ Respond(q, "404")
                /\ UNCHANGED <<seenStatus, seenAssignee, known>>
    /\ UNCHANGED <<users, rows, lock, audit, local, asRole, seenRows>>

BuggyReadTimeline(q) ==
    /\ IF pc[q] = "classify"
       THEN seenRows' = [seenRows EXCEPT ![q] = Len(timeline[call[q].incident])]
       ELSE UNCHANGED seenRows
    /\ UNCHANGED <<asRole, seenStatus, seenAssignee, known>>

\* get_incident, second SELECT: the timeline and the users who wrote it.
ReadTimeline(q) ==
    LET i == call[q].incident
    IN  /\ seenRows' = [seenRows EXCEPT ![q] = Len(timeline[i])]
        /\ IF pc[q] = "classify"
           THEN Know(q, {timeline[i][k].by : k \in DOMAIN timeline[i]})
           ELSE UNCHANGED known
        /\ UNCHANGED <<asRole, seenStatus, seenAssignee>>

\* transition: the incident is already in the requested state.
Replay(q) ==
    /\ pc[q] = "classify"
    /\ call[q].kind = "transition"
    /\ call[q].to = seenStatus[q]
    /\ ReadTimeline(q)
    /\ Respond(q, IF call[q].to \in Reachable THEN "200" ELSE "409")
    /\ UNCHANGED <<users, rows, lock, audit, local>>

\* transition: UC-08 E1, then E2, then the update may be tried.
Classify(q) ==
    /\ pc[q] = "classify"
    /\ call[q].kind = "transition"
    /\ call[q].to # seenStatus[q]
    /\ ReadTimeline(q)
    /\ IF <<seenStatus[q], call[q].to>> \notin Allowed THEN Respond(q, "409")
       ELSE IF LacksNote(q) THEN Respond(q, "422")
       ELSE Goto(q, "update")
    /\ UNCHANGED <<users, rows, lock, audit, local>>

\* reassign: a closed incident is refused before the assignee is looked at.
ClassifyReassign(q) ==
    /\ pc[q] = "classify"
    /\ call[q].kind = "reassign"
    /\ ReadTimeline(q)
    /\ IF seenStatus[q] = "closed" THEN Respond(q, "409") ELSE Goto(q, "target")
    /\ UNCHANGED <<users, rows, lock, audit, local>>
-----------------------------------------------------------------------------
\* The workflow_transitions row.  created_at is now(), the time the transaction
\* began.
RowOf(q) ==
    [from |-> seenStatus[q], to |-> call[q].to, by |-> call[q].actor,
     note |-> call[q].note, at |-> started[q]]

\* The hook's row joins the caller's transaction.  The INSERT is in a savepoint:
\* it may fail alone.
Deliver(q) ==
    LET n == [incident |-> call[q].incident, recipient |-> Recipient(q),
              by |-> call[q].actor, why |-> call[q].kind, at |-> started[q]]
    IN  \/ UNCHANGED notifications
        \/ Deliverable(q) /\ notifications' = notifications \cup {n}

\* log_workflow_transition / log_privileged_action.
Lines(q) ==
    {[incident |-> call[q].incident, by |-> call[q].actor,
      why |-> call[q].kind, at |-> started[q]]}

BuggyWinUpdate(q) ==
    /\ pc[q] = "update"
    /\ GuardHolds(q)
    /\ lock[call[q].incident] = NoRequest
    /\ lock' = [lock EXCEPT ![call[q].incident] = q]
    /\ audit' = audit \cup Lines(q)
    /\ Goto(q, "commit")
    /\ UNCHANGED <<users, rows, local, seen>>

\* The guarded UPDATE of transition.  It waits while another open transaction
\* has updated the row, then its WHERE clause is evaluated on what that one
\* committed.
WinUpdate(q) ==
    /\ pc[q] = "update"
    /\ GuardHolds(q)
    /\ lock[call[q].incident] = NoRequest
    /\ lock' = [lock EXCEPT ![call[q].incident] = q]
    /\ Goto(q, "commit")
    /\ UNCHANGED <<users, rows, audit, local, seen>>

BuggyLoseUpdate(q) ==
    /\ pc[q] = "update"
    /\ ~GuardHolds(q)
    /\ audit' = audit \cup Lines(q)
    /\ Goto(q, "reread")
    /\ UNCHANGED <<users, rows, lock, local, seen>>

\* No row matched: roll back and re-read.
LoseUpdate(q) ==
    /\ pc[q] = "update"
    /\ ~GuardHolds(q)
    /\ Goto(q, "reread")
    /\ UNCHANGED <<users, rows, lock, audit, local, seen>>

Reclassify(q) ==
    /\ pc[q] = "reclassify"
    /\ ReadTimeline(q)
    /\ Respond(q, IF seenStatus[q] = call[q].to /\ call[q].to \in Reachable
                  THEN "200" ELSE "409")
    /\ UNCHANGED <<users, rows, lock, audit, local>>

BuggyCommitTransition(q) ==
    /\ pc[q] = "commit"
    /\ call[q].kind = "transition"
    /\ lock' = Released(q)
    /\ Goto(q, "final")
    /\ UNCHANGED <<users, rows, audit, local, seen>>

\* The updated columns, the timeline row and the notification become durable
\* together, and the row lock is released.
CommitTransition(q) ==
    LET i == call[q].incident
    IN  /\ pc[q] = "commit"
        /\ call[q].kind = "transition"
        /\ status' = [status EXCEPT ![i] = call[q].to]
        /\ assignee' = [assignee EXCEPT ![i] = IF Claims(q) THEN call[q].actor ELSE @]
        /\ timeline' = [timeline EXCEPT ![i] = Append(@, RowOf(q))]
        /\ Deliver(q)
        /\ lock' = Released(q)
        /\ Goto(q, "log")
        /\ UNCHANGED <<users, submitter, audit, local, seen>>

\* reassign: the target select, then the no-op test against the loaded assignee.
CheckTarget(q) ==
    /\ pc[q] = "target"
    /\ IF ~Eligible(q) THEN Respond(q, "422") /\ UNCHANGED known
       ELSE /\ Know(q, {call[q].target})
            /\ IF seenAssignee[q] = call[q].target THEN Respond(q, "200")
               ELSE Goto(q, "flush")
    /\ UNCHANGED <<users, rows, lock, audit, local,
                   asRole, seenStatus, seenAssignee, seenRows>>

\* reassign: the ORM's UPDATE names the row by its key only.
Flush(q) ==
    /\ pc[q] = "flush"
    /\ lock[call[q].incident] = NoRequest
    /\ lock' = [lock EXCEPT ![call[q].incident] = q]
    /\ Goto(q, "commit")
    /\ UNCHANGED <<users, rows, audit, local, seen>>

CommitReassign(q) ==
    /\ pc[q] = "commit"
    /\ call[q].kind = "reassign"
    /\ assignee' = [assignee EXCEPT ![call[q].incident] = call[q].target]
    /\ Deliver(q)
    /\ lock' = Released(q)
    /\ Goto(q, "log")
    /\ UNCHANGED <<users, status, submitter, timeline, audit, local, seen>>

\* After the commit, so that a line describes a durable fact.
Log(q) ==
    /\ pc[q] = "log"
    /\ audit' = audit \cup Lines(q)
    /\ Goto(q, "final")
    /\ UNCHANGED <<users, rows, lock, local, seen>>

\* The response is built from the two SELECTs of the last get_incident.
Finish(q) ==
    /\ pc[q] = "respond"
    /\ ReadTimeline(q)
    /\ Respond(q, IF call[q].kind = "create" THEN "201" ELSE "200")
    /\ UNCHANGED <<users, rows, lock, audit, local>>
-----------------------------------------------------------------------------
\* The process dies or the database connection drops: nothing uncommitted
\* survives, and the client gets no useful answer.
Fail(q) ==
    /\ pc[q] \notin {"idle", "done"}
    /\ lock' = Released(q)
    /\ Respond(q, "lost")
    /\ UNCHANGED <<users, rows, audit, local, seen>>

Administers(a, u) ==
    /\ active[a] = "active"
    /\ \/ role[a] = "system_admin"
       \/ role[a] = "tenant_admin" /\ TenantOf[a] = TenantOf[u]

\* _guard_last_tenant_admin.
LastTenantAdmin(u) ==
    /\ role[u] = "tenant_admin" /\ active[u] = "active"
    /\ \A v \in User \ {u} : ~(/\ role[v] = "tenant_admin" /\ active[v] = "active"
                               /\ TenantOf[v] = TenantOf[u])

\* update_user with a role, as one step: what matters to a workflow request is
\* only that roles change under its feet.
ChangeRole(u) ==
    /\ adminChanges < MaxAdminChanges
    /\ \E a \in User, r \in Role :
        /\ Administers(a, u)
        /\ r = "system_admin" => role[a] = "system_admin"
        /\ r # "tenant_admin" => ~LastTenantAdmin(u)
        /\ r # role[u]
        /\ role' = [role EXCEPT ![u] = r]
    /\ adminChanges' = adminChanges + 1
    /\ UNCHANGED <<active, rows, lock, audit, local, pc, seen, answer>>

\* set_status, as one step.
ChangeStatus(u) ==
    /\ adminChanges < MaxAdminChanges
    /\ \E a \in User :
        /\ Administers(a, u)
        /\ active[u] = "active" => a # u /\ ~LastTenantAdmin(u)
    /\ active' = [active EXCEPT ![u] = IF @ = "active" THEN "inactive" ELSE "active"]
    /\ adminChanges' = adminChanges + 1
    /\ UNCHANGED <<role, rows, lock, audit, local, pc, seen, answer>>

\* Every request has been answered.
Terminating ==
    /\ \A q \in Request : pc[q] = "done"
    /\ UNCHANGED vars

\* What the server does with an accepted request, failures aside.
Handle(q) ==
    \/ RefuseCategory(q) \/ File(q)
    \/ ReadIncident(q)
    \/ Replay(q) \/ Classify(q) \/ ClassifyReassign(q)
    \/ WinUpdate(q) \/ LoseUpdate(q) \/ Reclassify(q) \/ CommitTransition(q)
    \/ CheckTarget(q) \/ Flush(q) \/ CommitReassign(q)
    \/ Log(q) \/ Finish(q)

Next ==
    \/ \E q \in Request : Handle(q) \/ Fail(q) \/ \E c \in Calls : Accept(q, c)
    \/ \E u \in User : ChangeRole(u) \/ ChangeStatus(u)
    \/ Terminating

Spec == Init /\ [][Next]_vars

\* The event loop runs every ready coroutine and PostgreSQL grants a freed row
\* lock to a waiter; clients and administrators owe nothing.
FairSpec == Spec /\ \A q \in Request : WF_vars(Handle(q))
-----------------------------------------------------------------------------
\* Every column, and everything a session remembers, holds a value of its type;
\* a filed incident has its NOT NULL submitter.
TypeOK ==
    /\ role \in [User -> Role]
    /\ active \in [User -> UserStatus]
    /\ status \in [Incident -> Status \cup {"unfiled"}]
    /\ submitter \in [Incident -> User \cup {NoUser}]
    /\ assignee \in [Incident -> User \cup {NoUser}]
    /\ \A i \in Incident : status[i] # "unfiled" => submitter[i] # NoUser
    /\ timeline \in [Incident -> Seq(Row)]
    /\ notifications \subseteq Notification
    /\ lock \in [Incident -> Request \cup {NoRequest}]
    /\ audit \subseteq Line
    /\ clock \in Nat
    /\ adminChanges \in 0..MaxAdminChanges
    /\ pc \in [Request -> PCs]
    /\ call \in [Request -> Calls]
    /\ asRole \in [Request -> Role]
    /\ seenStatus \in [Request -> Status \cup {"unfiled"}]
    /\ seenAssignee \in [Request -> User \cup {NoUser}]
    /\ seenRows \in [Request -> Nat]
    /\ known \in [Request -> UserStatus \cup {"unloaded"}]
    /\ started \in [Request -> Nat]
    /\ answer \in [Request -> Answers]
-----------------------------------------------------------------------------
(***************************************************************************)
(* Safety.                                                                 *)
(***************************************************************************)
\* The path an incident has walked when it is in a state.
Path(st) ==
    CASE st = "in_review" -> <<"open", "in_review">>
      [] st = "closed"    -> <<"open", "in_review", "closed">>
      [] OTHER            -> <<"open">>

\* NFR-06: however many requests race, the timeline of an incident is the path
\* to the state in its status column, each edge walked once
\* (workflow_service.transition, the guarded UPDATE).
TimelineIsPath ==
    \A i \in Incident :
        /\ Len(timeline[i]) = Len(Path(status[i])) - 1
        /\ \A k \in DOMAIN timeline[i] :
            /\ timeline[i][k].from = Path(status[i])[k]
            /\ timeline[i][k].to = Path(status[i])[k + 1]

\* UC-08 E2 for good: no replay, race or retry closes an incident without a
\* resolution note in the timeline.
ClosedWithNote ==
    \A i \in Incident : \A k \in DOMAIN timeline[i] :
        timeline[i][k].to = "closed" => timeline[i][k].note = "text"

\* A transition notification exists only with the timeline row of the same
\* transaction, goes to the submitter, and nobody is notified of an action of
\* their own (notification_service._deliver, dispatched inside the caller's
\* transaction).
NotificationsAreAtomic ==
    \A n \in notifications :
        /\ n.recipient # n.by
        /\ n.why = "transition" =>
            /\ n.recipient = submitter[n.incident]
            /\ \E k \in DOMAIN timeline[n.incident] :
                timeline[n.incident][k].at = n.at /\ timeline[n.incident][k].by = n.by

\* NFR-07: an audit line of a transition describes a durable timeline row, and a
\* timeline row lacks its line only while its request is between the commit and
\* the log call, or was lost there (transition, after its commit).
AuditMatchesTimeline ==
    /\ \A l \in audit : l.why = "transition" =>
        \E k \in DOMAIN timeline[l.incident] :
            timeline[l.incident][k].at = l.at /\ timeline[l.incident][k].by = l.by
    /\ \A q \in Request :
        (\E k \in DOMAIN timeline[call[q].incident] :
            timeline[call[q].incident][k].at = started[q])
        => \/ pc[q] = "log" \/ answer[q] = "lost"
           \/ \E l \in audit : l.at = started[q] /\ l.incident = call[q].incident

\* NFR-06 for the rows: a transaction leaves at most one timeline row and at most one
\* notification, whatever is replayed or classified a second time; its start time
\* identifies what it wrote (transition, reassign).
OneMovePerTransaction ==
    /\ \A m, n \in notifications : m.at = n.at => m = n
    /\ \A i, j \in Incident : \A k \in DOMAIN timeline[i], l \in DOMAIN timeline[j] :
        timeline[i][k].at = timeline[j][l].at => i = j /\ k = l

\* What NotificationPanel relies on: notifications come one at a time, with the date of
\* a transaction that has begun and that no other one carries, and stay.
NotificationsOnlyArrive ==
    [][\E n \in notifications' :
        /\ notifications' = notifications \cup {n}
        /\ n.at \in 1..clock
        /\ \A m \in notifications : m.at # n.at]_notifications

\* A request that was refused wrote nothing: no row, notification or audit line
\* carries its transaction.
RefusedWroteNothing ==
    \A q \in Request : answer[q] \in {"403", "409", "422"} =>
        /\ \A i \in Incident : \A k \in DOMAIN timeline[i] : timeline[i][k].at # started[q]
        /\ \A n \in notifications \cup audit : n.at # started[q]

\* A 200 from the transition endpoint means the requested state has been
\* reached, by this request or by another one, whoever won the race.
Rank(st) == CASE st = "unfiled" -> 0 [] st = "open" -> 1 [] st = "in_review" -> 2
              [] st = "closed" -> 3
OkMeansReached ==
    \A q \in Request : answer[q] = "200" /\ call[q].kind = "transition" =>
        Rank(status[call[q].incident]) >= Rank(call[q].to)

\* NFR-12: everyone an incident row, its timeline or its notifications name
\* belongs to the incident's tenant.
TenantIsolation ==
    /\ \A i \in Incident : status[i] # "unfiled" =>
        /\ assignee[i] # NoUser => TenantOf[assignee[i]] = TenantOfIncident(i)
        /\ \A k \in DOMAIN timeline[i] : TenantOf[timeline[i][k].by] = TenantOfIncident(i)
    /\ \A n \in notifications : TenantOf[n.recipient] = TenantOfIncident(n.incident)

\* Whoever may transition or reassign an incident keeps seeing it, but for one
\* case: the re-read after a lost update, or for the response, answers 404 only to
\* a reviewer whose incident meanwhile is assigned to somebody else, never because
\* of a role, status or submitter (get_incident called a second time).
HiddenOnlyByAssignment ==
    [][\A q \in Request :
        /\ pc[q] \in {"reread", "final"}
        /\ call[q].kind \in {"transition", "reassign"}
        /\ answer'[q] = "404"
        => /\ asRole[q] = "reviewer"
           /\ assignee[call[q].incident] \notin {call[q].actor, NoUser}]_vars

\* NFR-12: nobody learns from an answer that an incident of another tenant exists:
\* everything but 403 and 404 is for callers of its tenant and System Admins
\* (get_incident before anything else is decided).
OutsidersLearnNothing ==
    \A q \in Request :
        answer[q] \in {"200", "409", "422"} /\ call[q].kind # "create" =>
            \/ asRole[q] = "system_admin"
            \/ TenantOf[call[q].actor] = TenantOfIncident(call[q].incident)

\* A detail response is built from two SELECTs, so a commit may fall between
\* them; it may then show a timeline ahead of the status, never one that lacks
\* a step the status has taken.
ResponseNotBehind ==
    \A q \in Request : answer[q] \in {"200", "201"} =>
        seenRows[q] >= Rank(seenStatus[q]) - 1

(***************************************************************************)
(* What the handlers rely on between two of their steps: the strengthening *)
(* that makes the invariants above inductive (proved in WorkflowProofs).   *)
(***************************************************************************)
\* A row is locked by the request that is about to commit a change to it, and
\* by nothing else.
LockDiscipline ==
    /\ \A i \in Incident : lock[i] # NoRequest =>
        pc[lock[i]] = "commit" /\ call[lock[i]].incident = i
    /\ \A q \in Request : pc[q] = "commit" => lock[call[q].incident] = q

\* A transition that got past its classification asks for a legal edge, with a
\* note where one is needed; once it holds the row, the row still is in the
\* state the classification was made for.
Settled(q) ==
    /\ pc[q] = "update" => call[q].kind = "transition"
    /\ pc[q] \in {"update", "commit"} /\ call[q].kind = "transition" =>
        <<seenStatus[q], call[q].to>> \in Allowed /\ ~LacksNote(q)
    /\ pc[q] = "commit" /\ call[q].kind = "transition" =>
        seenStatus[q] = status[call[q].incident]
    /\ pc[q] \in {"target", "flush"} => call[q].kind = "reassign"
    /\ pc[q] \in {"commit", "log"} => call[q].kind \in {"transition", "reassign"}

\* No race unsettles what a handler has classified (transition and reassign,
\* from the classification to the commit).
EdgeIsSettled == \A q \in Request : Settled(q)

(***************************************************************************)
(* Liveness: an accepted request is answered.  Row locks never form a      *)
(* cycle and never outlive the transaction that took them.                 *)
(***************************************************************************)
\* However requests queue for a row, whoever was accepted gets a response.
EventuallyAnswered == \A q \in Request : pc[q] # "idle" ~> pc[q] = "done"

(***************************************************************************)
(* Refinement: without the time of its transaction, a timeline row is an   *)
(* entry of the lifecycle's log.                                           *)
(***************************************************************************)
\* A timeline row without the time.
EntryOf(r) == [from |-> r.from, to |-> r.to, by |-> r.by, note |-> r.note]

Lifecycle == INSTANCE IncidentLifecycle WITH
    state <- status,
    log <- [i \in Incident |-> [k \in 1..Len(timeline[i]) |-> EntryOf(timeline[i][k])]]

\* The handlers do what IncidentLifecycle promises: filed once, then one legal
\* edge at a time, each with its one entry.
ImplementsLifecycle == Lifecycle!LifecycleSpec

(***************************************************************************)
(* What the documents and messages of the repository say, and a race       *)
(* between two requests contradicts.                                       *)
(***************************************************************************)
\* "A closed incident cannot be reassigned."
ClosedNeverReassigned ==
    [][\A i \in Incident : status[i] = "closed" => assignee'[i] = assignee[i]]_vars

\* open -> in_review "never steals an existing assignee".
ClaimNeverSteals ==
    [][\A i \in Incident :
        status[i] = "open" /\ status'[i] = "in_review" /\ assignee[i] # NoUser
        => assignee'[i] = assignee[i]]_vars

\* "the timestamps strictly increase": rows sorted by created_at are in the
\* order of the moves.
TimestampsIncrease ==
    \A i \in Incident : \A j, k \in DOMAIN timeline[i] :
        j < k => timeline[i][j].at < timeline[i][k].at
=============================================================================
