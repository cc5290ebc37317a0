------------------------------- MODULE SeedRun -------------------------------
(***************************************************************************)
(* The seeding script against the deployed API: purge a previous run,      *)
(* provision the organisation, walk every planned incident through the     *)
(* workflow, rewrite the timestamps, verify.                               *)
(*                                                                         *)
(* A request is sent again when its attempt failed, although the attempt   *)
(* may have been applied, or may still be; the script may die anywhere and *)
(* be started again.  One organisation is modelled.  The server's handlers *)
(* are those of Provisioning, Categories and Workflow.  The script waits   *)
(* for an answer, so a request that is answered acts in one step; one that *)
(* the script gave up takes the steps between which others can slip in.    *)
(***************************************************************************)
EXTENDS SeedPlan, Sequences

CONSTANTS
    Admin,       \* mailbox of the organisation's administrator
    Users,       \* mailboxes of its other users, a sequence
    Task,        \* the planned incidents
    PlanSets,    \* the plans build_plan may draw, functions on Task
    Modes,       \* the ways the script may be called
    Attempts,    \* _request_with_retry's attempts
    SoftLimit,   \* AUTH_USER_SOFT_LIMIT
    MaxRuns, MaxFaults, MaxOthers   \* bounds: runs, requests of unknown fate, other accounts

Mailbox == {Admin} \cup {Users[k] : k \in DOMAIN Users}
Mode == [purge : BOOLEAN, seed : BOOLEAN, backfill : BOOLEAN, dry : BOOLEAN]

ASSUME RunAssumption ==
    /\ Users \in Seq(Mailbox) /\ Admin \notin {Users[k] : k \in DOMAIN Users}
    /\ \A j, k \in DOMAIN Users : Users[j] = Users[k] => j = k
    /\ PlanSets \subseteq [Task -> Plan] /\ PlanSets # {}
    /\ \A f \in PlanSets : \A t \in Task : Truthful(f[t])
    /\ Modes \subseteq Mode /\ Modes # {}
    /\ {Attempts, SoftLimit, MaxRuns} \subseteq Nat \ {0}
    /\ {MaxFaults, MaxOthers} \subseteq Nat

VARIABLES
    db,          \* what GoTrue and the database hold of the demo organisation
    strays,      \* users rows of the organisation after somebody renamed it
    others,      \* accounts that are not planned
    late,        \* requests given up by the script that the server may still serve
    faults, clean,   \* clean: nothing went wrong in this run, nor is under way
    run, mode, plans,
    pc, tries, exit,
    doomed, listed,       \* the tenant to purge; accounts read in preflight
    ids, user,            \* user ids the script was told; the user it provisions
    told,                 \* the last organisation any run was told of
    job, jobTries,        \* execute_incident, one task for each incident
    incident, known,      \* incident ids and transition_ids
    seen                  \* notifications read before the backfill

server == <<db, late, faults, clean>>
between == <<strays, others, run, mode, plans>>
accounts == <<doomed, listed, ids, user, told>>
tasks == <<job, jobTries, incident, known>>
vars == <<server, between, pc, tries, exit, accounts, tasks, seen>>

Jobs == {"file", "claim", "assign", "close", "done"}
Phases == {"preflight", "names", "rows", "accounts", "register", "password", "create",
           "invite", "category", "incidents", "age", "notes", "backfill", "verify", "ended"}
Exits == {"none", "ok", "failed", "crashed"}

NoMailboxes == [m \in Mailbox |-> 0]

Init ==
    /\ db = [tenant |-> 0, folded |-> FALSE, account |-> NoMailboxes, row |-> NoMailboxes,
             category |-> FALSE, incidents |-> << >>, stamped |-> FALSE,
             nextId |-> 1, clock |-> Now]
    /\ strays = {}
    /\ others = 0
    /\ late = {}
    /\ faults = 0 /\ clean = TRUE
    /\ run = 0
    /\ mode \in Modes
    /\ plans \in PlanSets
    /\ pc = "ended" /\ tries = 1 /\ exit = "none"
    /\ doomed = 0 /\ listed = {} /\ ids = NoMailboxes /\ user = 1 /\ told = 0
    /\ job = [t \in Task |-> "file"] /\ jobTries = [t \in Task |-> 1]
    /\ incident = [t \in Task |-> 0] /\ known = [t \in Task |-> {}]
    /\ seen = [t \in Task |-> 0]
-----------------------------------------------------------------------------
(***************************************************************************)
(* The server.  A request carries the tenant whose token it uses: a purge  *)
(* deletes the users rows with the tenant, and get_current_user answers    *)
(* 401 from then on.  stage and at: how far one that hangs has come, and   *)
(* when its transaction began.                                             *)
(***************************************************************************)
Request(op, by, mail, n, who) ==
    [op |-> op, by |-> by, mail |-> mail, n |-> n, who |-> who, stage |-> "sent", at |-> Never]

Result(d, code, n) == [db |-> d, code |-> code, n |-> n]
Accounts(d) == {d.account[m] : m \in Mailbox} \ {0}

\* POST /organizations: no recovery branch, a taken name (in any letters) or address
\* is a 409.
RegisterOrganization(d) ==
    IF d.tenant # 0 \/ d.folded \/ d.account[Admin] # 0 THEN Result(d, 409, 0)
    ELSE Result([d EXCEPT !.tenant = d.nextId, !.account[Admin] = d.nextId,
                          !.row[Admin] = d.nextId, !.nextId = @ + 1], 201, d.nextId)

\* SupabaseAuth.create_user.
CreateUser(d, m) ==
    IF d.account[m] # 0 THEN Result(d, 422, 0)
    ELSE Result([d EXCEPT !.account[m] = d.nextId, !.nextId = @ + 1], 200, d.nextId)

\* SupabaseAuth.delete_user, by id.
DeleteUser(d, id) ==
    IF id \notin Accounts(d) THEN Result(d, 404, 0)
    ELSE Result([d EXCEPT !.account = [m \in Mailbox |-> IF @[m] = id THEN 0 ELSE @[m]]], 200, id)

\* SupabaseAuth.set_password, and the sign-in that needs it.
SetPassword(d, id) == Result(d, IF id \in Accounts(d) THEN 200 ELSE 404, id)

\* POST /users: the row takes the id of the account there is, or of a new one.
InviteUser(d, m) ==
    LET id == IF d.account[m] # 0 THEN d.account[m] ELSE d.nextId
    IN  IF d.row[m] # 0 THEN Result(d, 409, 0)
        ELSE Result([d EXCEPT !.account[m] = id, !.row[m] = id,
                              !.nextId = IF id = @ THEN @ + 1 ELSE @], 201, id)

CreateCategory(d) ==
    IF d.category THEN Result(d, 409, 0) ELSE Result([d EXCEPT !.category = TRUE], 201, 0)

FileIncident(d) ==
    Result([d EXCEPT !.incidents = Append(@,
               [status |-> "open", assignee |-> NoReviewer, created |-> d.clock,
                updated |-> d.clock, reviewed |-> Never, closed |-> Never, notes |-> << >>])],
           201, Len(d.incidents) + 1)

Written(inc, kind, at) ==
    [inc EXCEPT !.updated = at, !.notes = Append(@, [kind |-> kind, at |-> at])]

\* POST /incidents/{id}/transitions; the replay of what was done answers 200.
MoveIncident(d, n, to, who) ==
    LET inc == d.incidents[n]
    IN  IF inc.status = to THEN Result(d, 200, n)
        ELSE IF to = "in_review" /\ inc.status = "open"
        THEN Result([d EXCEPT !.incidents[n] =
                 [Written(inc, to, d.clock) EXCEPT !.status = to, !.reviewed = d.clock, !.assignee =
                     IF @ = NoReviewer THEN who ELSE @]], 200, n)
        ELSE IF to = "closed" /\ inc.status = "in_review"
        THEN Result([d EXCEPT !.incidents[n] =
                 [Written(inc, to, d.clock) EXCEPT !.status = to, !.closed = d.clock]], 200, n)
        ELSE Result(d, 409, n)

Assigned(d, n, who, at) ==
    [d EXCEPT !.incidents[n] = [Written(@, "reassigned", at) EXCEPT !.assignee = who]]

\* POST /incidents/{id}/assign.
AssignIncident(d, n, who) ==
    IF d.incidents[n].status = "closed" THEN Result(d, 409, n)
    ELSE IF d.incidents[n].assignee = who THEN Result(d, 200, n)
    ELSE Result(Assigned(d, n, who, d.clock), 200, n)

Serve(d, q) ==
    IF q.op \in {"register", "create", "delete", "password"}
    THEN CASE q.op = "register" -> RegisterOrganization(d)
           [] q.op = "create"   -> CreateUser(d, q.mail)
           [] q.op = "delete"   -> DeleteUser(d, q.n)
           [] q.op = "password" -> SetPassword(d, q.n)
    ELSE IF d.tenant # q.by THEN Result(d, 401, 0)
    ELSE CASE q.op = "invite"   -> InviteUser(d, q.mail)
           [] q.op = "category" -> CreateCategory(d)
           [] q.op = "file"     -> FileIncident(d)
           [] q.op = "claim"    -> MoveIncident(d, q.n, "in_review", q.who)
           [] q.op = "close"    -> MoveIncident(d, q.n, "closed", q.who)
           [] q.op = "assign"   -> AssignIncident(d, q.n, q.who)
-----------------------------------------------------------------------------
(***************************************************************************)
(* _request_with_retry.  An attempt is answered, or it is lost: refused    *)
(* with 429 or 5xx, applied with its answer lost, or still under way.      *)
(***************************************************************************)
Lost == [code |-> 0, n |-> 0]
Reply(q) == [code |-> Serve(db, q).code, n |-> Serve(db, q).n]

Exchange(q, a) ==
    \/ /\ a = Reply(q)
       /\ db' = Serve(db, q).db
       /\ UNCHANGED <<late, faults, clean>>
    \/ /\ a = Lost
       /\ clean' = FALSE
       /\ \/ UNCHANGED <<db, late, faults>>
          \/ /\ faults < MaxFaults
             /\ faults' = faults + 1
             /\ \/ db' = Serve(db, q).db /\ UNCHANGED late
                \/ late' = late \cup {q} /\ UNCHANGED db

Exit(code) ==
    /\ pc' = "ended"
    /\ exit' = code
    /\ tries' = 1

Goto(phase) ==
    /\ pc' = phase
    /\ tries' = 1
    /\ UNCHANGED exit

BuggyAdvance(a, ok, phase) == IF ok THEN Goto(phase) ELSE UNCHANGED <<pc, tries, exit>>

\* One more attempt, the next phase, or SeedError.
Advance(a, ok, phase) ==
    IF a = Lost /\ tries < Attempts THEN tries' = tries + 1 /\ UNCHANGED <<pc, exit>>
    ELSE IF ok THEN Goto(phase) ELSE Exit("failed")
-----------------------------------------------------------------------------
\* main: one call of the script.
StartRun(m) ==
    /\ pc = "ended" /\ run < MaxRuns
    /\ run' = run + 1 /\ mode' = m
    /\ pc' = "preflight" /\ tries' = 1 /\ exit' = "none"
    /\ clean' = (late = {})
    /\ doomed' = 0 /\ listed' = {} /\ ids' = NoMailboxes /\ user' = 1
    /\ job' = [t \in Task |-> "file"] /\ jobTries' = [t \in Task |-> 1]
    /\ incident' = [t \in Task |-> 0] /\ known' = [t \in Task |-> {}]
    /\ seen' = [t \in Task |-> 0]
    /\ UNCHANGED <<db, late, faults, strays, others, plans, told>>

\* run: what follows the purge, or its omission.
StartSeeding == IF mode.seed /\ ~mode.dry THEN Goto("register") ELSE Exit("ok")

\* AUTH_USER_SOFT_LIMIT is reached.
Crowded == Cardinality(Accounts(db)) + others >= SoftLimit

BuggyPreflight ==
    /\ pc = "preflight"
    /\ listed' = Accounts(db) \cap {db.row[m] : m \in Mailbox}
    /\ IF Crowded THEN Exit("failed") ELSE IF mode.purge THEN Goto("names") ELSE StartSeeding
    /\ UNCHANGED <<server, between, doomed, ids, user, told, tasks, seen>>

\* preflight: the accounts are listed and counted before the purge, which works from
\* this list; the count includes what the purge would delete.
Preflight ==
    /\ pc = "preflight"
    /\ listed' = Accounts(db)
    /\ IF Crowded THEN Exit("failed") ELSE IF mode.purge THEN Goto("names") ELSE StartSeeding
    /\ UNCHANGED <<server, between, doomed, ids, user, told, tasks, seen>>

BuggyFindTenant ==
    /\ pc = "names"
    /\ doomed' = db.tenant
    /\ IF mode.dry THEN StartSeeding ELSE Goto("accounts")
    /\ UNCHANGED <<server, between, listed, ids, user, told, tasks, seen>>

\* tenant_ids_by_name: the exact name.
FindTenant ==
    /\ pc = "names"
    /\ doomed' = db.tenant
    /\ IF mode.dry THEN StartSeeding ELSE Goto("rows")
    /\ UNCHANGED <<server, between, listed, ids, user, told, tasks, seen>>

\* seed_db.purge: every row of the tenant, in one transaction.
PurgeRows ==
    /\ pc = "rows"
    /\ db' = IF doomed # 0 /\ db.tenant = doomed
             THEN [db EXCEPT !.tenant = 0, !.row = NoMailboxes, !.category = FALSE,
                             !.incidents = << >>, !.stamped = FALSE]
             ELSE db
    /\ Goto("accounts")
    /\ UNCHANGED <<late, faults, clean, between, accounts, tasks, seen>>

\* purge: then the accounts, one by one.
PurgeAccount(id) ==
    LET q == Request("delete", 0, Admin, id, NoReviewer)
    IN  /\ pc = "accounts" /\ id \in listed
        /\ \E a \in {Lost, Reply(q)} :
              /\ Exchange(q, a)
              /\ Advance(a, a.code \in {200, 404}, "accounts")
              /\ listed' = IF a = Lost THEN listed ELSE listed \ {id}
        /\ UNCHANGED <<between, doomed, ids, user, told, tasks, seen>>

Purged ==
    /\ pc = "accounts" /\ listed = {}
    /\ StartSeeding
    /\ UNCHANGED <<server, between, accounts, tasks, seen>>
-----------------------------------------------------------------------------
\* provision_org, its requests one after the other.
Register ==
    LET q == Request("register", 0, Admin, 0, NoReviewer)
    IN  /\ pc = "register"
        /\ \E a \in {Lost, Reply(q)} :
              /\ Exchange(q, a)
              /\ Advance(a, a.code = 201, "password")
              /\ ids' = [ids EXCEPT ![Admin] = a.n]
              /\ told' = IF a.code = 201 THEN a.n ELSE told
        /\ UNCHANGED <<between, doomed, listed, user, tasks, seen>>

GiveAdminPassword ==
    LET q == Request("password", 0, Admin, ids[Admin], NoReviewer)
    IN  /\ pc = "password"
        /\ \E a \in {Lost, Reply(q)} :
              /\ Exchange(q, a)
              /\ Advance(a, a.code = 200, IF Users = << >> THEN "category" ELSE "create")
        /\ UNCHANGED <<between, accounts, tasks, seen>>

\* The account first, with a password and no email ...
CreateAccount ==
    LET m == Users[user]
        q == Request("create", 0, m, 0, NoReviewer)
    IN  /\ pc = "create"
        /\ \E a \in {Lost, Reply(q)} :
              /\ Exchange(q, a)
              /\ Advance(a, a.code = 200, "invite")
              /\ ids' = [ids EXCEPT ![m] = a.n]
        /\ UNCHANGED <<between, doomed, listed, user, told, tasks, seen>>

\* ... then the row, which must come out with the account's id.
Provision ==
    LET m == Users[user]
        q == Request("invite", ids[Admin], m, 0, NoReviewer)
    IN  /\ pc = "invite"
        /\ \E a \in {Lost, Reply(q)} :
              /\ Exchange(q, a)
              /\ Advance(a, a.code = 201 /\ a.n = ids[m],
                         IF user = Len(Users) THEN "category" ELSE "create")
              /\ user' = IF a.code = 201 /\ user < Len(Users) THEN user + 1 ELSE user
        /\ UNCHANGED <<between, doomed, listed, ids, told, tasks, seen>>

AddCategory ==
    LET q == Request("category", ids[Admin], Admin, 0, NoReviewer)
    IN  /\ pc = "category"
        /\ \E a \in {Lost, Reply(q)} :
              /\ Exchange(q, a)
              /\ Advance(a, a.code = 201, "incidents")
        /\ UNCHANGED <<between, accounts, tasks, seen>>
-----------------------------------------------------------------------------
\* execute_incident: the request a task has to make next, and what follows.
JobRequest(t) ==
    LET p == plans[t]
    IN  Request(job[t], ids[Admin], Admin, incident[t],
                CASE job[t] = "file"   -> NoReviewer
                  [] job[t] = "claim"  -> p.reviewer
                  [] job[t] = "assign" -> p.reassignee
                  [] job[t] = "close"  -> p.closer)

FollowingJob(p, step) ==
    LET wanted == <<p.reviewer # NoReviewer, p.reassignee # NoReviewer, p.closer # NoReviewer>>
        names == <<"claim", "assign", "close", "done">>
        from == CASE step = "file" -> 1 [] step = "claim" -> 2 [] step = "assign" -> 3 [] OTHER -> 4
    IN  names[CHOOSE k \in from..4 :
                 (k = 4 \/ wanted[k]) /\ \A j \in from..(k - 1) : ~wanted[j]]

\* The timeline in a response.
Timeline(inc) ==
    {s \in {"in_review", "closed"} : (s = "in_review" /\ inc.reviewed # Never)
                                     \/ (s = "closed" /\ inc.closed # Never)}

\* seed_incidents: the tasks take turns; the first error ends the run.
RunTask(t) ==
    LET q == JobRequest(t)
    IN  /\ pc = "incidents" /\ job[t] # "done"
        /\ \E a \in {Lost, Reply(q)} :
              LET ok == a.code = (IF job[t] = "file" THEN 201 ELSE 200)
              IN  /\ Exchange(q, a)
                  /\ IF ok \/ (a = Lost /\ jobTries[t] < Attempts)
                     THEN UNCHANGED <<pc, tries, exit>> ELSE Exit("failed")
                  /\ jobTries' = [jobTries EXCEPT ![t] = IF ok THEN 1 ELSE @ + 1]
                  /\ job' = [job EXCEPT ![t] = IF ok THEN FollowingJob(plans[t], @) ELSE @]
                  /\ incident' = [incident EXCEPT ![t] = IF ok THEN a.n ELSE @]
                  /\ known' = [known EXCEPT ![t] =
                                 IF ok THEN Timeline(db'.incidents[a.n]) ELSE @]
        /\ UNCHANGED <<between, accounts, seen>>

Gathered ==
    /\ pc = "incidents" /\ \A t \in Task : job[t] = "done"
    /\ Goto("age")
    /\ UNCHANGED <<server, between, accounts, tasks, seen>>

\* age_notifications touches is_read only (KeepUnread says how many stay unread).
AgeNotifications ==
    /\ pc = "age"
    /\ Goto(IF mode.backfill THEN "notes" ELSE "verify")
    /\ UNCHANGED <<server, between, accounts, tasks, seen>>

\* seeded_notifications, a statement before the transaction of the backfill.
ReadNotifications ==
    /\ pc = "notes"
    /\ seen' = [t \in Task |-> Len(db.incidents[incident[t]].notes)]
    /\ Goto("backfill")
    /\ UNCHANGED <<server, between, accounts, tasks>>

\* build_stamps: rows that no task knows of keep what they have.
Stamped(d) ==
    [k \in DOMAIN d.incidents |->
        IF \E t \in Task : incident[t] = k
        THEN LET t == CHOOSE t \in Task : incident[t] = k
             IN  Stamp(d.incidents[k], plans[t], known[t], seen[t])
        ELSE d.incidents[k]]

BuggyBackfill ==
    /\ pc = "backfill"
    /\ db' = [db EXCEPT !.incidents = Stamped(db), !.stamped = TRUE]
    /\ Goto("verify")
    /\ UNCHANGED <<late, faults, clean, between, accounts, tasks, seen>>

\* backfill_timestamps: everything is checked before the COMMIT.
Backfill ==
    LET rewritten == Stamped(db)
    IN  /\ pc = "backfill"
        /\ IF \A k \in DOMAIN rewritten : Verified(rewritten[k], db.clock)
           THEN db' = [db EXCEPT !.incidents = rewritten, !.stamped = TRUE] /\ Goto("verify")
           ELSE UNCHANGED db /\ Exit("failed")
        /\ UNCHANGED <<late, faults, clean, between, accounts, tasks, seen>>

BuggyDistribution(d) ==
    [s \in PlanStatus |-> IF s = "open" THEN StatusCounts(plans)[s]
                          ELSE Cardinality({k \in DOMAIN d.incidents : d.incidents[k].status = s})]

\* GET /analytics/status-distribution.
Distribution(d) ==
    [s \in PlanStatus |-> Cardinality({k \in DOMAIN d.incidents : d.incidents[k].status = s})]

Verify ==
    /\ pc = "verify"
    /\ Exit(IF Distribution(db) = StatusCounts(plans) THEN "ok" ELSE "failed")
    /\ UNCHANGED <<server, between, accounts, tasks, seen>>
-----------------------------------------------------------------------------
\* A read or a transaction of the script fails for good: nothing is written.
GiveUp ==
    /\ pc \in {"preflight", "names", "rows", "age", "notes", "backfill", "verify"}
    /\ clean' = FALSE
    /\ Exit("failed")
    /\ UNCHANGED <<db, late, faults, between, accounts, tasks, seen>>

\* The script is killed or interrupted; it matters if there is another run to come.
Crash ==
    /\ pc # "ended" /\ run < MaxRuns
    /\ clean' = FALSE
    /\ Exit("crashed")
    /\ UNCHANGED <<db, late, faults, between, accounts, tasks, seen>>

\* A request that the script has given up: the server drops it where it is ...
Dropped(q) == late' = late \ {q} /\ UNCHANGED db

\* ... or serves it, if nothing else can come between its reads and its write ...
Served(q) ==
    /\ q.stage = "sent" /\ q.op \notin {"register", "invite", "assign"}
    /\ late' = late \ {q}
    /\ db' = Serve(db, q).db

\* ... or gets past its checks ...
Begun(q) ==
    /\ q.stage = "sent"
    /\ \/ q.op = "register" /\ db.tenant = 0 /\ ~db.folded
       \/ q.op = "invite" /\ db.tenant = q.by /\ db.row[q.mail] = 0
       \/ /\ q.op = "assign" /\ db.tenant = q.by
          /\ db.incidents[q.n].status # "closed" /\ db.incidents[q.n].assignee # q.who
    /\ late' = (late \ {q}) \cup {[q EXCEPT !.stage = "begun", !.at = db.clock]}
    /\ db' = IF q.op = "assign" THEN [db EXCEPT !.clock = @ + 1] ELSE db

\* ... then has GoTrue make the account, or (an invite) adopts the one there is ...
Made(q) ==
    LET id == db.account[q.mail]
    IN  /\ q.stage = "begun"
        /\ \/ /\ q.op \in {"register", "invite"} /\ id = 0
              /\ late' = (late \ {q}) \cup {[q EXCEPT !.stage = "made", !.n = db.nextId]}
              /\ db' = CreateUser(db, q.mail).db
           \/ /\ q.op = "invite" /\ id # 0 /\ id \notin {db.row[q.mail]} \cup strays
              /\ late' = (late \ {q}) \cup {[q EXCEPT !.stage = "adopted", !.n = id]}
              /\ UNCHANGED db

\* ... and writes what it holds, or takes back the account it made if it cannot.
Committed(q) ==
    \/ /\ q.op = "register" /\ q.stage = "made"
       /\ db.tenant = 0
       /\ late' = late \ {q}
       /\ db' = [db EXCEPT !.tenant = q.n, !.row[Admin] = q.n]
    \/ /\ q.op = "invite" /\ q.stage \in {"made", "adopted"}
       /\ db.tenant = q.by /\ db.row[q.mail] = 0
       /\ late' = late \ {q}
       /\ db' = [db EXCEPT !.row[q.mail] = q.n]
    \/ /\ q.op = "assign" /\ q.stage = "begun" /\ db.tenant = q.by
       /\ late' = late \ {q}
       /\ db' = Assigned(db, q.n, q.who, q.at)

Compensated(q) ==
    /\ q.stage = "made"
    /\ late' = (late \ {q}) \cup {Request("delete", 0, Admin, q.n, NoReviewer)}
    /\ UNCHANGED db

\* The server gets to a request that the script has given up.
Land(q) ==
    /\ q \in late
    /\ clean' = FALSE
    /\ Dropped(q) \/ Served(q) \/ Begun(q) \/ Made(q) \/ Committed(q) \/ Compensated(q)
    /\ UNCHANGED <<faults, between, pc, tries, exit, accounts, tasks, seen>>

\* Somebody else signs up; only the preflight of the next run sees it.
SignUp ==
    /\ pc = "ended" /\ run < MaxRuns /\ others < MaxOthers
    /\ others' = others + 1
    /\ UNCHANGED <<server, strays, run, mode, plans, pc, tries, exit, accounts, tasks, seen>>

\* PATCH /settings between two runs: the organisation loses its planned name, or
\* keeps it in other letters, which the purge overlooks and the register check sees.
Rename ==
    /\ pc = "ended" /\ run < MaxRuns /\ late = {}
    /\ db.tenant # 0 /\ strays = {}
    /\ strays' = {db.row[m] : m \in Mailbox} \ {0}
    /\ \E same \in BOOLEAN :
          db' = [db EXCEPT !.tenant = 0, !.folded = same, !.row = NoMailboxes,
                           !.category = FALSE, !.incidents = << >>, !.stamped = FALSE]
    /\ UNCHANGED <<late, faults, clean, others, run, mode, plans, pc, tries, exit, accounts,
                   tasks, seen>>

Terminating ==
    /\ pc = "ended" /\ run = MaxRuns /\ late = {}
    /\ UNCHANGED vars

Script ==
    \/ Preflight \/ FindTenant \/ PurgeRows \/ (\E id \in listed : PurgeAccount(id)) \/ Purged
    \/ Register \/ GiveAdminPassword \/ CreateAccount \/ Provision \/ AddCategory
    \/ (\E t \in Task : RunTask(t)) \/ Gathered \/ AgeNotifications
    \/ ReadNotifications \/ Backfill \/ Verify \/ GiveUp

Next ==
    \/ Script
    \/ \E m \in Modes : StartRun(m)
    \/ Crash
    \/ \E q \in late : Land(q)
    \/ SignUp \/ Rename
    \/ Terminating

Spec == Init /\ [][Next]_vars

\* The script's event loop runs; every attempt ends, by its timeout if need be.
FairSpec == Spec /\ WF_vars(Script)
-----------------------------------------------------------------------------
Incident == [status : PlanStatus, assignee : Reviewer \cup {NoReviewer}, created : Nat,
             updated : Nat, reviewed : Nat, closed : Nat,
             notes : Seq([kind : NoteKind, at : Nat])]

\* Rows, accounts and what the script knows have their types, and an id names one
\* mailbox only.
TypeOK ==
    /\ db.tenant \in Nat /\ db.nextId \in Nat \ {0} /\ db.clock \in Nat
    /\ db.account \in [Mailbox -> 0..(db.nextId - 1)]
    /\ db.row \in [Mailbox -> 0..(db.nextId - 1)]
    /\ db.incidents \in Seq(Incident)
    /\ {db.folded, db.category, db.stamped, clean} \subseteq BOOLEAN
    /\ \A m, w \in Mailbox : m # w /\ db.account[m] # 0 => db.account[m] # db.account[w]
    /\ pc \in Phases /\ exit \in Exits /\ tries \in 1..Attempts
    /\ job \in [Task -> Jobs] /\ jobTries \in [Task -> 1..(Attempts + 1)]
    /\ incident \in [Task -> Nat] /\ seen \in [Task -> Nat]
    /\ ids \in [Mailbox -> Nat] /\ user \in Nat /\ told \in Nat

\* "users.id IS the Supabase Auth id, so no row exists without an auth user": the
\* purge keeps to that at every step, wherever a run dies, and whichever request of
\* a dead run lands in the middle of the next one.  The exception is the
\* administrator of an organisation that no run was told of: its registration had
\* made the account when a purge listed and deleted it, and committed afterwards.
\* Rows of an organisation that was renamed are left out: the purge finds accounts
\* by address and rows by name.
RowsKeepAccounts ==
    \A m \in Mailbox : db.row[m] # 0 =>
        db.account[m] = db.row[m] \/ (m = Admin /\ db.row[m] # told)

\* Whatever earlier runs left behind, wherever they died, a run that purges first
\* and meets no fault of its own goes through; only the count of accounts, which
\* includes what it would have purged, or the planned name in other letters can
\* stop it (preflight, purge, provision_org).
CleanRunSucceeds ==
    [][clean' /\ mode.purge /\ exit = "none" /\ exit' = "failed" =>
        (pc = "preflight" /\ Crowded) \/ (pc = "register" /\ db.folded)]_vars

\* The planned incidents and nothing else, each where its plan ends.
Exact ==
    /\ \A t \in Task :
        LET inc == db.incidents[incident[t]]
        IN  /\ incident[t] \in DOMAIN db.incidents
            /\ inc.status = plans[t].status
            /\ inc.assignee = FinalAssignee(plans[t])
            /\ mode.backfill => <<inc.created, inc.reviewed, inc.closed>>
                                = <<plans[t].created, plans[t].review, plans[t].closed>>
    /\ Cardinality(DOMAIN db.incidents) = Cardinality(Task)
    /\ \A t, w \in Task : incident[t] = incident[w] => t = w
    /\ db.row = ids /\ db.account = ids

\* A run that reports success has produced its plan exactly, although requests
\* were sent twice, landed late or overlapped: no duplicated incident, no planned
\* move missing, every user under the id it signs in with (execute_incident, verify).
SuccessMeansPlan == [][pc = "verify" /\ exit' = "ok" => Exact]_vars

\* The notification of an assignment that began later than one which was written
\* after it: updated_at went back to the start of the transaction that came last.
Overtaken(inc, k) ==
    \E j \in DOMAIN inc.notes :
        /\ k < j /\ inc.notes[j].at < inc.notes[k].at
        /\ inc.notes[k].kind = "reassigned" /\ inc.notes[j].kind = "reassigned"
        /\ inc.notes[j].at = inc.updated

\* Once the backfill has committed, every incident, its timeline and its
\* notifications tell one consistent history, also when an assignment landed
\* between its reads and its transaction, or afterwards; only a notification that
\* was overtaken by an older assignment is later than updated_at
\* (backfill_timestamps).
HistoryHolds ==
    db.stamped => \A i \in DOMAIN db.incidents :
        LET inc == db.incidents[i]
        IN  /\ Timely(inc, db.clock)
            /\ \A k \in DOMAIN inc.notes :
                   \/ Within(inc, inc.notes[k].at)
                   \/ inc.created <= inc.notes[k].at /\ Overtaken(inc, k)

\* A run ends, whatever the server does with its requests (_request_with_retry).
EveryRunEnds == pc # "ended" ~> pc = "ended"
=============================================================================
