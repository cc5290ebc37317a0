# FlowDesk backend: a TLA+ model

FlowDesk is a multi-tenant incident desk: a FastAPI service over PostgreSQL
(SQLAlchemy, asyncpg, READ COMMITTED) with Supabase Auth (GoTrue) as the identity
provider.  This directory holds TLA+ modules for the parts of the service whose
correctness depends on the order of things, TLC configurations that check them on
small instances, and TLAPS proofs that the safety properties they check hold in every
instance.

Every HTTP request is a coroutine with a database session of its own.  Requests share
nothing in memory; they meet in the database and at GoTrue.  One action of a model is
one statement, transaction or call to GoTrue together with the in-memory code after it,
up to the next `await` at which another request can matter.

## 1. Inventory

| Component | State | Operations | Meets others through |
|---|---|---|---|
| Incident workflow (`workflow_service`, `incident_service`) | `incidents`, `workflow_transitions` | file, get, list, transition, reassign | row locks, the guarded UPDATE, the notification hooks |
| Notification dispatch (`notification_service`, first half) | `notifications` | two hooks called inside the caller's transaction, with a savepoint | the caller's session and its identity map |
| Notification panel (second half) | `notifications.is_read` | list, unread count, mark one, mark all | row locks among its own requests; rows the dispatch adds meanwhile |
| Auth dependencies (`deps`, `security`) | none; reads `users` | verify the JWT, load the caller, check the role | role and status changes by administrators |
| Provisioning sagas (`tenant_service`, `user_service.invite_user`, `supabase_admin`) | `tenants`, `users`; accounts at GoTrue | register an organisation, invite a user | HTTP calls that fail, time out or land late; each other |
| User administration (`user_service`) | `users.role`, `users.status` | patch, activate, deactivate | the count of active administrators |
| Settings (`settings_service`) | `tenants.name`, `.timezone` | read, patch | registrations, analytics |
| Categories (`category_service`) | `categories` | list, get, create, update, delete | incidents that reference them |
| Analytics (`analytics_service`) | none | weekly volume, status distribution | reads incidents, the tenant's zone, the clock |
| Audit log (`core/logging`) | lines on stdout | one line after a commit | written outside the transaction |
| Error envelope, config, schemas | none | render, validate | - |
| Seed scripts (`scripts/seed_demo`, `seed_fixtures`, `seed_db`) | the demo organisations: accounts, rows, incidents, their timestamps | purge, provision, walk the plan, backfill, verify | the API over HTTP, GoTrue, SQL of their own |
| Migrations | the schema | run by an operator | the constraints the handlers fall back on |

What is hard here:

* **Interleaving at READ COMMITTED.**  A handler reads, decides, and writes later.
  `transition` protects its decision with `UPDATE ... WHERE status = :seen`; `reassign`
  relies on the key alone; the last-administrator guard counts and then acts;
  categories are checked and then used.  `mark_all_read` is one UPDATE that locks its
  rows one after the other, so two of them can wait for each other.
* **Two systems, no common transaction.**  An account at GoTrue and a row in `users`
  are kept in step by a saga whose compensation deletes the account.
* **Failure.**  Timeouts with unknown outcome, a COMMIT that may or may not have
  happened, a compensation that fails, a process that dies between commit and log line.
* **Retries.**  The seeding script sends a request again when an attempt failed, although
  the attempt may have been applied, or may be applied minutes later, in the next run.
* **Time.**  `created_at` is the start of the transaction, not of the change; weeks are
  local, instants are not.

What makes each component correct: an incident walks `open -> in_review -> closed`, one
edge at a time, every edge logged once, a close with its note, whoever races (UC-08,
NFR-06); notifications and audit lines match what is durable (NFR-07); tenants stay
apart (NFR-12); accounts are deleted only at the word of their creator's compensation,
however late, and no orphan is unexplained (D-4); a registration is whole (UC-02); a tenant keeps an administrator
but for one accepted race (D-3); an incident keeps its category (UC-04 A2); what was
marked read stays read, and paging skips nothing; a seeding run that reports success has
produced its plan and nothing else, and its history is one that could have happened.

`PROJECT.json` lists the hazards one by one, at the line where they bite, with the
property that watches each.

## 2. Modules

| Module | Models | Code |
|---|---|---|
| `IncidentLifecycle` | the promise: incidents filed once, moved edge by edge, each move logged | UC-06, UC-08, NFR-06 |
| `Identities` | the promise: an identity is created once, gets one row at most, and is withdrawn only while held: until its saga ends, or longer if the saga asked for a deletion and got no answer | D-4, `tenant_service`, `user_service.invite_user` |
| `Workflow` | the handlers that keep it | `workflow_service`, `incident_service`, `notification_service` (dispatch), `deps` |
| `NotificationPanel` | paging, the unread badge, mark one, mark all | `notification_service` (panel), its route |
| `Provisioning` | registration, invitation, rename, GoTrue | `tenant_service`, `user_service.invite_user`, `supabase_admin`, `settings_service` |
| `UserAdmin` | role and status changes, last-administrator guard | `user_service.update_user`, `set_status` |
| `Categories` | categories against updates, deletes and filings | `category_service`, `incident_service.create_incident` |
| `Analytics` | the weekly volume chart against clocks, zones and filings | `analytics_service`, its route, `settings_service` |
| `SeedPlan` | the plan of the demo data, and what the backfill writes of it | `seed_fixtures`, `seed_demo.build_stamps`, `seed_db` |
| `SeedRun` | one organisation from purge to verification, over an unreliable server | `seed_demo`, `seed_db`; the handlers it calls |
| `WorkflowProofs`, `WorkflowAuditProofs`, `NotificationPanelProofs`, `ProvisioningProofs`, `UserAdminProofs`, `CategoriesProofs`, `AnalyticsProofs`, `SeedProofs` | proofs about the module they are named after | - |
| `MC...` | small instances of each | - |

`Workflow` composes the incident handlers with the dispatch and with the dependencies
that authenticate a request.  `NotificationPanel` and `SeedRun` compose with it by
contract: `Arrive` of the former is what a commit of `Workflow` does to `notifications`
(that it does nothing else to them is `NotificationsOnlyArrive`, proved), and the server in
the latter is the handlers of `Provisioning`, `Categories` and `Workflow`: a request that
is answered acts in one step, since the script waits for it, and one that the script has
given up takes the steps between which others can slip in.

Operators whose name starts with `Buggy` are wrong versions of the definition that
follows them: a dropped guard, a log line too early, a missing rollback.  Nothing in the
models uses them.  Put in place of the right version, each makes a property fail; they
are what shows that a property can fail.

### Workflow

`incidents` is `status`, `submitter` and `assignee`; `workflow_transitions` is
`timeline`; `lock` is the row lock an uncommitted UPDATE holds.  A request `q` has a
program counter `pc[q]` and what its session remembers: `asRole` (the role
`get_current_user` read), `seenStatus` and `seenAssignee` (the incident as loaded),
`known` (the status of the user to notify, as the identity map has it).

| Step | Code |
|---|---|
| `Accept` | `get_current_user`, `require_role`; begins the transaction, so it fixes `now()` |
| `RefuseCategory`, `File` | `create_incident` |
| `ReadIncident`, then `ReadTimeline` inside the next step | the two SELECTs of `get_incident` |
| `Replay`, `Classify` | the idempotent replay, UC-08 E1 and E2 |
| `WinUpdate` / `LoseUpdate` | the guarded UPDATE: waits for the row lock, then evaluates its WHERE on what was committed |
| `CommitTransition` | timeline row, notification, COMMIT |
| `Reclassify` | the loser's second look |
| `ClassifyReassign`, `CheckTarget`, `Flush`, `CommitReassign` | `reassign` |
| `Log` | the audit line after the commit |
| `Finish` | the response |
| `Fail` | the process or its connection dies, or an unhandled error ends the request: rollback |
| `ChangeRole`, `ChangeStatus` | `update_user`, `set_status` as one step each |

Uncommitted data is visible to nobody, so the writes of a transaction appear at its
COMMIT step.  An UPDATE that meets a locked row waits (`lock = NoRequest` is a conjunct
of `WinUpdate` and `Flush`).  An UPDATE whose WHERE already fails on the committed row
does not wait (`LoseUpdate`).  `Deliver` may leave `notifications` alone even when the
recipient qualifies: that is the savepoint rolling back.

### NotificationPanel

`stored`, `stamp` and `isRead` are the rows; a client has one request at a time.  A
statement is a step, but `mark_all_read`'s UPDATE is a step per row (`Visit`): it takes
the rows its snapshot matched in any order, waits for the lock of each, evaluates its
WHERE again on the row as it then is, and keeps the lock until its COMMIT.  Two of them
can wait for each other; `Deadlock` is PostgreSQL aborting one, which the handler turns
into a 500.  `MarkRead` flushes and commits in one step, since nothing comes between.

A listing is a walk: `CountRows` and `ReadPage` are the two statements of one request,
and the client asks for the next page while there is more.  `created_at` is the start of
the transaction, so `Arrive` may put a row anywhere in the order, and equal stamps are
ordered by id.  `earlier` is a history variable: the rows that were read when the walk
began.

### Provisioning

`account` is GoTrue, keyed by the lower-cased mailbox; `users` and `orgName` are the
database.  An account or tenant is named after the request that brought it about,
because its identifier is a fresh UUID.  `unanswered` holds the requests whose invite
got no answer; `Land` creates their account at any later time, or never.  `deleting` holds
the accounts whose DELETE was sent and got no answer: `CompensationFails` (a timeout) and
`Crash` (the process dies after sending it) may leave one there, and `LandDelete` applies it
at any later time, or never, whoever uses the account by then.  `Break` is any database
error that is not a constraint, a COMMIT whose outcome is unknown included.

`answer` is set when it is decided, before the compensation runs, since the compensation
cannot change it any more.  `AnswersAreTrue` therefore speaks of the answers of commits and
refusals; it would not notice a compensation that goes wrong, which is what
`OrphansAreAccountedFor` and `CompensatesOnlyItsOwn` watch.

It implements `Identities`, where an identity is an account from its creation on, also when
it is gone.  `Live` are the accounts GoTrue has, `Known` those and the ones whose creator
knows of them (only those can be gone), `Home` is the mailbox of each.  An identity is
`Held` while it may still be taken back: between the answer to its invite and the COMMIT or
compensation of the request that created it, and beyond the end of that request for as long
as its DELETE is in `deleting`.  `Withdrawn` are the known ones that are not live.  An
account that lands after its request stopped waiting is never held, and so never withdrawn.
`Identities` does not promise that nobody admits a row for an identity another saga holds:
that is the adoption of the finding below, and `DanglingRowsAreExplained` says that every
dangling row is of this kind.

### UserAdmin

A request loads its target, may count the administrators, and commits.  `overtaken[q]`
is a history variable: another request has changed the users table since `q` loaded its
target.  It makes the race that the docstring of `_guard_last_tenant_admin` accepts
expressible, so that everything else can be excluded.

### Categories

Two-step requests against one category.  The database's constraints decide at the
commit.  An UPDATE or refresh that finds its row gone, and an INSERT of an incident that
violates the foreign key, are not caught by the handlers and answer 500.

### Analytics

A chart is one request: `Resolve` reads the zone and computes the window without an
`await`, `Query` is the grouped SELECT and the fill with zeros.  Days are integers
counted from `date.min`, a Monday.  The time zone database is two constants, `LocalDay`
(what `AT TIME ZONE` yields) and `Midnight` (what `datetime.combine` yields), tied by
`CalendarAssumption`: dates do not go back, and no clock change straddles the midnight
that begins a Monday.  The query selects with the one and groups with the other; that
they agree is the point.  Python's clock and PostgreSQL's are taken to be one.  A chart
writes nothing, so one is enough: two cannot affect each other.

### SeedPlan and SeedRun

`SeedPlan` is pure: `FillWorkflow` is `_fill_workflow` with its random draws as
arguments, `Stamp` is what the backfill writes to an incident, its timeline and its
notifications, `Verified` is what `_verify` asks of them; `Timely` is the part of it that
is not about notifications.

Instants are numbers, the planned ones below `Now`.  What the API writes is dated by the
start of its transaction (`server_default now()`, `onupdate now()`): `db.clock` is the time
then, `Now` at first, and advances when an assignment that hangs has begun, so that two of
them have different dates (`at`) and may commit in either order.  Every other request is
dated when it takes effect: its checks and its write cannot be told apart by anything that
is read later, and only assignments can still take effect after a backfill.

`SeedRun` is the script and the server it talks to.  `db` is what GoTrue and the database
hold of one demo organisation; identifiers are drawn from a counter, since an id that was
deleted never comes back.

| Step | Code |
|---|---|
| `StartRun` | `main`, in one of the modes the command line allows |
| `Preflight` | the listing of accounts, and the soft limit |
| `FindTenant`, `PurgeRows`, `PurgeAccount`, `Purged` | `--purge`: the tenant by its name, its rows in one transaction, then the accounts listed *before* |
| `Register`, `GiveAdminPassword`, `CreateAccount`, `Provision`, `AddCategory` | `provision_org` |
| `RunTask` | one request of one `execute_incident`; tasks take turns |
| `AgeNotifications`, `ReadNotifications`, `Backfill` | the notifications are read by a statement of their own, then the transaction that rewrites the timestamps and checks what it wrote |
| `Verify` | the status distribution against the plan |
| `GiveUp`, `Crash` | a read or transaction that fails for good; the script is killed |
| `Land` | the server takes the next step of a request the script has given up |
| `SignUp`, `Rename` | others use the same deployment |

Every HTTP request of the script goes through `Exchange`: it is answered, or `Lost`
(refused with 429 or 5xx, applied with its answer lost, or still under way and added to
`late`).  `Advance` is `_request_with_retry`: the next attempt, the next phase, or
`SeedError`.  A late request carries the tenant whose token it bears, and is answered 401
once that tenant is purged.

A request in `late` goes on by stages, any of which may be its last (`Dropped`):

| Step | Registration, invitation | Assignment | Other requests |
|---|---|---|---|
| `Served` | - | - | the whole handler, in one step |
| `Begun` | the guard has passed | the checks have passed, the transaction has its date | - |
| `Made` | GoTrue has the account; an invitation may adopt the one there is | - | - |
| `Committed` | the rows are inserted, if the constraints still allow it | the unguarded UPDATE | - |
| `Compensated` | the DELETE of the account is under way in its turn | - | - |

So the account of a registration that hangs exists before its organisation does; the next
run can list it, purge it and go on, and the rows can be committed after that.

`clean` is a history variable: nothing has gone wrong in this run, nor was under way when
it began.  `told` is the last organisation that any run was told of.  `Crowded` is the
test of the soft limit, on all accounts, those included that the purge would delete.
`Rename` takes the planned name from the organisation; `folded` says that the new name
differs from it in case only, in which case the purge, which looks for the exact name,
does not find the organisation, and the check of `register_organization`, which ignores
case, does.  `strays` are the users rows of a renamed organisation: the purge finds rows by
the tenant's name and accounts by address, so it deletes the accounts and leaves those rows.
`Rename`, `SignUp` and `Crash` happen only while there is another run to come, and `Rename`
only when nothing is late.

## 3. What the runs check

| Run | Instance | Shows | States |
|---|---|---|---|
| `workflow_race` | 3 requests, 1 incident, 4 users | the timeline is the path; notes; audit lines; refusals write nothing; 200 means reached; responses; row lock; an incident vanishes only by being assigned | 2.2 M |
| `workflow_tenants` | 2 requests, 2 incidents, 5 users, 2 tenants, 1 role or status change | tenant isolation, notifications, refinement of `IncidentLifecycle`, every accepted request answered (fair) | 0.3 M |
| `notification_panel` | 2 clients, 3 notifications, pages of one row | what was answered is read for good, counts are real, notifications are personal, paging skips nothing, every request answered although dismissals deadlock (fair) | 44 k |
| `provisioning_sagas` | 3 requests, 2 faults | orphans accounted for, whole registrations, deletions only at the creator's word though they land late, dangling rows explained, truthful answers, refinement of `Identities` | 1.4 M |
| `user_admin_race` | 3 requests, 5 users, 2 tenants | the last administrator, what the guard may refuse, truthful 200s, authority of every write | 0.1 M |
| `categories_race` | 3 requests, 2 categories, 2 tenants | references, truthful answers | 15 k |
| `analytics_volume` | 1 chart, 2 incidents, 3 zones, 5 weeks, 1 zone change | exact buckets, window, cap, "today" | 0.3 M |
| `seed_run` | 2 runs, 2 incidents, 2 users, 2 requests of unknown fate | rows keep their accounts, a clean run after any wreck succeeds, one consistent history, success means the plan, every run ends (fair) | 0.6 M |

Four runs end in a counterexample; each contradicts a sentence of the repository, quoted
in `PROJECT.json` under "findings":

| Run | The code | The sentence |
|---|---|---|
| `closed_reassigned` | a reassignment decided before a close commits after it | "A closed incident cannot be reassigned." |
| `claim_steals` | a claim decided on a stale NULL overwrites an assignee | "It never steals an existing assignee." |
| `timeline_order` | rows sort by transaction start | "the timestamps strictly increase" |
| `provisioning_dangling` | a compensation deletes an account another invitation has adopted: two clicks, no failure | "`users.id` equals the Supabase Auth user id" |

Smaller disagreements, which the models contain and no run is spent on:

* The loser of two claims may be answered 404: the winner's claim hides the incident from
  it (`docs/api-contract.md:1262` says 200 or 409).
* Two clicks of one reassignment both pass the no-op test and both notify.
* Names of organisations are compared ignoring case in the pre-check only, so `Acme` and
  `ACME` can both register at once (`docs/api-contract.md:880`).
* In the unread tab a row that is read while the client pages, one that just arrived
  included, moves the others up, and the next page misses one.  `PagesMissNothing` says
  that nothing else can hide a row.
* The seeding script: the soft limit counts the accounts a purge is about to delete, and an
  organisation renamed in case only makes a purging run answer 409, so a clean run may fail
  for these two reasons (`CleanRunSucceeds` names them).
* A registration that hangs and commits after its account was purged leaves an
  administrator's row without an account (`RowsKeepAccounts` names the case), and rows whose
  organisation was renamed outlive their accounts, both against `seed_demo.py:15`.
* Two assignments that hang and land in reverse order leave a notification later than
  `updated_at` (`HistoryHolds` names the case), which `_verify` would refuse if it had not
  run before.
* The comment at `seed_demo.py:59` describes `get_user_by_email` as reading one page, which
  it no longer does; `seed_fixtures.py:36` says that nothing outside the demo domain is ever
  touched by `--purge`, which deletes the rows of every user of a demo tenant.

**Bounds.**  Three requests are what the races need: two that collide and a third that
moved the row between them (a close needs the claim before it).  A timeline has at most
two rows, so more requests on one incident only add losers.  One change of an account
(`MaxAdminChanges`) is enough to make every check of a request stale.  Two faults
(`MaxFaults`) allow a timeout followed by a failed compensation or a crash; the third
request then finds what they left.  Symmetry is over requests, which the modules treat
alike; the runs with liveness use none.  The calendar has five weeks, a default of two
and a cap of three: ranges at the cap, one over it, inverted, and at either end of the
calendar all occur, and instants lie on both sides of two Mondays and of a clock change.

Two dismissals over the two old notifications are what a deadlock needs, with a third that
arrives in between; pages of one row make every row a page boundary, and two stamps let
the new row sort before, among or behind the old ones.  For the seeding script two runs
(`MaxRuns`) are a wreck and the run that cleans up after it; two requests of unknown fate
(`MaxFaults`) let one request be applied twice, or two of different runs cross; three
attempts let both hang and the third go on, so that two assignments of one task can land
after the backfill in either order; two planned incidents, one of which takes every kind
of step and one none; one more user besides the administrator exercises both halves of
`provision_org`, and a soft limit of three with one foreign account (`MaxOthers`) lies
within reach.

**Fairness.**  Three runs assume any.  `workflow_tenants` and `notification_panel`:
weak fairness of each request's own steps.  The event loop runs every ready coroutine,
and PostgreSQL wakes the waiters of a freed lock and breaks deadlocks.  Weak fairness is
enough because a waiter in `Workflow` waits for a request that is not waiting itself
(`LockDiscipline`), and in the panel `Deadlock` resolves the one way in which it could.
`seed_run`: weak fairness of the script, since every attempt ends by its timeout.
Nothing is assumed of clients, administrators, other sign-ups, or of late requests, which
may never be served; nor that failures stop.

## 4. What is proved

Each `...Proofs` module proves its theorems with TLAPS for all values of the constants
that satisfy the module's named assumptions: any number of requests, users, incidents,
faults or runs, including infinitely many where the model allows them.  Every proof has
the same shape: the properties are not inductive, a stronger invariant is, it is proved
action by action, and the properties follow from it.

`WorkflowProofs`, from `ConstantsAssumption`:

| Theorem | Statement |
|---|---|
| `TypeCorrect` | `Spec => []TypeOK` |
| `TimelineCorrect` | `Spec => []TimelineIsPath` (NFR-06) |
| `NoteCorrect` | `Spec => []ClosedWithNote` (UC-08 E2) |
| `LockCorrect` | `Spec => [](LockDiscipline /\ EdgeIsSettled)` |
| `Refinement` | `Spec => ImplementsLifecycle` |

`TimelineIsPath` is not inductive.  `CommitTransition` appends a row from the status its
request *saw*, so one must know that this still is the status.  It is, because the request
holds the row lock from the successful UPDATE on (`LockDiscipline`), the UPDATE matched
only if the two agreed (`EdgeIsSettled`), and nobody else can commit to a locked row.
`ClosedWithNote` needs that a request past its classification has its note, which
`EdgeIsSettled` carries too.  A filing needs that nobody else files the same identifier
(`FreshIds`).  `IInv` is the conjunction.  `RowsChange` says that only `File` and
`CommitTransition` touch a status or timeline; `Refinement` follows.

`WorkflowAuditProofs`, from the same assumption and that invariant:

| Theorem | Statement |
|---|---|
| `AuditCorrect` | `Spec => []AuditMatchesTimeline` (NFR-07) |
| `NotificationsCorrect` | `Spec => []NotificationsAreAtomic` |
| `RefusalsLeaveNoTrace` | `Spec => []RefusedWroteNothing` |
| `TenantCorrect` | `Spec => []TenantIsolation` (NFR-12) |
| `OkCorrect` | `Spec => []OkMeansReached` |
| `ResponseCorrect` | `Spec => []ResponseNotBehind` |
| `HiddenCorrect` | `Spec => HiddenOnlyByAssignment` |
| `NothingLearnt` | `Spec => []OutsidersLearnNothing` (NFR-12) |
| `OneMoveCorrect` | `Spec => []OneMovePerTransaction` (NFR-06) |
| `ArrivalsCorrect` | `Spec => NotificationsOnlyArrive` |

A timeline row or notification is recognised by its time stamp, so the first step is that
no two requests share one (`Clocks`).  `Ledger` then says who wrote what: every row,
notification and audit line belongs to one request, and that request is past the step
which writes it.  Isolation needs that the visibility check at the load binds the
incident to the caller's tenant for good, because `tenant_id` never changes while roles
do.  The same check makes a later 404 explainable (`LoadedBelong`): submitter and tenant of
what was loaded are still those of the incident, so of the visibility rule only the
assignee clause can have changed its mind.  `OneMoveCorrect` and `ArrivalsCorrect` follow
from `Ledger` at the commit: nothing anywhere carries the transaction's time yet.

`NotificationPanelProofs`, from `ConstantsAssumption`:

| Theorem | Statement |
|---|---|
| `ReadForGood` | `Spec => []AnsweredMeansRead` |
| `CountsAreReal` | `Spec => FlipsAreReal` |
| `PersonalForGood` | `Spec => OnlyTheRecipient` |
| `WalksAreComplete` | `Spec => []PagesMissNothing` |
| `WaitsCorrect` | `Spec => []WaitsArePersonal` |
| `TypeCorrect` | `Spec => []TypeOK` |

An UPDATE in progress has read, locked or yet to visit every row of its snapshot; a
locked row is unread.  Both statements that lock rows match the caller's own only, so a
deadlock stays between one user's dismissals (`WaitsCorrect`).  For the walk: the rank of a row only grows, for rows arrive and do
not leave (unless one is read in the unread tab), and the ranks of a finite set number it
without gaps, so that a page which is not full has shown the last of them.  A row of the
snapshot is therefore either shown or ranks at the current offset or beyond.

`ProvisioningProofs`, from `ConstantsAssumption`:

| Theorem | Statement |
|---|---|
| `AdoptersNeverDelete` | `Spec => CompensatesOnlyItsOwn` |
| `OrphansExplained` | `Spec => []OrphansAreAccountedFor` (D-4) |
| `RegistrationCorrect` | `Spec => []RegistrationIsWhole` (UC-02) |
| `RowsMatch` | `Spec => []RowMatchesAccount` |
| `DanglingRowsCorrect` | `Spec => []DanglingRowsAreExplained` |
| `IdentityRefinement` | `Spec => ImplementsIdentities` |
| `AnswersCorrect` | `Spec => []AnswersAreTrue` |
| `TypeCorrect` | `Spec => []TypeOK` |

An account is named after the request that created it, sits in that request's mailbox,
and the request either knows that it created it or never got an answer.  A compensation can
thus name nothing but its own, and what is in `deleting` was put there by the compensation
of the request it is named after, which ended with 409, 500 or died; so that whenever it
lands, and whoever has adopted the account, it is that request's word.  An orphan is followed
from there: its creator is at work, dead, unanswered, or has logged that it failed to
compensate.  `Fates` adds what became of the others: an account whose creator knows it is
there until that request is done with a 409 or 500 or has died, and every row names an
account that is there or was.  The refinement goes action by action: an invite that creates
an account, or its late landing, is a `Create`, a COMMIT an `Admit`, a compensation that
succeeds and a delete that lands late a `Withdraw`; a compensation that fails, and a crash
while holding, are a `Settle` if they leave no delete under way, and stutter if they do;
all else stutters.

`UserAdminProofs`, from `ConstantsAssumption`:

| Theorem | Statement |
|---|---|
| `LastAdminSafe` | `Spec => LastAdminFallsOnlyToARace` (D-3) |
| `WritesAuthorised` | `Spec => WritesAreAuthorised` |
| `RefusalsProtect` | `Spec => GuardSparesTheOthers` (D-3) |
| `OkCorrect` | `Spec => OkMeansDone` |
| `TypeCorrect` | `Spec => []TypeOK` |

A request that has not been overtaken still sees the table as it is, so what it counted
holds when it commits, and a count of one, with its target among the counted, is its target
alone.

`CategoriesProofs`, from `ConstantsAssumption`:

| Theorem | Statement |
|---|---|
| `CategoriesKept` | `Spec => []IncidentsKeepTheirCategory` (UC-04 A2) |
| `AnswersCorrect` | `Spec => []AnswersAreTrue` |
| `TypeCorrect` | `Spec => []TypeOK` |

A category is born once and never comes back, a request that got past its checks has a
category of its own tenant, and the foreign key is evaluated by the step that deletes.

`AnalyticsProofs`, from `CalendarAssumption` and `ConstantsAssumption`:

| Theorem | Statement |
|---|---|
| `TypeCorrect` | `Spec => []TypeOK` |
| `VolumeCorrect` | `Spec => VolumeIsExact` |
| `CurrentWeek` | `Spec => []CurrentWeekShown` |
| `Covers` | `Spec => []WindowCoversRequest` |
| `RefusalsCorrect` | `Spec => []RefusalsAreDue` |
| `NothingIsDropped` | the bounds in UTC select an instant exactly if its local week is in `Series` |

`BoundsAgree` is the core: for an incident of a listed week the bounds in UTC follow from
its local date, because both edges are Mondays (`ResolvedWindow`) and `Midnight` is what
`CalendarAssumption` says of Mondays.  `CurrentWeek` needs that nothing is from the
future and that what a request knows keeps its creation time (`HistoryIsFixed`).
Refusals count weeks: the weeks of a window are in bijection with an interval.

`SeedProofs`, from `PlanAssumption` and `RunAssumption`:

| Theorem | Statement |
|---|---|
| `PlansAreTruthful` | what `FillWorkflow` returns is a history the workflow accepts, whatever was drawn |
| `StampedHistoryVerifies` | an incident whose rows are all stamped is `Verified` |
| `LateArrivalIsRefused` | a notification that arrived after the reads is not |
| `BadgeSurvives` | `KeepUnread` leaves at least one notification unread if there is any |
| `RowsCorrect` | `Spec => []RowsKeepAccounts` |
| `HistoryCorrect` | `Spec => []HistoryHolds` |
| `TypeCorrect` | `Spec => []TypeOK` |
| `CleanRunsSucceed` | `Spec => CleanRunSucceeds` |
| `SuccessIsThePlan` | `Spec => SuccessMeansPlan` |

That a row keeps its account is a matter of what may be under way (`RunInv`): ids are
never given twice (`Sound`); no delete that is late, nor a registration or invitation that
may yet send one, names an id that a row has (`Fits`) or that another late request could
give one, however far that has come (`Apart`); and where the script itself is about to
delete, the rows are gone (`ScriptIsCareful`).  The exception in `RowsKeepAccounts` is a
registration that has made its account and that no run was told of: both parts leave out
its administrator, and `told` says that no run ever works in its organisation.  What any
request may do to accounts and rows is one formula (`Effect`), proved of each handler and
of each stage once.

That the history holds (`WorkInv`) needs what late requests can still do: a claim or close
of an incident whose task is finished has already had its effect, one of another incident
or tenant has none, so that once a run has reached its backfill only an assignment can
still write.  The backfill has dated its incident before `Now` but for assignments
(`Ripe`), so an assignment may be of any date from `Now` on, and hence land in any order;
what it can do to a notification that was there is to overtake it (`Coherent`).

A clean run (`CleanInv`) has no late request, so the server is the script's alone.  Each
phase leaves behind what the next needs: every account is in the list to delete, the purge
leaves no row, the mailboxes still to provision are vacant (`Vacant`), and the incidents
stand one to one to the tasks, each where its task is (`Carrying`).  The backfill then
verifies by `StampedHistoryVerifies`, and the counts agree by that bijection.  `Excused` is
the statement for one step: the count in preflight and the name in other letters are the
only ways out.

Any other run may be disturbed at every step; that its success still means its plan
(`Faithful`) takes five invariants.  Whoever has been provisioned keeps the row and the id
the script was told, since no delete can reach them (`Members`).  Every move that is under
way for the run's own tenant is one the plan contains and the task has sent
(`LateIsPlanned`), and it carries the reviewer the plan names; so, applied late or twice,
it either has no effect or brings the incident where its task is already or is about to
be (`Staged`, which says of each step what the incident may look like before it).
Timelines agree with statuses while nothing is stamped (`Marks`), so the backfill writes
every planned date, and what lands afterwards leaves those dates alone (`Dated`).
`OneIncident` gives each task an incident of its own; with the counts that `verify`
compares, this injection is onto, status by status (`CountsLeaveNoOther`), and no
duplicate is left over.

`RunAssumption` asks of the plans that they are `Truthful`, which is what
`PlansAreTruthful` proves of every plan `FillWorkflow` can draw, and of the mailboxes that
they are distinct.

Only model-checked: the liveness properties (`EventuallyAnswered` of two modules,
`EveryRunEnds`), for which TLAPS has no rules (ENABLED).

Some properties are proved and in no configuration.  `TypeOK` of every module but
`Analytics` (`SeedPlan` has no state): the other properties of those runs would fail
without it.  The others were found true by TLC on the same instances and then proved, and
stand behind what the runs check: `RowMatchesAccount` of `Provisioning`,
`OutsidersLearnNothing`, `OneMovePerTransaction` and `NotificationsOnlyArrive` of
`Workflow`, `WaitsArePersonal` of the panel.

## 5. What is not modelled, and why

* Verifying a JWT: cryptography and a cached key set.
* Titles, descriptions, severities, due dates, notification texts: no property tells
  them apart.  A resolution note is present or blank.
* The incident list with its sorting and paging: read-only SQL.  The visibility predicate
  it shares with `get_incident` is modelled, and paging under arrivals in the panel.
* The page cap of `get_user_by_email` (10 000 accounts).
* The status distribution as an endpoint: one grouped SELECT.  `SeedRun` reads it.
* Of the seeding scripts: the random draws and the texts, the second organisation and the
  cross-tenant probe, the comparison of weekly volumes, arithmetic on wall clocks around
  a clock change, and what is printed.
* Rendering of errors, log formats, configuration, schemas: wording and validation.
* Applying migrations: a deployment step.  The constraints they create are in the models.

## 6. Plan

Done, in this order: `Workflow` with its lifecycle, `Provisioning`, `UserAdmin`,
`Categories`, `Analytics`, `NotificationPanel`, `SeedPlan` and `SeedRun`, the proofs
of each, and `Identities`, which `Provisioning` implements.

Left, should the code move in that direction:

* If `reassign` gets the guard its finding asks for, `ClosedNeverReassigned` becomes an
  invariant that follows from `LockDiscipline`, as the path of the timeline does.
