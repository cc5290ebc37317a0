---------------------------- MODULE Provisioning ----------------------------
(***************************************************************************)
(* How organisations and users come to be: registering an organisation,    *)
(* inviting a user and renaming an organisation, as concurrent requests.   *)
(*                                                                         *)
(* The auth account lives at GoTrue and the users row in PostgreSQL, and   *)
(* no transaction spans the two.  Each saga creates the account first,     *)
(* inserts the rows second, and deletes the account again if the database  *)
(* refuses.  One step is one call to GoTrue or one transaction, with the   *)
(* code that follows it up to the next await.                              *)
(***************************************************************************)
EXTENDS Naturals, FiniteSets

CONSTANTS
    Request,     \* requests, each handled once; also the ids they bring about
    Calls,       \* what a request may ask for
    Existing,    \* tenants registered before the run
    InitialName, \* InitialName[t]: the name of an existing tenant
    Name, Fold,  \* organisation names as typed, and Fold[n]: lower(n)
    Address, Mailbox,  \* email addresses as typed, and Mailbox[a]: lower(a)
    NoId, NoName, NoCall,
    MaxFaults    \* bound on crashes, timeouts and database errors

\* The account a request creates at GoTrue, and the tenant it registers, get a
\* fresh UUID: they are named after the request.
Id == Request
Tenant == Existing \cup Request
Mailboxes == {Mailbox[a] : a \in Address}

\* Fields that a kind of request has no use for carry any value.  escalates:
\* does the invitation ask for a System Admin without coming from one?
Call == [kind : {"register", "invite", "rename"}, name : Name, address : Address,
         tenant : Tenant, escalates : BOOLEAN]

ASSUME ConstantsAssumption ==
    /\ Existing \cap Request = {}
    /\ InitialName \in [Existing -> Name]
    /\ \A t, u \in Existing : Fold[InitialName[t]] = Fold[InitialName[u]] => t = u
    /\ Calls \subseteq Call
    /\ NoCall \notin Calls
    /\ NoId \notin Request
    /\ NoName \notin Name
    /\ MaxFaults \in Nat

VARIABLES
    account,     \* GoTrue: the account of a mailbox, or NoId
    unanswered,  \* requests whose invite got no answer: it may still land
    deleting,    \* accounts whose DELETE got no answer: it may still be applied
    users,       \* users rows
    orgName,     \* tenants.name
    pc, call,
    authId,      \* the account a request is about to insert a row for
    created,     \* created_auth: has the request created that account itself?
    answer,      \* its HTTP status, decided before the compensation runs
    orphanLog,   \* accounts named by log_compensation_failure
    faults       \* counts against MaxFaults

gotrue == <<account, unanswered, deleting>>
database == <<users, orgName>>
vars == <<gotrue, database, pc, call, authId, created, answer, orphanLog, faults>>

User == [id : Id, tenant : Tenant, address : Address]
PCs == {"idle", "invite", "lookup", "lookupClaim", "adopt", "adoptClaim",
        "write", "compensate", "done"}
Answers == {"none", "200", "201", "403", "409", "500", "502", "503", "lost"}

\* The users of the existing tenants have addresses nobody invites again.
Init ==
    /\ account = [m \in Mailboxes |-> NoId]
    /\ unanswered = {}
    /\ deleting = {}
    /\ users = {}
    /\ orgName = [t \in Tenant |-> IF t \in Existing THEN InitialName[t] ELSE NoName]
    /\ pc = [q \in Request |-> "idle"]
    /\ call = [q \in Request |-> NoCall]
    /\ authId = [q \in Request |-> NoId]
    /\ created = [q \in Request |-> FALSE]
    /\ answer = [q \in Request |-> "none"]
    /\ orphanLog = {}
    /\ faults = 0
-----------------------------------------------------------------------------
Box(q) == Mailbox[call[q].address]
TenantFor(q) == IF call[q].kind = "register" THEN q ELSE call[q].tenant

Goto(q, step) ==
    /\ pc' = [pc EXCEPT ![q] = step]
    /\ UNCHANGED answer

Respond(q, code) ==
    /\ pc' = [pc EXCEPT ![q] = "done"]
    /\ answer' = [answer EXCEPT ![q] = code]

Fault ==
    /\ faults < MaxFaults
    /\ faults' = faults + 1

\* A name is taken for the pre-check if another tenant's reads the same.
NameReadsTaken(c) ==
    \E t \in Tenant : /\ orgName[t] # NoName
                      /\ Fold[orgName[t]] = Fold[c.name]
                      /\ c.kind = "rename" => t # c.tenant

EmailReadsTaken(c) ==
    \E u \in users : u.tenant = c.tenant /\ Mailbox[u.address] = Mailbox[c.address]

\* The guards before anything is written: UC-03 E2 and E1, UC-02 E1, and the
\* rename to the tenant's own name, which writes nothing.
Begin(q, c) ==
    /\ pc[q] = "idle"
    /\ c.kind = "rename" => orgName[c.tenant] # NoName
    /\ call' = [call EXCEPT ![q] = c]
    /\ CASE c.kind = "invite" /\ c.escalates       -> Respond(q, "403")
         [] c.kind = "invite" /\ ~c.escalates      ->
                IF EmailReadsTaken(c) THEN Respond(q, "409") ELSE Goto(q, "invite")
         [] c.kind = "rename" /\ orgName[c.tenant] = c.name -> Respond(q, "200")
         [] OTHER ->
                IF NameReadsTaken(c) THEN Respond(q, "409")
                ELSE Goto(q, IF c.kind = "rename" THEN "write" ELSE "invite")
    /\ UNCHANGED <<gotrue, database, authId, created, orphanLog, faults>>
-----------------------------------------------------------------------------
(***************************************************************************)
(* The call to GoTrue and the two ways to end up with somebody else's      *)
(* account.                                                                *)
(***************************************************************************)
InviteCreates(q) ==
    /\ pc[q] = "invite"
    /\ account[Box(q)] = NoId
    /\ account' = [account EXCEPT ![Box(q)] = q]
    /\ authId' = [authId EXCEPT ![q] = q]
    /\ created' = [created EXCEPT ![q] = TRUE]
    /\ Goto(q, "write")
    /\ UNCHANGED <<unanswered, deleting, database, call, orphanLog, faults>>

BuggyInviteExists(q) ==
    /\ pc[q] = "invite"
    /\ account[Box(q)] # NoId
    /\ Goto(q, "lookup")
    /\ UNCHANGED <<gotrue, database, call, authId, created, orphanLog, faults>>

\* "already registered" ends a registration; an invitation looks the account up.
InviteExists(q) ==
    /\ pc[q] = "invite"
    /\ account[Box(q)] # NoId
    /\ IF call[q].kind = "register" THEN Respond(q, "409") ELSE Goto(q, "lookup")
    /\ UNCHANGED <<gotrue, database, call, authId, created, orphanLog, faults>>

\* Any other 4xx: repeating the request will not help.
InviteRefused(q) ==
    /\ pc[q] = "invite"
    /\ Respond(q, "502")
    /\ UNCHANGED <<gotrue, database, call, authId, created, orphanLog, faults>>

\* 429, 5xx or a timeout: one exception for both, though after a timeout the
\* account may exist, now or a moment later.
InviteUnavailable(q) ==
    /\ pc[q] = "invite"
    /\ Fault
    /\ unanswered' \in {unanswered, unanswered \cup {q}}
    /\ IF call[q].kind = "register" THEN Respond(q, "503") ELSE Goto(q, "adopt")
    /\ UNCHANGED <<account, deleting, database, call, authId, created, orphanLog>>

\* GoTrue gets round to an invite nobody waits for any more.
Land(q) ==
    /\ q \in unanswered
    /\ account[Box(q)] = NoId
    /\ account' = [account EXCEPT ![Box(q)] = q]
    /\ UNCHANGED <<unanswered, deleting, database, pc, call, authId, created, answer,
                   orphanLog, faults>>

\* What an invitation answers when there is no account it may use: that the
\* email is registered, or the original failure of the invite.
NotAdopted(q) == IF pc[q] \in {"lookup", "lookupClaim"} THEN "409" ELSE "503"

BuggyLookup(q) ==
    /\ pc[q] \in {"lookup", "adopt"}
    /\ \E m \in Mailboxes :
        IF account[m] = NoId
        THEN Respond(q, NotAdopted(q)) /\ UNCHANGED authId
        ELSE /\ authId' = [authId EXCEPT ![q] = account[m]]
             /\ Goto(q, IF pc[q] = "lookup" THEN "lookupClaim" ELSE "adoptClaim")
    /\ UNCHANGED <<gotrue, database, call, created, orphanLog, faults>>

\* get_user_by_email.
Lookup(q) ==
    /\ pc[q] \in {"lookup", "adopt"}
    /\ IF account[Box(q)] = NoId
       THEN Respond(q, NotAdopted(q)) /\ UNCHANGED authId
       ELSE /\ authId' = [authId EXCEPT ![q] = account[Box(q)]]
            /\ Goto(q, IF pc[q] = "lookup" THEN "lookupClaim" ELSE "adoptClaim")
    /\ UNCHANGED <<gotrue, database, call, created, orphanLog, faults>>

\* The lookup fails in turn: its own error, or the original one of the invite.
LookupFails(q) ==
    /\ pc[q] \in {"lookup", "adopt"}
    /\ Fault
    /\ \/ Respond(q, "503")
       \/ pc[q] = "lookup" /\ Respond(q, "502")
    /\ UNCHANGED <<gotrue, database, call, authId, created, orphanLog>>

BuggyCheckOrphan(q) ==
    /\ pc[q] \in {"lookupClaim", "adoptClaim"}
    /\ created' = [created EXCEPT ![q] = TRUE]
    /\ IF \E u \in users : u.id = authId[q] THEN Respond(q, NotAdopted(q))
       ELSE Goto(q, "write")
    /\ UNCHANGED <<gotrue, database, call, authId, orphanLog, faults>>

\* Adopt only an account no users row points at.
CheckOrphan(q) ==
    /\ pc[q] \in {"lookupClaim", "adoptClaim"}
    /\ IF \E u \in users : u.id = authId[q] THEN Respond(q, NotAdopted(q))
       ELSE Goto(q, "write")
    /\ UNCHANGED <<gotrue, database, call, authId, created, orphanLog, faults>>
-----------------------------------------------------------------------------
(***************************************************************************)
(* The database half, and the compensation.                                *)
(***************************************************************************)
\* The constraints: users_pkey, uq_users_tenant_email and the foreign key of
\* users; uq_tenants_name, which compares names exactly.
Clashes(q) ==
    \/ /\ call[q].kind # "rename"
       /\ \E u \in users : \/ u.id = authId[q]
                           \/ /\ u.tenant = TenantFor(q)
                              /\ u.address = call[q].address
    \/ call[q].kind = "invite" /\ orgName[call[q].tenant] = NoName
    \/ /\ call[q].kind # "invite"
       /\ \E t \in Tenant \ {TenantFor(q)} : orgName[t] = call[q].name

\* The rows of one transaction.
Written(q) ==
    /\ IF call[q].kind = "invite" THEN UNCHANGED orgName
       ELSE orgName' = [orgName EXCEPT ![TenantFor(q)] = call[q].name]
    /\ IF call[q].kind = "rename" THEN UNCHANGED users
       ELSE users' = users \cup {[id |-> authId[q], tenant |-> TenantFor(q),
                                  address |-> call[q].address]}

Commit(q) ==
    /\ pc[q] = "write"
    /\ ~Clashes(q)
    /\ Written(q)
    /\ Respond(q, IF call[q].kind = "rename" THEN "200" ELSE "201")
    /\ UNCHANGED <<gotrue, call, authId, created, orphanLog, faults>>

BuggyUnwind(q, code) ==
    /\ pc' = [pc EXCEPT ![q] = IF call[q].kind = "rename" THEN "done" ELSE "compensate"]
    /\ answer' = [answer EXCEPT ![q] = code]

\* Roll back; an account the request created is deleted before it answers.
Unwind(q, code) ==
    /\ pc' = [pc EXCEPT ![q] = IF created[q] THEN "compensate" ELSE "done"]
    /\ answer' = [answer EXCEPT ![q] = code]

BuggyRefuse(q) ==
    /\ pc[q] = "write"
    /\ Clashes(q)
    /\ Unwind(q, IF created[q] THEN "409" ELSE "201")
    /\ UNCHANGED <<gotrue, database, call, authId, created, orphanLog, faults>>

\* IntegrityError.
Refuse(q) ==
    /\ pc[q] = "write"
    /\ Clashes(q)
    /\ Unwind(q, "409")
    /\ UNCHANGED <<gotrue, database, call, authId, created, orphanLog, faults>>

\* Any other exception of the commit.  If the connection broke while the COMMIT
\* was under way, the rows may be durable all the same.
Break(q) ==
    /\ pc[q] = "write"
    /\ Fault
    /\ \/ UNCHANGED database
       \/ ~Clashes(q) /\ Written(q)
    /\ Unwind(q, "500")
    /\ UNCHANGED <<gotrue, call, authId, created, orphanLog>>

Deleted(id) == [m \in Mailboxes |-> IF account[m] = id THEN NoId ELSE account[m]]

\* delete_user_best_effort; deleting an account that is gone is fine.
Compensate(q) ==
    /\ pc[q] = "compensate"
    /\ account' = Deleted(authId[q])
    /\ Goto(q, "done")
    /\ UNCHANGED <<unanswered, deleting, database, call, authId, created, orphanLog, faults>>

BuggyCompensationFails(q) ==
    /\ pc[q] = "compensate"
    /\ Fault
    /\ deleting' \in {deleting, deleting \cup {authId[q]}}
    /\ Goto(q, "done")
    /\ UNCHANGED <<account, unanswered, database, call, authId, created, orphanLog>>

\* The delete is refused, or gets no answer and may be applied a moment or much
\* later: the orphan is logged and the request answers what it would have answered.
CompensationFails(q) ==
    /\ pc[q] = "compensate"
    /\ Fault
    /\ deleting' \in {deleting, deleting \cup {authId[q]}}
    /\ orphanLog' = orphanLog \cup {authId[q]}
    /\ Goto(q, "done")
    /\ UNCHANGED <<account, unanswered, database, call, authId, created>>

\* The process dies, or an exception nobody catches ends the request.  An invite on
\* the wire may still land, and a delete still be applied.
Crash(q) ==
    /\ pc[q] \notin {"idle", "done"}
    /\ Fault
    /\ unanswered' = IF pc[q] = "invite" THEN unanswered \cup {q} ELSE unanswered
    /\ \/ UNCHANGED deleting
       \/ pc[q] = "compensate" /\ deleting' = deleting \cup {authId[q]}
    /\ Respond(q, "lost")
    /\ UNCHANGED <<account, database, call, authId, created, orphanLog>>

\* GoTrue gets round to a delete nobody waits for any more, whoever has come to
\* use the account meanwhile.
LandDelete(q) ==
    /\ q \in deleting
    /\ account' = Deleted(q)
    /\ deleting' = deleting \ {q}
    /\ UNCHANGED <<unanswered, database, pc, call, authId, created, answer,
                   orphanLog, faults>>

Terminating ==
    /\ \A q \in Request : pc[q] = "done"
    /\ UNCHANGED vars

Handle(q) ==
    \/ InviteCreates(q) \/ InviteExists(q) \/ InviteRefused(q) \/ InviteUnavailable(q)
    \/ Lookup(q) \/ LookupFails(q) \/ CheckOrphan(q)
    \/ Commit(q) \/ Refuse(q) \/ Break(q)
    \/ Compensate(q) \/ CompensationFails(q)

Next ==
    \/ \E q \in Request :
        \/ Handle(q) \/ Crash(q)
        \/ Land(q) \/ LandDelete(q)
        \/ \E c \in Calls : Begin(q, c)
    \/ Terminating

Spec == Init /\ [][Next]_vars
-----------------------------------------------------------------------------
\* Every row, account and local of a request has its type.
TypeOK ==
    /\ account \in [Mailboxes -> Id \cup {NoId}]
    /\ unanswered \subseteq Request
    /\ deleting \subseteq Request
    /\ users \subseteq User
    /\ orgName \in [Tenant -> Name \cup {NoName}]
    /\ pc \in [Request -> PCs]
    /\ call \in [Request -> Calls \cup {NoCall}]
    /\ \A q \in Request : pc[q] # "idle" => call[q] # NoCall
    /\ authId \in [Request -> Id \cup {NoId}]
    /\ created \in [Request -> BOOLEAN]
    /\ answer \in [Request -> Answers]
    /\ orphanLog \subseteq Id
    /\ faults \in 0..MaxFaults

\* An account is deleted, now or late, only at the word of the very request that
\* created it, knows so, and has itself been refused, broken or killed: a request
\* that adopted somebody else's account never deletes it, whatever fails
\* afterwards (created_auth in user_service.invite_user).
CompensatesOnlyItsOwn ==
    [][\A m \in Mailboxes :
        account[m] # NoId /\ account'[m] # account[m] =>
            LET a == account[m]
            IN  /\ account'[m] = NoId
                /\ created[a] /\ answer[a] \in {"409", "500", "lost"}
                /\ pc[a] = "compensate" \/ a \in deleting]_vars

\* D-4: no orphan goes unexplained.  An account without a users row is one whose
\* request is still at work, got no answer from GoTrue, died, or had its failed
\* compensation logged.
OrphansAreAccountedFor ==
    \A m \in Mailboxes :
        LET a == account[m]
        IN  a # NoId /\ (\A u \in users : u.id # a) =>
            \/ pc[a] \in {"write", "compensate"}
            \/ a \in unanswered \cup orphanLog
            \/ answer[a] = "lost"

\* UC-02: a registered organisation has the account its own registration
\* created as first administrator, never an adopted one; and no registration
\* leaves half of its two rows.
RegistrationIsWhole ==
    \A q \in Request :
        orgName[q] # NoName <=> \E u \in users : u.id = q /\ u.tenant = q

\* A users row loses its account only to the compensation of the request that
\* created the account, because that request's own insert was refused or broke, or
\* the request died.  No request that answered 201 for an account of its own takes
\* it back, and no delete is applied that such a request did not send.
DanglingRowsAreExplained ==
    \A u \in users :
        account[Mailbox[u.address]] # u.id =>
            /\ created[u.id] /\ pc[u.id] = "done"
            /\ answer[u.id] \in {"409", "500", "lost"}

\* An identity is never re-pointed: an account backs at most one row, the one of
\* its own mailbox.
RowMatchesAccount ==
    /\ \A u, v \in users : u.id = v.id => u = v
    /\ \A u \in users : \A m \in Mailboxes : account[m] = u.id => Mailbox[u.address] = m

\* What a request answers is what happened, races and compensation included: 201
\* means the user is there, a refusal that no organisation was registered.
AnswersAreTrue ==
    \A q \in Request :
        /\ answer[q] = "201" =>
            \E u \in users : /\ u.id = authId[q]
                             /\ u.tenant = TenantFor(q)
                             /\ u.address = call[q].address
        /\ answer[q] \in {"403", "409", "502", "503"} => orgName[q] = NoName

\* The accounts there are, and those there ever were: the creator of one that
\* is gone knows that it created it.
Live == {q \in Request : \E m \in Mailboxes : account[m] = q}
Known == Live \cup {q \in Request : created[q]}

Home == [q \in Known |-> Box(q)]
Held == {q \in Request : created[q] /\ pc[q] \in {"write", "compensate"}} \cup deleting
Withdrawn == Known \ Live

Identity == INSTANCE Identities
    WITH Identity <- Request, Organisation <- Tenant, MailboxOf <- Mailbox,
         home <- Home, held <- Held, withdrawn <- Withdrawn, rows <- users

\* The sagas implement the promise: each of their steps is one step of an identity,
\* or none, whatever is lost, late or adopted by others.
ImplementsIdentities == Identity!IdentitySpec
-----------------------------------------------------------------------------
(***************************************************************************)
(* What the documents of the repository say, and a race contradicts.       *)
(***************************************************************************)
\* "users.id equals the Supabase Auth user id": a users row has its account.
RowsHaveAccounts ==
    \A u \in users : account[Mailbox[u.address]] = u.id
=============================================================================
