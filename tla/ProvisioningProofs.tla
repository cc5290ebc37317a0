------------------------- MODULE ProvisioningProofs -------------------------
(***************************************************************************)
(* Proofs about Provisioning, for every set of requests, tenants, names    *)
(* and addresses, and any number of faults.                                *)
(*                                                                         *)
(* The argument: an account is named after the request that created it,    *)
(* sits in that request's mailbox, and the request either knows that it    *)
(* created the account or never got an answer.  The first kind ends as a   *)
(* row, a deletion, on time or late, or a log entry; the second is why     *)
(* orphans exist at all.                                                   *)
(***************************************************************************)
EXTENDS Provisioning, TLAPS

\* What a request knows at each of its steps.
Knows(q) ==
    /\ pc[q] \in {"lookup", "lookupClaim", "adopt", "adoptClaim"} => call[q].kind = "invite"
    /\ pc[q] \in {"invite", "compensate"} => call[q].kind \in {"register", "invite"}
    /\ created[q] => pc[q] \in {"write", "compensate", "done"} /\ authId[q] = q
    /\ pc[q] = "compensate" => created[q]
    /\ answer[q] # "none" => pc[q] \in {"compensate", "done"}
    /\ pc[q] \in {"lookupClaim", "adoptClaim"} => authId[q] # NoId
    /\ pc[q] = "write" /\ call[q].kind = "register" => created[q]
    /\ pc[q] = "write" /\ call[q].kind = "invite" => authId[q] # NoId
    /\ pc[q] = "write" /\ call[q].kind = "rename" => ~created[q]
    /\ q \in unanswered => pc[q] \notin {"idle", "invite"}

Shape == \A q \in Request : Knows(q)

\* The account an identifier stands for: somebody asked for it.
Asked(a) == a \in Request /\ pc[a] # "idle"

\* Accounts, and whatever refers to one, are in the mailbox of the request they
\* are named after, which knows that it created it or had no answer.
Naming ==
    /\ \A m \in Mailboxes : account[m] # NoId =>
        /\ Asked(account[m]) /\ m = Box(account[m])
        /\ created[account[m]] \/ account[m] \in unanswered
    /\ \A q \in Request : authId[q] # NoId =>
        Asked(q) /\ Asked(authId[q]) /\ Box(authId[q]) = Box(q)
    /\ \A u \in users : Asked(u.id) /\ Mailbox[u.address] = Box(u.id)

\* An organisation's name appears with the end of its registration, and an
\* organisation that is being renamed has one.
Names ==
    /\ \A q \in Request : orgName[q] # NoName =>
        pc[q] \in {"compensate", "done"} /\ answer[q] \in {"201", "500", "lost"}
    /\ \A q \in Request :
        pc[q] = "write" /\ call[q].kind = "rename" => orgName[call[q].tenant] # NoName

\* An identity has one row.
UniqueIds == \A u, v \in users : u.id = v.id => u = v

\* A 201 has its row.
Delivered ==
    \A q \in Request :
        answer[q] = "201" =>
            \E u \in users : /\ u.id = authId[q]
                             /\ u.tenant = TenantFor(q)
                             /\ u.address = call[q].address

\* The inductive invariant.
IInv ==
    /\ TypeOK
    /\ Shape
    /\ Naming
    /\ Names
    /\ OrphansAreAccountedFor
    /\ RegistrationIsWhole
    /\ UniqueIds
    /\ Delivered

\* What request q does in one step.
Step(q) == Handle(q) \/ Crash(q) \/ \E c \in Calls : Begin(q, c)

\* An accepted call has its fields.
LEMMA CallFacts ==
    ASSUME TypeOK, NEW q \in Request, pc[q] # "idle"
    PROVE  /\ call[q] \in Calls /\ call[q] # NoCall
           /\ call[q].kind \in {"register", "invite", "rename"}
           /\ call[q].tenant \in Tenant
           /\ call[q].name \in Name /\ call[q].name # NoName
           /\ call[q].address \in Address
           /\ Box(q) \in Mailboxes
           /\ TenantFor(q) \in Tenant
BY ConstantsAssumption DEF TypeOK, Call, Box, Mailboxes, TenantFor, Tenant

\* The others stand still.
LEMMA Alone ==
    ASSUME TypeOK, NEW q \in Request, Step(q), NEW p \in Request \ {q}
    PROVE  /\ pc'[p] = pc[p] /\ call'[p] = call[p] /\ answer'[p] = answer[p]
           /\ authId'[p] = authId[p] /\ created'[p] = created[p]
           /\ p \in unanswered' <=> p \in unanswered
<1> USE DEF TypeOK, Goto, Respond, Unwind, gotrue
<1>1. CASE Crash(q) \/ \E c \in Calls : Begin(q, c)
  BY <1>1 DEF Crash, Begin
<1>2. CASE InviteCreates(q) \/ InviteExists(q) \/ InviteRefused(q) \/ InviteUnavailable(q)
  BY <1>2 DEF InviteCreates, InviteExists, InviteRefused, InviteUnavailable
<1>3. CASE Lookup(q) \/ LookupFails(q) \/ CheckOrphan(q)
  BY <1>3 DEF Lookup, LookupFails, CheckOrphan
<1>4. CASE Commit(q) \/ Refuse(q) \/ Break(q) \/ Compensate(q) \/ CompensationFails(q)
  BY <1>4 DEF Commit, Refuse, Break, Compensate, CompensationFails
<1> QED
  BY <1>1, <1>2, <1>3, <1>4 DEF Step, Handle

\* What was asked for is fixed, and nothing comes after the end.
LEMMA CallStays ==
    ASSUME NEW q \in Request, Step(q), pc[q] # "idle"
    PROVE  UNCHANGED call /\ pc[q] # "done"
BY DEF Step, Handle, Crash, Begin, InviteCreates, InviteExists, InviteRefused, InviteUnavailable,
   Lookup, LookupFails, CheckOrphan, Commit, Refuse, Break, Compensate, CompensationFails

\* Nobody is idle again.
LEMMA Awake ==
    ASSUME TypeOK, NEW q \in Request, Step(q)
    PROVE  pc'[q] # "idle"
<1> USE DEF TypeOK, Goto, Respond, Unwind
<1>1. CASE Crash(q) \/ \E c \in Calls : Begin(q, c)
  BY <1>1 DEF Crash, Begin
<1>2. CASE InviteCreates(q) \/ InviteExists(q) \/ InviteRefused(q) \/ InviteUnavailable(q)
  BY <1>2 DEF InviteCreates, InviteExists, InviteRefused, InviteUnavailable
<1>3. CASE Lookup(q) \/ LookupFails(q) \/ CheckOrphan(q)
  BY <1>3 DEF Lookup, LookupFails, CheckOrphan
<1>4. CASE Commit(q) \/ Refuse(q) \/ Break(q) \/ Compensate(q) \/ CompensationFails(q)
  BY <1>4 DEF Commit, Refuse, Break, Compensate, CompensationFails
<1> QED
  BY <1>1, <1>2, <1>3, <1>4 DEF Step, Handle

\* Who asked, asked for the same mailbox ever after.
LEMMA AskedStays ==
    ASSUME TypeOK, NEW q \in Request, Step(q), NEW a, Asked(a)
    PROVE  Asked(a)' /\ Box(a)' = Box(a)
<1>1. CASE a = q
  BY <1>1, Awake, CallStays DEF Asked, Box
<1>2. CASE a # q
  BY <1>2, Alone DEF Asked, Box
<1> QED
  BY <1>1, <1>2

\* Before the first request.
LEMMA InitIInv ==
    ASSUME Init
    PROVE  IInv
<1>1. /\ pc = [q \in Request |-> "idle"] /\ answer = [q \in Request |-> "none"]
      /\ authId = [q \in Request |-> NoId] /\ created = [q \in Request |-> FALSE]
      /\ call = [q \in Request |-> NoCall]
      /\ account = [m \in Mailboxes |-> NoId]
      /\ unanswered = {} /\ deleting = {} /\ users = {} /\ orphanLog = {} /\ faults = 0
  BY DEF Init
<1>2. \A t \in Tenant : orgName[t] \in Name \cup {NoName}
  BY ConstantsAssumption DEF Init
<1>3. \A q \in Request : orgName[q] = NoName
  BY ConstantsAssumption DEF Init, Tenant
<1>4. orgName \in [Tenant -> Name \cup {NoName}]
  BY <1>2 DEF Init
<1>5. TypeOK
  BY <1>1, <1>4, ConstantsAssumption DEF TypeOK, PCs, Answers, Id
<1>6. Shape /\ Naming /\ Names
  BY <1>1, <1>3 DEF Shape, Knows, Naming, Names
<1>7. OrphansAreAccountedFor /\ RegistrationIsWhole /\ UniqueIds /\ Delivered
  BY <1>1, <1>3 DEF OrphansAreAccountedFor, RegistrationIsWhole, UniqueIds, Delivered
<1> QED
  BY <1>5, <1>6, <1>7 DEF IInv

\* Types and steps.
LEMMA TypeStep ==
    ASSUME TypeOK, Shape, NEW q \in Request, Step(q)
    PROVE  TypeOK'
<1> USE DEF PCs, Answers, Goto, Respond, Unwind, Id, NotAdopted
<1>0. USE DEF TypeOK
<1>1. ASSUME NEW c \in Calls, Begin(q, c)
      PROVE  TypeOK'
  BY <1>1, ConstantsAssumption DEF Begin, gotrue, database
<1>2. CASE InviteCreates(q)
  <2>1. Box(q) \in Mailboxes
    BY <1>2, CallFacts DEF InviteCreates
  <2> QED
    BY <1>2, <2>1 DEF InviteCreates, database
<1>3. CASE InviteExists(q) \/ InviteRefused(q)
  BY <1>3 DEF InviteExists, InviteRefused, gotrue, database
<1>4. CASE InviteUnavailable(q)
  BY <1>4, ConstantsAssumption DEF InviteUnavailable, Fault, database
<1>5. CASE Lookup(q)
  <2>1. Box(q) \in Mailboxes
    BY <1>5, CallFacts DEF Lookup
  <2> QED
    BY <1>5, <2>1 DEF Lookup, gotrue, database
<1>6. CASE LookupFails(q)
  BY <1>6, ConstantsAssumption DEF LookupFails, Fault, gotrue, database
<1>7. CASE CheckOrphan(q)
  BY <1>7 DEF CheckOrphan, gotrue, database
<1>8. ASSUME pc[q] = "write", Written(q)
      PROVE  users' \subseteq User /\ orgName' \in [Tenant -> Name \cup {NoName}]
  <2>1. call[q].kind # "rename" => authId[q] \in Id
    BY <1>8, CallFacts DEF Shape, Knows
  <2>2. /\ call[q].kind # "rename" =>
             [id |-> authId[q], tenant |-> TenantFor(q), address |-> call[q].address] \in User
        /\ TenantFor(q) \in Tenant /\ call[q].name \in Name
    BY <1>8, <2>1, CallFacts DEF User
  <2>3. users' \subseteq User
    BY <1>8, <2>2 DEF Written
  <2>4. orgName' \in [Tenant -> Name \cup {NoName}]
    BY <1>8, <2>2 DEF Written
  <2> QED
    BY <2>3, <2>4
<1>9. CASE Commit(q)
  BY <1>8, <1>9 DEF Commit, gotrue
<1>10. CASE Refuse(q)
  BY <1>10 DEF Refuse, gotrue, database
<1>11. CASE Break(q)
  <2>1. users' \subseteq User /\ orgName' \in [Tenant -> Name \cup {NoName}]
    BY <1>8, <1>11 DEF Break, database
  <2> QED
    BY <1>11, <2>1, ConstantsAssumption DEF Break, Fault, gotrue
<1>12. Deleted(authId[q]) \in [Mailboxes -> Id \cup {NoId}]
  BY DEF Deleted
<1>13. CASE Compensate(q)
  BY <1>12, <1>13 DEF Compensate, database
<1>14. CASE CompensationFails(q)
  <2>1. authId[q] \in Id
    BY <1>14, ConstantsAssumption DEF CompensationFails, Shape, Knows
  <2> QED
    BY <1>14, <2>1, ConstantsAssumption DEF CompensationFails, Fault, database
<1>15. CASE Crash(q)
  <2>1. pc[q] = "compensate" => authId[q] \in Id
    BY DEF Shape, Knows
  <2> QED
    BY <1>15, <2>1, ConstantsAssumption DEF Crash, Fault, database
<1> QED
  BY <1>1, <1>2, <1>3, <1>4, <1>5, <1>6, <1>7, <1>9, <1>10, <1>11, <1>13, <1>14, <1>15
  DEF Step, Handle

\* An invite that lands late.
LEMMA LandKeepsTypes ==
    ASSUME TypeOK, Shape, NEW q \in Request, Land(q)
    PROVE  TypeOK'
<1>1. Box(q) \in Mailboxes
  BY CallFacts DEF Land, Shape, Knows
<1> QED
  BY <1>1 DEF TypeOK, Land, Id, database

\* A delete that nobody waits for any more is asked for by the compensation of the
\* request that created the account, at its very end.
LEMMA DeletingChange ==
    ASSUME TypeOK, Shape, NEW q \in Request, Step(q)
    PROVE  \/ deleting' = deleting
           \/ /\ pc[q] = "compensate" /\ pc'[q] = "done" /\ created[q]
              /\ deleting' = deleting \cup {q}
              /\ answer'[q] \in {answer[q], "lost"}
              /\ UNCHANGED <<account, users, created, call>>
<1>1. CASE CompensationFails(q) \/ Crash(q)
  BY <1>1 DEF CompensationFails, Crash, Goto, Respond, TypeOK, Shape, Knows, database
<1>2. CASE ~CompensationFails(q) /\ ~Crash(q)
  BY <1>2 DEF Step, Handle, Begin, InviteCreates, InviteExists, InviteRefused,
     InviteUnavailable, Lookup, LookupFails, CheckOrphan, Commit, Refuse, Break, Compensate, gotrue
<1> QED
  BY <1>1, <1>2

\* Steps and what the request knows.
LEMMA ShapeStep ==
    ASSUME TypeOK, Shape, NEW q \in Request, Step(q)
    PROVE  Shape'
<1> USE DEF Goto, Respond, Unwind, gotrue
<1>0. /\ pc \in [Request -> PCs] /\ answer \in [Request -> Answers]
      /\ created \in [Request -> BOOLEAN] /\ authId \in [Request -> Id \cup {NoId}]
      /\ call \in [Request -> Calls \cup {NoCall}]
      /\ Knows(q) /\ NoId \notin Request
  BY ConstantsAssumption DEF TypeOK, Shape
<1> SUFFICES Knows(q)'
  <2>1. \A p \in Request \ {q} : Knows(p) => Knows(p)'
    BY Alone DEF Knows
  <2> QED
    BY <2>1 DEF Shape
<1>1. ASSUME NEW c \in Calls, Begin(q, c)
      PROVE  Knows(q)'
  <2>1. call'[q] = c /\ c.kind \in {"register", "invite", "rename"} /\ pc[q] = "idle"
    BY <1>0, <1>1, ConstantsAssumption DEF Begin, Call
  <2>2. created[q] = FALSE /\ q \notin unanswered /\ answer[q] = "none"
    BY <1>0, <2>1 DEF Knows
  <2>3. /\ c.kind = "rename" => pc'[q] \in {"write", "done"}
        /\ c.kind \in {"register", "invite"} => pc'[q] \in {"invite", "done"}
        /\ answer'[q] = "none" \/ pc'[q] = "done"
    BY <1>0, <1>1, <2>1, <2>2 DEF Begin
  <2>4. UNCHANGED <<created, authId, unanswered>>
    BY <1>1 DEF Begin
  <2> QED
    BY <2>1, <2>2, <2>3, <2>4 DEF Knows
<1>2. CASE InviteCreates(q)
  BY <1>0, <1>2, CallFacts DEF InviteCreates, Knows
<1>3. CASE InviteExists(q) \/ InviteRefused(q) \/ InviteUnavailable(q)
  BY <1>0, <1>3 DEF InviteExists, InviteRefused, InviteUnavailable, Knows
<1>4. CASE Lookup(q) \/ LookupFails(q)
  BY <1>0, <1>4 DEF Lookup, LookupFails, Knows
<1>5. CASE CheckOrphan(q)
  BY <1>0, <1>5 DEF CheckOrphan, Knows
<1>6. CASE Commit(q) \/ Refuse(q) \/ Break(q)
  <2>1. pc[q] = "write" /\ call[q].kind \in {"register", "invite", "rename"}
    BY <1>6, CallFacts DEF Commit, Refuse, Break
  <2>2. UNCHANGED <<call, created, authId, unanswered>>
    BY <1>6 DEF Commit, Refuse, Break
  <2>3. pc'[q] = "done" \/ (pc'[q] = "compensate" /\ created[q])
    BY <1>0, <1>6 DEF Commit, Refuse, Break
  <2>4. call[q].kind = "rename" => ~created[q]
    BY <1>0, <2>1 DEF Knows
  <2> QED
    BY <1>0, <2>1, <2>2, <2>3, <2>4 DEF Knows
<1>7. CASE Compensate(q) \/ CompensationFails(q) \/ Crash(q)
  BY <1>0, <1>7 DEF Compensate, CompensationFails, Crash, Knows
<1> QED
  BY <1>1, <1>2, <1>3, <1>4, <1>5, <1>6, <1>7 DEF Step, Handle

\* What a step does to the accounts: it creates the request's own, or deletes it.
LEMMA AccountChange ==
    ASSUME TypeOK, Shape, NEW q \in Request, Step(q) \/ Land(q), NEW m \in Mailboxes
    PROVE  \/ account'[m] = account[m]
           \/ /\ account[m] = NoId /\ account'[m] = q /\ m = Box(q)
              /\ \/ Land(q) /\ q \in unanswered
                 \/ InviteCreates(q)
           \/ account[m] = q /\ account'[m] = NoId /\ pc[q] = "compensate"
<1>1. CASE InviteCreates(q) \/ Land(q)
  BY <1>1 DEF InviteCreates, Land, TypeOK
<1>2. CASE Compensate(q)
  BY <1>2 DEF Compensate, Deleted, Shape, Knows
<1>3. CASE ~InviteCreates(q) /\ ~Land(q) /\ ~Compensate(q)
  BY <1>3 DEF Step, Handle, Crash, Begin, InviteExists, InviteRefused, InviteUnavailable,
     Lookup, LookupFails, CheckOrphan, Commit, Refuse, Break, CompensationFails, gotrue
<1> QED
  BY <1>1, <1>2, <1>3

\* What a step does to the database: nothing, or it writes the rows of the
\* request, against which no constraint speaks.
LEMMA DatabaseChange ==
    ASSUME TypeOK, NEW q \in Request, Step(q)
    PROVE  \/ UNCHANGED database
           \/ /\ pc[q] = "write" /\ ~Clashes(q) /\ Written(q)
              /\ pc'[q] \in {"compensate", "done"} /\ UNCHANGED <<call, authId, created>>
              /\ \/ answer'[q] = "500"
                 \/ answer'[q] = IF call[q].kind = "rename" THEN "200" ELSE "201"
<1>1. CASE Commit(q) \/ Break(q)
  BY <1>1 DEF Commit, Break, Respond, Unwind, TypeOK, database
<1>2. CASE ~Commit(q) /\ ~Break(q)
  BY <1>2 DEF Step, Handle, Crash, Begin, InviteCreates, InviteExists, InviteRefused,
     InviteUnavailable, Lookup, LookupFails, CheckOrphan, Refuse, Compensate, CompensationFails
<1> QED
  BY <1>1, <1>2

\* The account a request works with: its own or the one in its mailbox.
LEMMA AuthIdChange ==
    ASSUME TypeOK, NEW q \in Request, Step(q)
    PROVE  \/ authId'[q] = authId[q]
           \/ InviteCreates(q) /\ authId'[q] = q
           \/ Lookup(q) /\ account[Box(q)] # NoId /\ authId'[q] = account[Box(q)]
              /\ UNCHANGED call
BY DEF TypeOK, Step, Handle, Crash, Begin, InviteCreates, InviteExists, InviteRefused,
   InviteUnavailable, Lookup, LookupFails, CheckOrphan, Commit, Refuse, Break, Compensate,
   CompensationFails

\* What a request created or got no answer for, it does not forget.
LEMMA Remembers ==
    ASSUME TypeOK, NEW q \in Request, Step(q), NEW a \in Request
    PROVE  /\ created[a] => created'[a]
           /\ a \in unanswered => a \in unanswered'
           /\ orphanLog \subseteq orphanLog'
BY DEF TypeOK, Step, Handle, Crash, Begin, InviteCreates, InviteExists, InviteRefused,
   InviteUnavailable, Lookup, LookupFails, CheckOrphan, Commit, Refuse, Break, Compensate,
   CompensationFails, gotrue

\* Whom an account or a row is named after, asked for its mailbox.
LEMMA NamingStep ==
    ASSUME TypeOK, Shape, Naming, NEW q \in Request, Step(q)
    PROVE  Naming'
<1>1. ASSUME NEW m \in Mailboxes, NEW a, a = account'[m], a # NoId
      PROVE  Asked(a)' /\ m = Box(a)' /\ (created'[a] \/ a \in unanswered')
  <2>1. CASE a = account[m]
    <3>1. Asked(a) /\ m = Box(a) /\ (created[a] \/ a \in unanswered)
      BY <1>1, <2>1 DEF Naming
    <3> QED
      BY <3>1, AskedStays, Remembers DEF Asked
  <2>2. CASE a = q /\ m = Box(q) /\ q \in unanswered
    <3>1. Asked(q)
      BY <2>2 DEF Asked, Shape, Knows
    <3> QED
      BY <2>2, <3>1, AskedStays, Remembers
  <2>3. CASE a = q /\ m = Box(q) /\ InviteCreates(q)
    <3>1. Asked(q) /\ created'[q]
      BY <2>3 DEF Asked, InviteCreates, TypeOK
    <3> QED
      BY <2>3, <3>1, AskedStays
  <2> QED
    BY <1>1, <2>1, <2>2, <2>3, AccountChange
<1>2. ASSUME NEW p \in Request, NEW a, a = authId'[p], a # NoId
      PROVE  Asked(p)' /\ Asked(a)' /\ Box(a)' = Box(p)'
  <2>1. CASE a = authId[p]
    <3>1. Asked(p) /\ Asked(a) /\ Box(a) = Box(p)
      BY <1>2, <2>1 DEF Naming
    <3> QED
      BY <3>1, AskedStays
  <2>2. CASE p = q /\ InviteCreates(q) /\ a = q
    <3>1. Asked(q)
      BY <2>2 DEF Asked, InviteCreates
    <3> QED
      BY <2>2, <3>1, AskedStays
  <2>3. CASE p = q /\ Lookup(q) /\ a = account[Box(q)]
    <3>1. Asked(q) /\ Box(q) \in Mailboxes
      BY <2>3, CallFacts DEF Asked, Lookup
    <3>2. Asked(a) /\ Box(a) = Box(q)
      BY <1>2, <2>3, <3>1 DEF Naming
    <3> QED
      BY <2>3, <3>1, <3>2, AskedStays
  <2>4. p # q => authId'[p] = authId[p]
    BY Alone
  <2> QED
    BY <1>2, <2>1, <2>2, <2>3, <2>4, AuthIdChange
<1>3. ASSUME NEW u \in users'
      PROVE  Asked(u.id)' /\ Mailbox[u.address] = Box(u.id)'
  <2>1. CASE u \in users
    <3>1. Asked(u.id) /\ Mailbox[u.address] = Box(u.id)
      BY <2>1 DEF Naming
    <3> QED
      BY <3>1, AskedStays
  <2>2. CASE u \notin users
    <3>1. /\ pc[q] = "write" /\ call[q].kind # "rename"
          /\ u = [id |-> authId[q], tenant |-> TenantFor(q), address |-> call[q].address]
      BY <2>2, DatabaseChange DEF database, Written
    <3>2. authId[q] # NoId
      BY <3>1, CallFacts, ConstantsAssumption DEF Shape, Knows
    <3>3. u.id = authId[q] /\ u.address = call[q].address
      BY <3>1
    <3>4. Asked(u.id) /\ Mailbox[u.address] = Box(u.id)
      BY <3>2, <3>3 DEF Naming, Box
    <3> QED
      BY <3>4, AskedStays
  <2> QED
    BY <2>1, <2>2
<1> QED
  BY <1>1, <1>2, <1>3 DEF Naming, Asked, Box

\* What a step does to the name of one organisation.
LEMMA NameChange ==
    ASSUME TypeOK, NEW q \in Request, Step(q), NEW t \in Tenant
    PROVE  \/ orgName'[t] = orgName[t]
           \/ /\ pc[q] = "write" /\ orgName'[t] # NoName
              /\ \/ call[q].kind = "rename" /\ t = call[q].tenant
                 \/ /\ call[q].kind = "register" /\ t = q
                    /\ pc'[q] \in {"compensate", "done"} /\ answer'[q] \in {"201", "500"}
<1>1. CASE UNCHANGED database
  BY <1>1 DEF database
<1>2. CASE ~UNCHANGED database
  <2>1. /\ pc[q] = "write" /\ Written(q) /\ pc'[q] \in {"compensate", "done"}
        /\ answer'[q] \in {"200", "201", "500"}
        /\ call[q].kind # "rename" => answer'[q] \in {"201", "500"}
    BY <1>2, DatabaseChange
  <2>2. call[q].kind \in {"register", "invite", "rename"} /\ call[q].name # NoName
    BY <2>1, CallFacts
  <2>3. orgName'[t] # orgName[t] =>
          call[q].kind # "invite" /\ t = TenantFor(q) /\ orgName'[t] = call[q].name
    BY <2>1 DEF Written, TypeOK
  <2> QED
    BY <2>1, <2>2, <2>3 DEF TenantFor
<1> QED
  BY <1>1, <1>2

\* An organisation, once it has a name, keeps having one.
LEMMA NameStays ==
    ASSUME TypeOK, NEW q \in Request, Step(q), NEW t \in Tenant, orgName[t] # NoName
    PROVE  orgName'[t] # NoName
BY NameChange

\* Names appear at the end of a registration.
LEMMA NamesStep ==
    ASSUME TypeOK, Shape, Names, NEW q \in Request, Step(q)
    PROVE  Names'
<1>1. ASSUME NEW p \in Request, orgName'[p] # NoName
      PROVE  pc'[p] \in {"compensate", "done"} /\ answer'[p] \in {"201", "500", "lost"}
  <2>1. p \in Tenant
    BY DEF Tenant
  <2>2. CASE orgName[p] # NoName
    <3>1. pc[p] \in {"compensate", "done"} /\ answer[p] \in {"201", "500", "lost"}
      BY <2>2 DEF Names
    <3>2. p = q => Compensate(q) \/ CompensationFails(q) \/ Crash(q)
      BY <3>1 DEF Step, Handle, Begin, InviteCreates, InviteExists, InviteRefused,
         InviteUnavailable, Lookup, LookupFails, CheckOrphan, Commit, Refuse, Break
    <3>3. p = q => pc'[p] = "done" /\ answer'[p] \in {answer[p], "lost"}
      BY <3>2 DEF Compensate, CompensationFails, Crash, Goto, Respond, TypeOK
    <3> QED
      BY <3>1, <3>3, Alone
  <2>3. CASE orgName[p] = NoName
    <3>1. \/ call[q].kind = "rename" /\ p = call[q].tenant /\ pc[q] = "write"
          \/ p = q /\ pc'[q] \in {"compensate", "done"} /\ answer'[q] \in {"201", "500"}
      BY <1>1, <2>1, <2>3, NameChange
    <3>2. call[q].kind = "rename" /\ pc[q] = "write" => orgName[call[q].tenant] # NoName
      BY DEF Names
    <3> QED
      BY <2>3, <3>1, <3>2
  <2> QED
    BY <2>2, <2>3
<1>2. ASSUME NEW p \in Request, pc'[p] = "write", call'[p].kind = "rename"
      PROVE  orgName'[call'[p].tenant] # NoName
  <2>1. CASE pc[p] = "write" /\ call'[p] = call[p]
    <3>1. orgName[call[p].tenant] # NoName /\ call[p].tenant \in Tenant
      BY <1>2, <2>1, CallFacts DEF Names
    <3> QED
      BY <2>1, <3>1, NameStays
  <2>2. ASSUME p = q, NEW c \in Calls, Begin(q, c)
        PROVE  orgName'[call'[p].tenant] # NoName
    <3>1. call'[p] = c /\ UNCHANGED orgName
      BY <2>2 DEF Begin, TypeOK, database
    <3> QED
      BY <1>2, <2>2, <3>1 DEF Begin
  <2>3. CASE p = q /\ (InviteCreates(q) \/ CheckOrphan(q))
    BY <1>2, <2>3, CallFacts DEF InviteCreates, CheckOrphan, Shape, Knows
  <2>4. ASSUME p = q, Step(q) PROVE
             \/ \E c \in Calls : Begin(q, c)
             \/ InviteCreates(q) \/ CheckOrphan(q)
    BY <1>2, <2>4 DEF Step, Handle, Crash, InviteExists, InviteRefused,
       InviteUnavailable, Lookup, LookupFails, Commit, Refuse, Break, Compensate,
       CompensationFails, Goto, Respond, Unwind, TypeOK
  <2>5. p # q => pc[p] = "write" /\ call'[p] = call[p]
    BY <1>2, Alone
  <2> QED
    BY <2>1, <2>2, <2>3, <2>4, <2>5
<1> QED
  BY <1>1, <1>2 DEF Names

\* Rows are only ever added.
LEMMA RowsStay ==
    ASSUME TypeOK, NEW q \in Request, Step(q)
    PROVE  users \subseteq users'
BY DatabaseChange DEF database, Written

\* Orphan accounts keep an explanation.
LEMMA OrphansStep ==
    ASSUME TypeOK, Shape, Naming, OrphansAreAccountedFor, NEW q \in Request, Step(q)
    PROVE  OrphansAreAccountedFor'
<1> SUFFICES ASSUME NEW m \in Mailboxes, account'[m] # NoId,
                    \A u \in users' : u.id # account'[m]
             PROVE  \/ pc'[account'[m]] \in {"write", "compensate"}
                    \/ account'[m] \in unanswered' \cup orphanLog'
                    \/ answer'[account'[m]] = "lost"
  BY DEF OrphansAreAccountedFor
<1>1. CASE account'[m] = q /\ InviteCreates(q)
  BY <1>1 DEF InviteCreates, Goto, TypeOK
<1>2. CASE account'[m] = q /\ q \in unanswered
  BY <1>2, Remembers
<1>3. CASE account'[m] = account[m] /\ account[m] # q
  <2>1. PICK a : a = account[m]
    OBVIOUS
  <2>2. a \in Request \ {q}
    BY <1>3, <2>1 DEF Naming, Asked
  <2>3. pc[a] \in {"write", "compensate"} \/ a \in unanswered \cup orphanLog \/ answer[a] = "lost"
    BY <1>3, <2>1, RowsStay DEF OrphansAreAccountedFor
  <2> QED
    BY <1>3, <2>1, <2>2, <2>3, Alone, Remembers
<1>4. CASE account'[m] = q /\ account[m] = q /\ q \notin unanswered
  <2>1. created[q] /\ authId[q] = q /\ pc[q] \in {"write", "compensate", "done"}
    BY <1>4, ConstantsAssumption DEF Naming, Shape, Knows
  <2>2. CASE pc[q] = "write"
    <3>1. call[q].kind # "rename"
      BY <2>1, <2>2 DEF Shape, Knows
    <3>2. ~Commit(q)
      <4>0. DEFINE row == [id |-> authId[q], tenant |-> TenantFor(q), address |-> call[q].address]
      <4>1. Written(q) => \E u \in users' : u.id = q
        <5>1. row.id = q
          BY <2>1
        <5>2. Written(q) => row \in users'
          BY <3>1 DEF Written
        <5> QED
          BY <5>1, <5>2
      <4> QED
        BY <1>4, <4>1 DEF Commit
    <3>3. Refuse(q) \/ Break(q) \/ Crash(q)
      BY <2>2, <3>2 DEF Step, Handle, Begin, InviteCreates, InviteExists, InviteRefused,
         InviteUnavailable, Lookup, LookupFails, CheckOrphan, Compensate, CompensationFails
    <3> QED
      BY <1>4, <2>1, <3>3 DEF Refuse, Break, Crash, Unwind, Respond, TypeOK
  <2>3. CASE pc[q] = "compensate"
    <3>1. ~Compensate(q)
      BY <1>4, <2>1, ConstantsAssumption DEF Compensate, Deleted
    <3>2. CompensationFails(q) \/ Crash(q)
      BY <2>3, <3>1 DEF Step, Handle, Begin, InviteCreates, InviteExists, InviteRefused,
         InviteUnavailable, Lookup, LookupFails, CheckOrphan, Commit, Refuse, Break
    <3> QED
      BY <1>4, <2>1, <3>2 DEF CompensationFails, Crash, Respond, TypeOK
  <2> QED
    BY <2>1, <2>2, <2>3, CallStays
<1> QED
  BY <1>1, <1>2, <1>3, <1>4, AccountChange

\* No identity gets a second row.
LEMMA UniqueIdsStep ==
    ASSUME TypeOK, UniqueIds, NEW q \in Request, Step(q)
    PROVE  UniqueIds'
<1>1. CASE UNCHANGED database
  BY <1>1 DEF database, UniqueIds
<1>2. CASE pc[q] = "write" /\ ~Clashes(q) /\ Written(q)
  <2> DEFINE row == [id |-> authId[q], tenant |-> TenantFor(q), address |-> call[q].address]
  <2>1. CASE call[q].kind = "rename"
    BY <1>2, <2>1 DEF Written, UniqueIds
  <2>2. CASE call[q].kind # "rename"
    <3>1. \A u \in users : u.id # authId[q]
      BY <1>2, <2>2 DEF Clashes
    <3>2. users' = users \cup {row} /\ row.id = authId[q]
      BY <1>2, <2>2 DEF Written
    <3> HIDE DEF row
    <3> QED
      BY <3>1, <3>2 DEF UniqueIds
  <2> QED
    BY <2>1, <2>2
<1> QED
  BY <1>1, <1>2, DatabaseChange

\* A registration writes the organisation and its first administrator; an
\* invitation adds to an organisation that is there; a renaming changes a name.
LEMMA RegistrationStep ==
    ASSUME TypeOK, Shape, Names, RegistrationIsWhole, NEW q \in Request, Step(q)
    PROVE  RegistrationIsWhole'
<1>1. CASE UNCHANGED database
  BY <1>1 DEF database, RegistrationIsWhole
<1>2. CASE pc[q] = "write" /\ ~Clashes(q) /\ Written(q)
  <2> SUFFICES ASSUME NEW p \in Request
               PROVE  orgName'[p] # NoName <=> \E u \in users' : u.id = p /\ u.tenant = p
    BY DEF RegistrationIsWhole
  <2> DEFINE row == [id |-> authId[q], tenant |-> TenantFor(q), address |-> call[q].address]
  <2>1. /\ p \in Tenant
        /\ orgName[p] # NoName <=> \E u \in users : u.id = p /\ u.tenant = p
        /\ row.id = authId[q] /\ row.tenant = TenantFor(q)
        /\ TenantFor(q) \in Tenant /\ call[q].name # NoName
        /\ call[q].kind \in {"register", "invite", "rename"}
        /\ orgName \in [Tenant -> Name \cup {NoName}]
    BY <1>2, CallFacts DEF RegistrationIsWhole, Tenant, TypeOK
  <2>2. CASE call[q].kind = "register"
    <3>1. /\ authId[q] = q /\ TenantFor(q) = q
      BY <1>2, <2>2 DEF Shape, Knows, TenantFor
    <3>2. /\ orgName' = [orgName EXCEPT ![q] = call[q].name]
          /\ users' = users \cup {row}
      BY <1>2, <2>2, <3>1 DEF Written
    <3> HIDE DEF row
    <3> QED
      BY <2>1, <3>1, <3>2
  <2>3. CASE call[q].kind = "invite"
    <3>1. TenantFor(q) = call[q].tenant /\ orgName[call[q].tenant] # NoName
      BY <1>2, <2>3 DEF Clashes, TenantFor
    <3>2. orgName' = orgName /\ users' = users \cup {row}
      BY <1>2, <2>3 DEF Written
    <3> HIDE DEF row
    <3> QED
      BY <2>1, <3>1, <3>2
  <2>4. CASE call[q].kind = "rename"
    <3>1. TenantFor(q) = call[q].tenant /\ orgName[call[q].tenant] # NoName
      BY <1>2, <2>4 DEF Names, TenantFor
    <3>2. orgName' = [orgName EXCEPT ![call[q].tenant] = call[q].name] /\ users' = users
      BY <1>2, <2>4, <3>1 DEF Written
    <3> HIDE DEF row
    <3> QED
      BY <2>1, <3>1, <3>2
  <2> QED
    BY <2>1, <2>2, <2>3, <2>4
<1> QED
  BY <1>1, <1>2, DatabaseChange

\* A 201 has its row, and rows stay.
LEMMA DeliveredStep ==
    ASSUME TypeOK, Shape, Delivered, NEW q \in Request, Step(q)
    PROVE  Delivered'
<1> SUFFICES ASSUME NEW p \in Request, answer'[p] = "201"
             PROVE  \E u \in users' : /\ u.id = authId'[p]
                                      /\ u.tenant = TenantFor(p)'
                                      /\ u.address = call'[p].address
  BY DEF Delivered
<1>1. CASE /\ answer[p] = "201" /\ authId'[p] = authId[p] /\ call'[p] = call[p]
  <2>1. TenantFor(p)' = TenantFor(p)
    BY <1>1 DEF TenantFor
  <2> QED
    BY <1>1, <2>1, RowsStay DEF Delivered
<1>2. CASE p = q /\ pc[q] = "compensate"
  <2>1. UNCHANGED <<authId, call>>
    BY <1>2 DEF Step, Handle, Crash, Begin, InviteCreates, InviteExists, InviteRefused,
       InviteUnavailable, Lookup, LookupFails, CheckOrphan, Commit, Refuse, Break, Compensate,
       CompensationFails
  <2>2. answer[q] = "201"
    BY <1>2 DEF Step, Handle, Crash, Begin, InviteCreates, InviteExists, InviteRefused,
       InviteUnavailable, Lookup, LookupFails, CheckOrphan, Commit, Refuse, Break, Compensate,
       CompensationFails, Goto, Respond, TypeOK
  <2> QED
    BY <1>1, <1>2, <2>1, <2>2
<1>3. CASE p = q /\ pc[q] # "compensate"
  <2>1. answer[q] = "none"
    BY <1>3, CallStays DEF Shape, Knows
  <2>2. Commit(q)
    BY <1>3, <2>1 DEF Step, Handle, Crash, Begin, InviteCreates, InviteExists, InviteRefused,
       InviteUnavailable, Lookup, LookupFails, CheckOrphan, Refuse, Break, Compensate,
       CompensationFails, Goto, Respond, Unwind, NotAdopted, TypeOK
  <2>3. call[q].kind # "rename" /\ Written(q) /\ UNCHANGED <<authId, call>>
    BY <1>3, <2>2 DEF Commit, Respond, TypeOK
  <2> DEFINE row == [id |-> authId[q], tenant |-> TenantFor(q), address |-> call[q].address]
  <2>4. /\ row \in users' /\ row.id = authId[q] /\ row.tenant = TenantFor(q)
        /\ row.address = call[q].address
    BY <2>3 DEF Written
  <2>5. TenantFor(q)' = TenantFor(q)
    BY <2>3 DEF TenantFor
  <2> HIDE DEF row
  <2> QED
    BY <1>3, <2>3, <2>4, <2>5
<1> QED
  BY <1>1, <1>2, <1>3, Alone

\* An invite that lands late finds its mailbox free; its request had no answer.
LEMMA LandStep ==
    ASSUME IInv, NEW q \in Request, Land(q)
    PROVE  IInv'
<1>0. TypeOK /\ Shape /\ Naming /\ Names /\ OrphansAreAccountedFor
  BY DEF IInv
<1>1. /\ UNCHANGED <<unanswered, users, orgName, pc, call, authId, created, answer, orphanLog>>
      /\ q \in unanswered
  BY DEF Land, database
<1>2. TypeOK'
  BY <1>0, LandKeepsTypes
<1>3. Shape' /\ Names' /\ RegistrationIsWhole' /\ UniqueIds' /\ Delivered'
  BY <1>1 DEF IInv, Shape, Knows, Names, RegistrationIsWhole, UniqueIds, Delivered, TenantFor
<1>4. \A m \in Mailboxes : account'[m] = account[m] \/ (account'[m] = q /\ m = Box(q))
  BY <1>0 DEF Land, TypeOK
<1>5. Asked(q)
  BY <1>0, <1>1 DEF Shape, Knows, Asked
<1>6. Naming'
  BY <1>0, <1>1, <1>4, <1>5 DEF Naming, Asked, Box
<1>7. OrphansAreAccountedFor'
  BY <1>0, <1>1, <1>4 DEF OrphansAreAccountedFor
<1> QED
  BY <1>2, <1>3, <1>6, <1>7 DEF IInv

\* A delete that is applied late takes one account away, and nothing else changes.
LEMMA LandDeleteStep ==
    ASSUME IInv, NEW q \in Request, LandDelete(q)
    PROVE  IInv'
<1>0. TypeOK /\ Shape /\ Naming /\ Names /\ OrphansAreAccountedFor
  BY DEF IInv
<1>1. UNCHANGED <<unanswered, users, orgName, pc, call, authId, created, answer, orphanLog, faults>>
  BY DEF LandDelete, database
<1>2. /\ account' \in [Mailboxes -> Id \cup {NoId}]
      /\ \A m \in Mailboxes : account'[m] \in {account[m], NoId}
      /\ deleting' \subseteq deleting
  BY <1>0 DEF LandDelete, Deleted, TypeOK
<1>3. TypeOK'
  BY <1>0, <1>1, <1>2 DEF TypeOK
<1>4. Shape' /\ Names' /\ RegistrationIsWhole' /\ UniqueIds' /\ Delivered'
  BY <1>1 DEF IInv, Shape, Knows, Names, RegistrationIsWhole, UniqueIds, Delivered, TenantFor
<1>5. Naming'
  BY <1>0, <1>1, <1>2 DEF Naming, Asked, Box
<1>6. OrphansAreAccountedFor'
  BY <1>0, <1>1, <1>2 DEF OrphansAreAccountedFor
<1> QED
  BY <1>3, <1>4, <1>5, <1>6 DEF IInv

\* Every step keeps the invariant.
LEMMA StepIInv ==
    ASSUME IInv, [Next]_vars
    PROVE  IInv'
<1>1. ASSUME NEW q \in Request, Step(q)
      PROVE  IInv'
  BY <1>1, TypeStep, ShapeStep, NamingStep, NamesStep, OrphansStep, RegistrationStep,
     UniqueIdsStep, DeliveredStep DEF IInv
<1>2. CASE UNCHANGED vars
  BY <1>2 DEF vars, gotrue, database, IInv, TypeOK, Shape, Knows, Naming, Asked, Box, Names,
     OrphansAreAccountedFor, RegistrationIsWhole, UniqueIds, Delivered, TenantFor
<1> QED
  BY <1>1, <1>2, LandStep, LandDeleteStep DEF Next, Step, Terminating
-----------------------------------------------------------------------------
(***************************************************************************)
(* The identities behind the accounts: what has become of each of them.    *)
(***************************************************************************)
\* A request that created an account was answered; the account is there until its
\* compensation, also one that got no answer yet; whatever names an identity names
\* one that exists or existed.
Fates ==
    /\ \A q \in Request :
        /\ created[q] => q \notin unanswered
        /\ pc[q] = "compensate" => answer[q] \in {"409", "500"}
        /\ created[q] =>
            \/ account[Box(q)] = q
            \/ pc[q] = "done" /\ answer[q] \in {"409", "500", "lost"}
        /\ authId[q] # NoId => authId[q] \in Known
        /\ q \in deleting =>
            /\ created[q] /\ pc[q] = "done" /\ answer[q] \in {"409", "500", "lost"}
            /\ account[Box(q)] = q
    /\ \A u \in users : u.id \in Known

\* Whoever has an account asked for it, and the account is in his mailbox.
LEMMA KnownAsked ==
    ASSUME IInv, NEW a \in Known
    PROVE  Asked(a) /\ (a \in Live => account[Box(a)] = a /\ Box(a) \in Mailboxes)
<1>1. CASE a \in Live
  BY <1>1, ConstantsAssumption DEF Live, IInv, Naming
<1>2. CASE a \notin Live
  BY <1>2 DEF Known, IInv, Shape, Knows, Asked
<1> QED
  BY <1>1, <1>2

\* A new identity: GoTrue answers, or it does not wait for anybody to listen.
LEMMA CreatesIdentity ==
    ASSUME IInv, Fates, NEW q \in Request, InviteCreates(q) \/ Land(q)
    PROVE  /\ q \notin Known /\ Box(q) \in Mailboxes
           /\ \A j \in Live : Box(j) # Box(q)
           /\ Live' = Live \cup {q} /\ Known' = Known \cup {q}
           /\ UNCHANGED <<call, users>>
           /\ InviteCreates(q) => Held' = Held \cup {q}
           /\ Land(q) => Held' = Held
<1>0. TypeOK /\ Shape /\ Naming /\ Knows(q) /\ NoId \notin Request
  BY ConstantsAssumption DEF IInv, Shape
<1>1. /\ account[Box(q)] = NoId /\ account' = [account EXCEPT ![Box(q)] = q]
      /\ UNCHANGED <<call, users>>
      /\ pc[q] = "invite" \/ q \in unanswered
  BY DEF InviteCreates, Land, database
<1>2. Box(q) \in Mailboxes
  BY <1>0, <1>1, CallFacts DEF Knows
<1>3. ~created[q]
  BY <1>0, <1>1 DEF Knows, Fates
<1>4. \A j \in Live : Box(j) # Box(q)
  BY <1>0, <1>1, KnownAsked DEF Known, Live
<1>5. q \notin Known
  BY <1>3, <1>4 DEF Known
<1>6. Live' = Live \cup {q}
  <2>1. \A m \in Mailboxes : account'[m] = IF m = Box(q) THEN q ELSE account[m]
    BY <1>0, <1>1 DEF TypeOK
  <2> QED
    BY <1>0, <1>1, <1>2, <2>1 DEF Live
<1>7. \A a \in Request : created'[a] = created[a] \/ a = q
  BY <1>0 DEF InviteCreates, Land, TypeOK
<1>8. Known' = Known \cup {q}
  BY <1>0, <1>6, <1>7, Remembers DEF Known, Step, Handle, Land
<1>9. InviteCreates(q) => Held' = Held \cup {q}
  BY <1>0 DEF InviteCreates, Goto, Held, TypeOK
<1>10. Land(q) => Held' = Held
  BY DEF Land, Held
<1> QED
  BY <1>1, <1>2, <1>4, <1>5, <1>6, <1>8, <1>9, <1>10

\* Every other step: at most, a compensation ends the identity of its own request.
LEMMA KeepsIdentities ==
    ASSUME IInv, NEW q \in Request, Step(q), ~InviteCreates(q)
    PROVE  /\ Known' = Known
           /\ \A a \in Known : Box(a)' = Box(a)
           /\ \/ Live' = Live
              \/ Live' = Live \ {q} /\ Compensate(q)
<1>0. TypeOK /\ Shape /\ Naming /\ Knows(q) /\ NoId \notin Request
  BY ConstantsAssumption DEF IInv, Shape
<1>1. \A a \in Known : Box(a)' = Box(a)
  BY <1>0, KnownAsked, AskedStays
<1>2. UNCHANGED created
  BY DEF Step, Handle, Crash, Begin, InviteExists, InviteRefused, InviteUnavailable,
     Lookup, LookupFails, CheckOrphan, Commit, Refuse, Break, Compensate, CompensationFails
<1>3. CASE UNCHANGED account
  BY <1>1, <1>2, <1>3 DEF Live, Known
<1>4. CASE ~UNCHANGED account
  <2>1. Compensate(q)
    BY <1>4 DEF Step, Handle, Crash, Begin, InviteExists, InviteRefused, InviteUnavailable,
       Lookup, LookupFails, CheckOrphan, Commit, Refuse, Break, CompensationFails, gotrue
  <2>2. created[q] /\ authId[q] = q
    BY <1>0, <2>1 DEF Knows, Compensate
  <2>3. account' = Deleted(q)
    BY <2>1, <2>2 DEF Compensate
  <2>4. \A m \in Mailboxes : account'[m] = IF account[m] = q THEN NoId ELSE account[m]
    BY <2>3 DEF Deleted
  <2>5. Live' = Live \ {q}
    BY <1>0, <2>4 DEF Live
  <2>6. Known' = Known
    BY <1>2, <2>2, <2>5 DEF Known
  <2> QED
    BY <1>1, <2>1, <2>5, <2>6
<1> QED
  BY <1>3, <1>4

\* What was known stays known.
LEMMA KnownStays ==
    ASSUME IInv, Fates, NEW q \in Request, Step(q) \/ Land(q)
    PROVE  Known \subseteq Known'
BY CreatesIdentity, KeepsIdentities

\* Before the first request.
LEMMA InitFates ==
    ASSUME Init
    PROVE  Fates
BY DEF Init, Fates

\* An account stays until its request, having answered for it, takes it back.
LEMMA AccountStays ==
    ASSUME IInv, Fates, NEW q \in Request, Step(q), NEW p \in Request, created'[p]
    PROVE  \/ account'[Box(p)'] = p
           \/ pc'[p] = "done" /\ answer'[p] \in {"409", "500", "lost"}
<1>0. TypeOK /\ Shape /\ Naming /\ Knows(p) /\ NoId \notin Request
  BY ConstantsAssumption DEF IInv, Shape
<1>1. CASE p = q /\ InviteCreates(q)
  <2>1. Box(q)' = Box(q) /\ Box(q) \in Mailboxes
    BY <1>1, CreatesIdentity DEF Box
  <2> QED
    BY <1>0, <1>1, <2>1 DEF InviteCreates, TypeOK
<1>2. CASE ~(p = q /\ InviteCreates(q))
  <2>1. created[p]
    BY <1>2, Alone, <1>0 DEF Step, Handle, Crash, Begin, InviteExists, InviteRefused,
       InviteUnavailable, Lookup, LookupFails, CheckOrphan, Commit, Refuse, Break, Compensate,
       CompensationFails
  <2>2. Box(p)' = Box(p)
    BY <1>0, <2>1, KnownAsked, AskedStays DEF Known
  <2>3. CASE account[Box(p)] = p
    <3>1. Box(p) \in Mailboxes
      BY <1>0, <2>1, CallFacts DEF Knows
    <3>2. CASE account'[Box(p)] = p
      BY <2>2, <3>2
    <3>3. CASE p = q /\ pc[q] = "compensate"
      <4>1. answer[q] \in {"409", "500"}
        BY <3>3 DEF Fates
      <4>2. Compensate(q) \/ CompensationFails(q) \/ Crash(q)
        BY <3>3 DEF Step, Handle, Begin, InviteCreates, InviteExists, InviteRefused,
           InviteUnavailable, Lookup, LookupFails, CheckOrphan, Commit, Refuse, Break
      <4> QED
        BY <1>0, <3>3, <4>1, <4>2 DEF Compensate, CompensationFails, Crash, Goto, Respond, TypeOK
    <3> QED
      BY <1>0, <2>3, <3>1, <3>2, <3>3, AccountChange
  <2>4. CASE pc[p] = "done" /\ answer[p] \in {"409", "500", "lost"}
    <3>1. p # q
      BY <2>4, CallStays
    <3> QED
      BY <1>0, <2>4, <3>1, Alone
  <2> QED
    BY <2>1, <2>3, <2>4 DEF Fates
<1> QED
  BY <1>1, <1>2

\* Steps and fates.
LEMMA FatesStep ==
    ASSUME IInv, Fates, NEW q \in Request, Step(q)
    PROVE  Fates'
<1>0. TypeOK /\ Shape /\ Naming /\ Knows(q) /\ NoId \notin Request
  BY ConstantsAssumption DEF IInv, Shape
<1>1. ASSUME NEW p \in Request
      PROVE  created'[p] => p \notin unanswered'
  <2>1. CASE p # q
    BY <1>0, <2>1, Alone DEF Fates
  <2>2. CASE p = q /\ pc[q] = "invite"
    <3>1. ~created[q] /\ q \notin unanswered
      BY <1>0, <2>2 DEF Knows
    <3>2. CASE InviteCreates(q)
      BY <2>2, <3>1, <3>2 DEF InviteCreates
    <3>3. CASE ~InviteCreates(q)
      BY <1>0, <2>2, <3>1, <3>3 DEF Step, Handle, Crash, Begin, InviteExists, InviteRefused,
         InviteUnavailable, Lookup, LookupFails, CheckOrphan, Commit, Refuse, Break, Compensate,
         CompensationFails
    <3> QED
      BY <3>2, <3>3
  <2>3. CASE p = q /\ pc[q] # "invite"
    <3>1. UNCHANGED <<created, unanswered>>
      BY <2>3 DEF Step, Handle, Crash, Begin, InviteCreates, InviteExists, InviteRefused,
         InviteUnavailable, Lookup, LookupFails, CheckOrphan, Commit, Refuse, Break, Compensate,
         CompensationFails, gotrue
    <3> QED
      BY <3>1 DEF Fates
  <2> QED
    BY <2>1, <2>2, <2>3
<1>2. ASSUME NEW p \in Request, pc'[p] = "compensate"
      PROVE  answer'[p] \in {"409", "500"}
  <2>1. CASE p # q
    BY <1>0, <1>2, <2>1, Alone DEF Fates
  <2>2. CASE p = q
    <3>1. Refuse(q) \/ Break(q)
      BY <1>0, <1>2, <2>2 DEF Step, Handle, Crash, Begin, InviteCreates, InviteExists,
         InviteRefused, InviteUnavailable, Lookup, LookupFails, CheckOrphan, Commit, Compensate,
         CompensationFails, Goto, Respond, TypeOK
    <3> QED
      BY <1>0, <2>2, <3>1 DEF Refuse, Break, Unwind, TypeOK
  <2> QED
    BY <2>1, <2>2
<1>3. ASSUME NEW p \in Request, authId'[p] # NoId
      PROVE  authId'[p] \in Known'
  <2>1. CASE authId'[p] = authId[p]
    BY <1>3, <2>1, KnownStays DEF Fates
  <2>2. CASE authId'[p] = q /\ InviteCreates(q)
    BY <2>2, CreatesIdentity
  <2>3. CASE /\ Lookup(q) /\ authId'[p] = account[Box(q)]
    <3>1. Box(q) \in Mailboxes
      BY <1>0, <2>3, CallFacts DEF Lookup
    <3>2. account[Box(q)] \in Live
      BY <1>0, <1>3, <2>3, <3>1 DEF Live, Naming, Asked
    <3> QED
      BY <2>3, <3>2, KnownStays DEF Known
  <2> QED
    BY <1>0, <2>1, <2>2, <2>3, Alone, AuthIdChange
<1>4. ASSUME NEW u \in users'
      PROVE  u.id \in Known'
  <2>1. CASE u \in users
    BY <2>1, KnownStays DEF Fates
  <2>2. CASE u \notin users
    <3>1. /\ pc[q] = "write" /\ call[q].kind # "rename"
          /\ u = [id |-> authId[q], tenant |-> TenantFor(q), address |-> call[q].address]
      BY <1>0, <1>4, <2>2, DatabaseChange DEF database, Written
    <3>2. authId[q] # NoId
      BY <1>0, <3>1, CallFacts DEF Knows
    <3> QED
      BY <3>1, <3>2, KnownStays DEF Fates
  <2> QED
    BY <2>1, <2>2
<1>5. ASSUME NEW p \in deleting'
      PROVE  /\ created'[p] /\ pc'[p] = "done" /\ answer'[p] \in {"409", "500", "lost"}
             /\ account'[Box(p)'] = p
  <2>1. CASE p \in deleting
    <3>1. /\ p \in Request /\ created[p] /\ pc[p] = "done"
          /\ answer[p] \in {"409", "500", "lost"} /\ account[Box(p)] = p
      BY <1>0, <2>1 DEF Fates, TypeOK
    <3>2. p # q /\ Box(p) \in Mailboxes
      BY <1>0, <3>1, CallStays, CallFacts
    <3>3. Box(p)' = Box(p)
      BY <1>0, <3>1, <3>2, Alone DEF Box
    <3>4. account'[Box(p)] = p
      BY <1>0, <3>1, <3>2, AccountChange
    <3> QED
      BY <1>0, <3>1, <3>2, <3>3, <3>4, Alone
  <2>2. CASE p \notin deleting
    <3>1. /\ p = q /\ pc[q] = "compensate" /\ pc'[q] = "done" /\ created[q]
          /\ answer'[q] \in {answer[q], "lost"} /\ UNCHANGED <<account, created, call>>
      BY <1>0, <1>5, <2>2, DeletingChange
    <3>2. answer[q] \in {"409", "500"} /\ account[Box(q)] = q
      BY <3>1 DEF Fates
    <3> QED
      BY <3>1, <3>2 DEF Box
  <2> QED
    BY <2>1, <2>2
<1> QED
  BY <1>1, <1>2, <1>3, <1>4, <1>5, AccountStays DEF Fates

LEMMA FatesLand ==
    ASSUME IInv, Fates, NEW q \in Request, Land(q)
    PROVE  Fates'
<1>1. UNCHANGED <<unanswered, deleting, users, pc, call, authId, created, answer>>
  BY DEF Land, database
<1>2. \A p \in Request : created[p] /\ account[Box(p)] = p => account'[Box(p)] = p
  BY ConstantsAssumption DEF Land, IInv, TypeOK
<1> QED
  BY <1>1, <1>2, KnownStays DEF Fates, Box

\* A late delete, when it is applied: the identity it ends is its own request's.
LEMMA FatesLandDelete ==
    ASSUME IInv, Fates, NEW q \in Request, LandDelete(q)
    PROVE  /\ Fates'
           /\ q \in Known /\ Known' = Known /\ Live' = Live \ {q}
           /\ q \in Held /\ Held' = Held \ {q}
           /\ UNCHANGED <<users, call, created, pc, answer>>
<1>0. TypeOK /\ Naming /\ NoId \notin Request
  BY ConstantsAssumption DEF IInv
<1>1. UNCHANGED <<unanswered, users, pc, call, authId, created, answer>>
  BY DEF LandDelete, database
<1>2. /\ q \in deleting /\ deleting' = deleting \ {q}
      /\ created[q] /\ pc[q] = "done" /\ answer[q] \in {"409", "500", "lost"}
  BY DEF LandDelete, Fates
<1>3. \A m \in Mailboxes : account'[m] = IF account[m] = q THEN NoId ELSE account[m]
  BY DEF LandDelete, Deleted
<1>4. Live' = Live \ {q}
  BY <1>0, <1>3 DEF Live
<1>5. q \in Known /\ Known' = Known
  BY <1>1, <1>2, <1>4 DEF Known
<1>6. q \in Held /\ Held' = Held \ {q}
  BY <1>1, <1>2 DEF Held
<1>7. \A p \in Request \ {q} : created[p] /\ account[Box(p)] = p => account'[Box(p)] = p
  <2> SUFFICES ASSUME NEW p \in Request \ {q}, created[p], account[Box(p)] = p
               PROVE  account'[Box(p)] = p
    OBVIOUS
  <2>1. Box(p) \in Mailboxes
    BY <1>0, CallFacts DEF IInv, Shape, Knows
  <2> QED
    BY <1>3, <2>1
<1>8. Fates'
  BY <1>1, <1>2, <1>5, <1>7 DEF Fates, Box
<1> QED
  BY <1>1, <1>4, <1>5, <1>6, <1>8

\* Nothing but a delete its own request asked for removes an account.
LEMMA StepCompensates ==
    ASSUME IInv, Fates, [Next]_vars,
           NEW m \in Mailboxes, account[m] # NoId, account'[m] # account[m]
    PROVE  LET a == account[m]
           IN  /\ account'[m] = NoId
               /\ created[a] /\ answer[a] \in {"409", "500", "lost"}
               /\ pc[a] = "compensate" \/ a \in deleting
<1>1. ASSUME NEW q \in Request, Step(q) \/ Land(q)
      PROVE  /\ pc[account[m]] = "compensate" /\ account'[m] = NoId /\ account[m] = q
             /\ created[q] /\ answer[q] \in {"409", "500"}
  <2>1. pc[q] = "compensate" /\ account'[m] = NoId /\ account[m] = q
    BY <1>1, AccountChange DEF IInv
  <2> QED
    BY <2>1 DEF IInv, Shape, Knows, Fates
<1>2. ASSUME NEW q \in Request, LandDelete(q)
      PROVE  /\ account'[m] = NoId /\ account[m] = q /\ q \in deleting
             /\ created[q] /\ answer[q] \in {"409", "500", "lost"}
  BY <1>2 DEF LandDelete, Deleted, Fates
<1>3. ~UNCHANGED vars
  BY DEF vars, gotrue
<1> QED
  BY <1>1, <1>2, <1>3 DEF Next, Step, Terminating

LEMMA StepFates ==
    ASSUME IInv, Fates, [Next]_vars
    PROVE  Fates'
<1>1. CASE UNCHANGED vars
  BY <1>1 DEF vars, gotrue, Fates, Known, Live, Box, database
<1> QED
  BY <1>1, FatesStep, FatesLand, FatesLandDelete DEF Next, Step, Terminating

\* The steps of the sagas as steps of one identity each.
LEMMA StepOfAnIdentity ==
    ASSUME IInv, Fates, NEW q \in Request, Step(q), ~InviteCreates(q)
    PROVE  Identity!IdentityNext \/ UNCHANGED <<Home, Held, Withdrawn, users>>
<1>0. TypeOK /\ Shape /\ Naming /\ Knows(q) /\ NoId \notin Request
  BY ConstantsAssumption DEF IInv, Shape
<1>1. Known' = Known /\ Home' = Home
  BY KeepsIdentities DEF Home
<1>2. Held \subseteq Request /\ Held' \ {q} = Held \ {q}
  BY <1>0, Alone, DeletingChange DEF Held, TypeOK
<1>7. /\ q \notin deleting
      /\ pc[q] # "compensate" => deleting' = deleting
  BY <1>0, CallStays, DeletingChange DEF Fates
<1>3. CASE pc[q] \notin {"write", "compensate"}
  <2>1. ~created[q] \/ pc[q] = "done"
    BY <1>0, <1>3 DEF Knows
  <2>2. ~created'[q]
    BY <1>0, <1>3, <2>1, CallStays DEF Step, Handle, Crash, Begin, InviteExists, InviteRefused,
       InviteUnavailable, Lookup, LookupFails, CheckOrphan, Commit, Refuse, Break, Compensate,
       CompensationFails, Knows
  <2>3. UNCHANGED <<users, account>>
    BY <1>3 DEF Step, Handle, Crash, Begin, InviteExists, InviteRefused,
       InviteUnavailable, Lookup, LookupFails, CheckOrphan, Commit, Refuse, Break, Compensate,
       CompensationFails, gotrue, database
  <2>4. Held' = Held /\ Live' = Live
    BY <1>2, <1>3, <1>7, <2>2, <2>3 DEF Held, Live
  <2> QED
    BY <1>1, <2>3, <2>4 DEF Withdrawn
<1>4. CASE pc[q] \in {"write", "compensate"} /\ UNCHANGED <<users, account>>
  <2>1. UNCHANGED created
    BY DEF Step, Handle, Crash, Begin, InviteExists, InviteRefused, InviteUnavailable,
       Lookup, LookupFails, CheckOrphan, Commit, Refuse, Break, Compensate, CompensationFails
  <2>2. UNCHANGED <<Home, Withdrawn, users>>
    BY <1>1, <1>4 DEF Withdrawn, Live
  <2>3. CASE Held' = Held
    BY <2>2, <2>3
  <2>4. CASE Held' # Held
    <3>0. q \in Held' => q \in Held
      BY <1>0, <1>4, <1>7, <2>1, DeletingChange DEF Held, Knows
    <3>1. q \in Held /\ Held' = Held \ {q}
      BY <1>2, <2>4, <3>0
    <3>2. Identity!Settle(q)
      BY <2>2, <3>1 DEF Identity!Settle
    <3> QED
      BY <3>2 DEF Identity!IdentityNext
  <2> QED
    BY <2>3, <2>4
<1>5. CASE ~UNCHANGED users
  <2> DEFINE row == [id |-> authId[q], tenant |-> TenantFor(q), address |-> call[q].address]
  <2>1. /\ pc[q] = "write" /\ ~Clashes(q) /\ call[q].kind # "rename"
        /\ users' = users \cup {row} /\ UNCHANGED <<call, authId, created>>
    BY <1>0, <1>5, DatabaseChange DEF database, Written
  <2>2. authId[q] \in Known /\ authId[q] # NoId
    BY <1>0, <2>1, CallFacts DEF Knows, Fates
  <2>3. row \in Identity!Row
    BY <1>0, <2>1, <2>2, CallFacts DEF Identity!Row, Known, Live
  <2>4. row.id = authId[q] /\ Mailbox[row.address] = Box(q) /\ Box(authId[q]) = Box(q)
    BY <1>0, <2>2 DEF Naming, Box
  <2>5. \A s \in users : s.id # row.id
    BY <2>1, <2>4 DEF Clashes
  <2>6. UNCHANGED account
    BY <2>1 DEF Step, Handle, Crash, Begin, InviteExists, InviteRefused,
       InviteUnavailable, Lookup, LookupFails, CheckOrphan, Commit, Refuse, Break, Compensate,
       CompensationFails, gotrue
  <2>7. UNCHANGED <<Home, Withdrawn>>
    BY <1>1, <2>6 DEF Withdrawn, Live
  <2>8. Held' \in {Held, Held \ {row.id}}
    <3>1. created[q] => row.id = q
      BY <1>0, <2>4 DEF Knows
    <3>2. ~created[q] => q \notin Held /\ q \notin Held'
      BY <1>7, <2>1 DEF Held
    <3> QED
      BY <1>2, <1>7, <2>1, <3>1, <3>2 DEF Held
  <2>9. row.id \in DOMAIN Home /\ Home[row.id] = Mailbox[row.address]
    BY <2>2, <2>4 DEF Home
  <2> HIDE DEF row
  <2>10. Identity!Admit(row)
    BY <2>1, <2>5, <2>7, <2>8, <2>9 DEF Identity!Admit
  <2> QED
    BY <2>3, <2>10 DEF Identity!IdentityNext
<1>6. CASE UNCHANGED users /\ ~UNCHANGED account
  <2>1. Compensate(q)
    BY <1>6 DEF Step, Handle, Crash, Begin, InviteExists, InviteRefused, InviteUnavailable,
       Lookup, LookupFails, CheckOrphan, Commit, Refuse, Break, CompensationFails, gotrue
  <2>2. created[q] /\ q \in Held /\ q \in Known
    BY <1>0, <2>1 DEF Knows, Compensate, Held, Known
  <2>3. Held' = Held \ {q}
    BY <1>0, <1>2, <1>7, <2>1, <2>2 DEF Held, Compensate, Goto, TypeOK
  <2>4. account' = Deleted(q)
    BY <1>0, <2>1 DEF Compensate, Knows
  <2>5. Live' = Live \ {q}
    BY <1>0, <2>4 DEF Live, Deleted, TypeOK
  <2>6. Withdrawn' = Withdrawn \cup {q}
    BY <1>1, <2>2, <2>5 DEF Withdrawn
  <2>7. Identity!Withdraw(q)
    BY <1>1, <1>6, <2>2, <2>3, <2>6 DEF Identity!Withdraw
  <2> QED
    BY <2>7 DEF Identity!IdentityNext
<1> QED
  BY <1>3, <1>4, <1>5, <1>6

\* An identity whose deletion got no answer is withdrawn after its saga has ended.
LEMMA LateWithdrawal ==
    ASSUME IInv, Fates, NEW q \in Request, LandDelete(q)
    PROVE  Identity!IdentityNext
<1>1. /\ q \in Known /\ Known' = Known /\ Live' = Live \ {q}
      /\ q \in Held /\ Held' = Held \ {q} /\ UNCHANGED <<users, call>>
  BY FatesLandDelete
<1>2. Home' = Home /\ Withdrawn' = Withdrawn \cup {q}
  BY <1>1 DEF Home, Withdrawn, Box
<1>3. Identity!Withdraw(q)
  BY <1>1, <1>2 DEF Identity!Withdraw
<1> QED
  BY <1>3 DEF Identity!IdentityNext

\* An account that comes about is a new identity.
LEMMA NewIdentity ==
    ASSUME IInv, Fates, NEW q \in Request, InviteCreates(q) \/ Land(q)
    PROVE  Identity!IdentityNext
<1>1. q \notin DOMAIN Home
  BY CreatesIdentity DEF Home
<1>2. Known \ Withdrawn = Live /\ DOMAIN Home = Known
  BY DEF Known, Withdrawn, Home
<1>3. \A j \in DOMAIN Home \ Withdrawn : Home[j] # Box(q)
  BY <1>2, CreatesIdentity DEF Home, Known
<1>4. Home' = [j \in DOMAIN Home \cup {q} |-> IF j = q THEN Box(q) ELSE Home[j]]
  BY <1>2, CreatesIdentity DEF Home, Box
<1>5. Withdrawn' = Withdrawn
  BY CreatesIdentity DEF Withdrawn, Known
<1>6. Held' \in {Held, Held \cup {q}} /\ UNCHANGED users
  BY CreatesIdentity
<1>7. Identity!Create(q, Box(q))
  BY <1>1, <1>3, <1>4, <1>5, <1>6 DEF Identity!Create
<1>8. Box(q) \in Mailboxes
  BY CreatesIdentity
<1> QED
  BY <1>7, <1>8 DEF Identity!IdentityNext, Mailboxes
-----------------------------------------------------------------------------
\* Every row, account and local of a request has its type.
THEOREM TypeCorrect == Spec => []TypeOK
<1>1. IInv => TypeOK
  BY DEF IInv
<1> QED
  BY <1>1, InitIInv, StepIInv, PTL DEF Spec

\* An account is deleted, on time or late, only at the word of the request that
\* created it and was itself refused, broken or killed: whoever adopted it does not
\* delete it, whatever fails after the adoption.
THEOREM AdoptersNeverDelete == Spec => CompensatesOnlyItsOwn
<1>1. IInv /\ Fates /\ [Next]_vars
        => [\A m \in Mailboxes :
              account[m] # NoId /\ account'[m] # account[m] =>
                LET a == account[m]
                IN  /\ account'[m] = NoId
                    /\ created[a] /\ answer[a] \in {"409", "500", "lost"}
                    /\ pc[a] = "compensate" \/ a \in deleting]_vars
  BY StepCompensates
<1> QED
  BY <1>1, InitIInv, StepIInv, InitFates, StepFates, PTL DEF Spec, CompensatesOnlyItsOwn

\* D-4: whatever times out, breaks or crashes, and however often, an account
\* without a row has an explanation.
THEOREM OrphansExplained == Spec => []OrphansAreAccountedFor
<1>1. IInv => OrphansAreAccountedFor
  BY DEF IInv
<1> QED
  BY <1>1, InitIInv, StepIInv, PTL DEF Spec

\* UC-02: an organisation and its first administrator come together or not at all,
\* and the administrator is the one its registration created.
THEOREM RegistrationCorrect == Spec => []RegistrationIsWhole
<1>1. IInv => RegistrationIsWhole
  BY DEF IInv
<1> QED
  BY <1>1, InitIInv, StepIInv, PTL DEF Spec

\* An account backs at most one row, the one of its own mailbox.
THEOREM RowsMatch == Spec => []RowMatchesAccount
<1>1. IInv => RowMatchesAccount
  <2> SUFFICES ASSUME IInv PROVE RowMatchesAccount
    OBVIOUS
  <2>1. \A u \in users : Asked(u.id) /\ Mailbox[u.address] = Box(u.id)
    BY DEF IInv, Naming
  <2>2. \A m \in Mailboxes : account[m] # NoId => m = Box(account[m])
    BY DEF IInv, Naming
  <2> QED
    BY <2>1, <2>2, ConstantsAssumption DEF IInv, UniqueIds, RowMatchesAccount, Asked
<1> QED
  BY <1>1, InitIInv, StepIInv, PTL DEF Spec

\* A 201 means that the user is there, a refusal that no organisation was
\* registered.
THEOREM AnswersCorrect == Spec => []AnswersAreTrue
<1>1. IInv => AnswersAreTrue
  BY DEF IInv, Delivered, Names, AnswersAreTrue
<1> QED
  BY <1>1, InitIInv, StepIInv, PTL DEF Spec

\* A row loses its account only to the compensation of the request that created the
\* account and was refused, broken or killed, on time or late.
THEOREM DanglingRowsCorrect == Spec => []DanglingRowsAreExplained
<1>1. IInv /\ Fates => DanglingRowsAreExplained
  <2> SUFFICES ASSUME IInv, Fates, NEW u \in users, account[Mailbox[u.address]] # u.id
               PROVE  /\ created[u.id] /\ pc[u.id] = "done"
                      /\ answer[u.id] \in {"409", "500", "lost"}
    BY DEF DanglingRowsAreExplained
  <2>1. u.id \in Known /\ Mailbox[u.address] = Box(u.id)
    BY DEF Fates, IInv, Naming
  <2>2. u.id \in Request /\ created[u.id]
    BY <2>1, KnownAsked DEF Known, Live
  <2> QED
    BY <2>1, <2>2 DEF Fates
<1> QED
  BY <1>1, InitIInv, StepIInv, InitFates, StepFates, PTL DEF Spec

\* The sagas implement the promise of Identities, whatever times out, breaks, crashes
\* or lands late, and however many requests are after the same mailbox.
THEOREM IdentityRefinement == Spec => ImplementsIdentities
<1>1. Init => Identity!IdentityInit
  <2> SUFFICES ASSUME Init PROVE Identity!IdentityInit
    OBVIOUS
  <2>1. Known = {} /\ Live = {} /\ Held = {} /\ users = {}
    BY ConstantsAssumption DEF Init, Known, Live, Held
  <2> QED
    BY <2>1 DEF Identity!IdentityInit, Home, Withdrawn
<1>2. IInv /\ Fates /\ [Next]_vars
        => [Identity!IdentityNext]_<<Home, Held, Withdrawn, users>>
  <2> SUFFICES ASSUME IInv, Fates, [Next]_vars
               PROVE  Identity!IdentityNext \/ UNCHANGED <<Home, Held, Withdrawn, users>>
    OBVIOUS
  <2>1. CASE UNCHANGED vars
    BY <2>1 DEF vars, gotrue, database, Home, Held, Withdrawn, Known, Live, Box
  <2>2. ASSUME NEW q \in Request, Step(q) \/ Land(q) \/ LandDelete(q)
        PROVE  Identity!IdentityNext \/ UNCHANGED <<Home, Held, Withdrawn, users>>
    BY <2>2, StepOfAnIdentity, NewIdentity, LateWithdrawal
  <2> QED
    BY <2>1, <2>2 DEF Next, Step, Terminating
<1> QED
  BY <1>1, <1>2, InitIInv, StepIInv, InitFates, StepFates, PTL
  DEF Spec, ImplementsIdentities, Identity!IdentitySpec, Identity!identityVars

=============================================================================
