--------------------------- MODULE UserAdminProofs ---------------------------
(***************************************************************************)
(* Proofs about UserAdmin, for every set of users, tenants and requests.   *)
(*                                                                         *)
(* The argument about the last administrator: while nobody overtakes a     *)
(* request, what it has seen is what is stored and what it has counted is  *)
(* still true, and two administrators are one more than it can take away.  *)
(***************************************************************************)
EXTENDS UserAdmin, FiniteSetTheorems, TLAPS

\* What was checked stays checked: the caller's role and scope are those of the
\* request's first statement, whatever the users table says by now.
Authorised(q) ==
    /\ answer[q] # "none" => pc[q] = "done"
    /\ pc[q] \in {"load", "check", "count", "commit"} =>
        asRole[q] \in {"tenant_admin", "system_admin"}
    /\ pc[q] \in {"check", "count", "commit"} => ~OutOfScope(q)
    /\ pc[q] \in {"count", "commit"} /\ call[q].kind = "patch" => ~Escalates(q)

\* A request nobody has overtaken has seen its target as it is.
Fresh(q) ==
    pc[q] \in {"check", "count", "commit"} /\ ~overtaken[q] =>
        /\ seenRole[q] = role[call[q].target]
        /\ seenStatus[q] = status[call[q].target]

\* The commit would take an active administrator away.
Removes(q) ==
    /\ GuardApplies(q)
    /\ IF call[q].kind = "patch" THEN call[q].role \notin {"tenant_admin", "unset"}
       ELSE Deactivates(q)

\* It has counted, and if nobody has overtaken it, the count holds.
Counted(q) ==
    pc[q] = "commit" /\ ~overtaken[q] /\ Removes(q) =>
        Cardinality(Admins(TenantOf[call[q].target])) > 1

\* Only who is about to take an administrator away counts.
AboutToCount(q) == pc[q] = "count" => Removes(q)

\* The inductive invariant.
IInv ==
    /\ TypeOK
    /\ \A q \in Request : Authorised(q) /\ Fresh(q) /\ Counted(q) /\ AboutToCount(q)

\* What request q does in one step.
Step(q) ==
    \/ \E c \in Calls : Begin(q, c)
    \/ Load(q) \/ CheckRole(q) \/ CheckStatus(q) \/ Count(q) \/ Commit(q) \/ Fail(q)

\* An accepted call has its fields.
LEMMA CallFacts ==
    ASSUME TypeOK, NEW q \in Request, pc[q] # "idle"
    PROVE  /\ call[q] \in Calls /\ call[q] # NoCall
           /\ call[q].kind \in {"patch", "status"}
           /\ call[q].target \in User /\ call[q].actor \in User
           /\ call[q].role \in Role \cup {"unset"}
           /\ call[q].status \in UserStatus
BY ConstantsAssumption DEF TypeOK, Call

\* The others stand still, except that they may have been overtaken.
LEMMA Alone ==
    ASSUME TypeOK, NEW q \in Request, Step(q), NEW p \in Request \ {q}
    PROVE  /\ pc'[p] = pc[p] /\ call'[p] = call[p] /\ answer'[p] = answer[p]
           /\ asRole'[p] = asRole[p]
           /\ seenRole'[p] = seenRole[p] /\ seenStatus'[p] = seenStatus[p]
           /\ ~overtaken'[p] => ~overtaken[p] /\ UNCHANGED rows
<1> USE DEF TypeOK, Goto, Respond, seen, rows
<1>1. CASE Commit(q)
  <2>1. overtaken'[p] = (overtaken[p] \/ (p # q /\ rows' # rows))
    BY <1>1 DEF Commit
  <2>2. ~overtaken'[p] => ~overtaken[p] /\ rows' = rows
    BY <2>1
  <2>3. UNCHANGED <<call, seen>> /\ pc'[p] = pc[p] /\ answer'[p] = answer[p]
    BY <1>1 DEF Commit
  <2> QED
    BY <2>2, <2>3
<1>2. CASE ~Commit(q)
  BY <1>2 DEF Step, Begin, Load, CheckRole, CheckStatus, Count, Fail
<1> QED
  BY <1>1, <1>2

\* Only a commit writes, and only its target.
LEMMA Writes ==
    ASSUME TypeOK, NEW q \in Request, Step(q)
    PROVE  \/ UNCHANGED rows
           \/ /\ Commit(q) /\ call[q].target \in User
              /\ \A u \in User \ {call[q].target} : role'[u] = role[u] /\ status'[u] = status[u]
              /\ call[q].kind = "patch" =>
                   role'[call[q].target] = Patched(q) /\ status' = status
              /\ call[q].kind = "status" =>
                   /\ role' = role
                   /\ status'[call[q].target] \in {status[call[q].target], call[q].status}
<1>1. CASE Commit(q)
  <2>1. call[q].target \in User
    BY <1>1, CallFacts DEF Commit
  <2> QED
    BY <1>1, <2>1 DEF Commit, TypeOK
<1>2. CASE ~Commit(q)
  BY <1>2 DEF Step, Begin, Load, CheckRole, CheckStatus, Count, Fail
<1> QED
  BY <1>1, <1>2

\* Before the first request.
LEMMA InitIInv ==
    ASSUME Init
    PROVE  IInv
<1>1. TypeOK
  BY ConstantsAssumption DEF Init, TypeOK, PCs, Answers, UserStatus, Role
<1>2. \A q \in Request : pc[q] = "idle" /\ answer[q] = "none"
  BY DEF Init
<1> QED
  BY <1>1, <1>2 DEF IInv, Authorised, Fresh, Counted, AboutToCount

\* Types and steps.
LEMMA TypeStep ==
    ASSUME TypeOK, NEW q \in Request, Step(q)
    PROVE  TypeOK'
<1> USE DEF TypeOK, PCs, Answers, Goto, Respond, rows, seen
<1>1. ASSUME NEW c \in Calls, Begin(q, c)
      PROVE  TypeOK'
  <2>1. c \in Call /\ c # NoCall
    BY ConstantsAssumption
  <2> QED
    BY <1>1, <2>1 DEF Begin, Call
<1>2. CASE Load(q)
  <2>1. call[q].target \in User
    BY <1>2, CallFacts DEF Load
  <2> QED
    BY <1>2, <2>1 DEF Load
<1>3. CASE CheckRole(q) \/ CheckStatus(q) \/ Count(q) \/ Fail(q)
  BY <1>3 DEF CheckRole, CheckStatus, Count, Fail
<1>4. CASE Commit(q)
  <2>1. Patched(q) \in Role /\ call[q].status \in UserStatus
    BY <1>4, CallFacts DEF Commit, Patched
  <2> QED
    BY <1>4, <2>1 DEF Commit
<1> QED
  BY <1>1, <1>2, <1>3, <1>4 DEF Step

\* What the others checked, saw and counted.
LEMMA OthersKeep ==
    ASSUME TypeOK, NEW q \in Request, Step(q), NEW p \in Request \ {q},
           Authorised(p), Fresh(p), Counted(p), AboutToCount(p)
    PROVE  Authorised(p)' /\ Fresh(p)' /\ Counted(p)' /\ AboutToCount(p)'
<1>1. Authorised(p)'
  BY Alone DEF Authorised, OutOfScope, Escalates
<1>2. Fresh(p)' /\ AboutToCount(p)'
  BY Alone DEF Fresh, rows, AboutToCount, Removes, GuardApplies, Deactivates
<1>3. CASE ~overtaken'[p]
  <2>1. UNCHANGED rows /\ ~overtaken[p]
    BY <1>3, Alone
  <2>2. pc'[p] = "commit" /\ Removes(p)' => Removes(p) /\ pc[p] = "commit"
    BY Alone DEF Removes, GuardApplies, Deactivates
  <2>3. call'[p] = call[p]
    BY Alone
  <2> QED
    BY <1>1, <1>2, <2>1, <2>2, <2>3 DEF Counted, Admins, rows
<1>4. CASE overtaken'[p]
  BY <1>1, <1>2, <1>4 DEF Counted
<1> QED
  BY <1>3, <1>4

\* What the request itself checks, sees and counts.
LEMMA OwnStep ==
    ASSUME TypeOK, NEW q \in Request, Step(q), Authorised(q), Fresh(q), Counted(q),
           AboutToCount(q)
    PROVE  Authorised(q)' /\ Fresh(q)' /\ Counted(q)' /\ AboutToCount(q)'
<1> USE DEF Goto, Respond, seen, rows
<1>0. /\ pc \in [Request -> PCs] /\ answer \in [Request -> Answers]
      /\ asRole \in [Request -> Role] /\ overtaken \in [Request -> BOOLEAN]
      /\ seenRole \in [Request -> Role] /\ seenStatus \in [Request -> UserStatus]
      /\ call \in [Request -> Calls \cup {NoCall}]
  BY DEF TypeOK
<1>1. ASSUME NEW c \in Calls, Begin(q, c)
      PROVE  Authorised(q)' /\ Fresh(q)' /\ Counted(q)' /\ AboutToCount(q)'
  BY <1>0, <1>1 DEF Begin, Authorised, Fresh, Counted, AboutToCount
<1>2. CASE Load(q)
  BY <1>0, <1>2 DEF Load, Authorised, Fresh, Counted, AboutToCount, OutOfScope
<1>3. CASE CheckRole(q)
  <2>1. Authorised(q)'
    BY <1>0, <1>3 DEF CheckRole, Authorised, OutOfScope, Escalates
  <2>2. Fresh(q)'
    BY <1>0, <1>3 DEF CheckRole, Fresh
  <2>3. Counted(q)'
    BY <1>0, <1>3 DEF CheckRole, Counted, Removes, GuardApplies
  <2>4. AboutToCount(q)'
    BY <1>0, <1>3 DEF CheckRole, AboutToCount, Removes, GuardApplies
  <2> QED
    BY <2>1, <2>2, <2>3, <2>4
<1>4. CASE CheckStatus(q)
  <2>1. Authorised(q)'
    BY <1>0, <1>4 DEF CheckStatus, Authorised, OutOfScope
  <2>2. Fresh(q)'
    BY <1>0, <1>4 DEF CheckStatus, Fresh
  <2>3. Counted(q)'
    BY <1>0, <1>4 DEF CheckStatus, Counted, Removes, GuardApplies, Deactivates
  <2>4. AboutToCount(q)'
    BY <1>0, <1>4 DEF CheckStatus, AboutToCount, Removes, GuardApplies, Deactivates
  <2> QED
    BY <2>1, <2>2, <2>3, <2>4
<1>5. CASE Count(q)
  <2>1. Authorised(q)' /\ Fresh(q)'
    BY <1>0, <1>5 DEF Count, Authorised, Fresh, OutOfScope, Escalates
  <2>2. Counted(q)' /\ AboutToCount(q)'
    BY <1>0, <1>5 DEF Count, Counted, Admins, AboutToCount
  <2> QED
    BY <2>1, <2>2
<1>6. CASE Commit(q) \/ Fail(q)
  BY <1>0, <1>6 DEF Commit, Fail, Authorised, Fresh, Counted, AboutToCount
<1> QED
  BY <1>1, <1>2, <1>3, <1>4, <1>5, <1>6 DEF Step

\* Every step keeps the invariant.
LEMMA StepIInv ==
    ASSUME IInv, [Next]_vars
    PROVE  IInv'
<1>1. ASSUME NEW q \in Request, Step(q)
      PROVE  IInv'
  <2>1. TypeOK'
    BY <1>1, TypeStep DEF IInv
  <2>2. \A p \in Request : Authorised(p)' /\ Fresh(p)' /\ Counted(p)' /\ AboutToCount(p)'
    BY <1>1, OthersKeep, OwnStep DEF IInv
  <2> QED
    BY <2>1, <2>2 DEF IInv
<1>2. CASE UNCHANGED vars
  <2>1. TypeOK'
    BY <1>2 DEF vars, rows, seen, IInv, TypeOK
  <2>2. ASSUME NEW p \in Request
        PROVE  Authorised(p)' /\ Fresh(p)'
    BY <1>2 DEF vars, rows, seen, IInv, Authorised, Fresh, OutOfScope, Escalates
  <2>3. ASSUME NEW p \in Request
        PROVE  Counted(p)' /\ AboutToCount(p)'
    BY <1>2 DEF vars, rows, seen, IInv, Counted, AboutToCount, Removes, GuardApplies,
                Deactivates, Admins
  <2> QED
    BY <2>1, <2>2, <2>3 DEF IInv
<1> QED
  BY <1>1, <1>2 DEF Next, Step, Terminating

\* A request that ends its commit with a 200 is the one that took the step.
LEMMA WhoCommits ==
    ASSUME IInv, [Next]_vars, NEW q \in Request, pc[q] = "commit", answer'[q] = "200"
    PROVE  Commit(q)
<1>1. TypeOK /\ answer[q] = "none"
  BY DEF IInv, Authorised
<1>2. PICK p \in Request : Step(p)
  BY <1>1 DEF Next, Step, Terminating, vars
<1>3. p = q
  BY <1>1, <1>2, Alone
<1> QED
  BY <1>1, <1>2, <1>3 DEF Step, Begin, Load, CheckRole, CheckStatus, Count, Fail, Respond, TypeOK

\* Who changes a row.
LEMMA StepIsAuthorised ==
    ASSUME IInv, [Next]_vars, NEW u \in User, role'[u] # role[u] \/ status'[u] # status[u]
    PROVE  \E q \in Request :
             /\ pc[q] = "commit" /\ answer'[q] = "200" /\ call[q].target = u
             /\ \/ asRole[q] = "system_admin"
                \/ /\ asRole[q] = "tenant_admin"
                   /\ TenantOf[call[q].actor] = TenantOf[u]
                   /\ role'[u] = "system_admin" => role[u] = "system_admin"
<1>1. PICK q \in Request : Step(q)
  BY DEF Next, Step, Terminating, vars, rows
<1>2. TypeOK /\ Authorised(q)
  BY DEF IInv
<1>3. /\ Commit(q) /\ call[q].target = u
      /\ call[q].kind = "patch" => role'[u] = Patched(q)
      /\ call[q].kind = "status" => role' = role
  BY <1>1, <1>2, Writes DEF rows
<1>4. pc[q] = "commit" /\ answer'[q] = "200" /\ call[q].kind \in {"patch", "status"}
  BY <1>2, <1>3, CallFacts DEF Commit, Respond, TypeOK
<1>5. asRole[q] \in {"tenant_admin", "system_admin"} /\ ~OutOfScope(q)
  BY <1>2, <1>4 DEF Authorised
<1>6. asRole[q] = "tenant_admin" =>
        /\ TenantOf[call[q].actor] = TenantOf[u]
        /\ role'[u] = "system_admin" => role[u] = "system_admin"
  BY <1>2, <1>3, <1>4, <1>5 DEF Authorised, OutOfScope, Escalates, Patched
<1> QED
  BY <1>3, <1>4, <1>5, <1>6

\* Who takes the last administrator away, was overtaken.
LEMMA StepKeepsAnAdmin ==
    ASSUME IInv, [Next]_vars, NEW q \in Request, NEW t \in Tenant,
           pc[q] = "commit", answer'[q] = "200", Admins(t) # {}, Admins(t)' = {}
    PROVE  overtaken[q]
<1> SUFFICES ASSUME ~overtaken[q] PROVE FALSE
  OBVIOUS
<1>1. TypeOK /\ Commit(q) /\ Fresh(q) /\ Counted(q)
  BY WhoCommits DEF IInv
<1>2. PICK u \in User : u = call[q].target
  BY <1>1, CallFacts
<1>3. \A v \in User \ {u} : role'[v] = role[v] /\ status'[v] = status[v]
  BY <1>1, <1>2, Writes DEF Step, rows
<1>4. Admins(t) = {u}
  BY <1>3 DEF Admins
<1>5. TenantOf[u] = t /\ role[u] = "tenant_admin" /\ status[u] = "active"
  BY <1>4 DEF Admins
<1>6. role'[u] # "tenant_admin" \/ status'[u] # "active"
  BY <1>5 DEF Admins
<1>7. seenRole[q] = "tenant_admin" /\ seenStatus[q] = "active"
  BY <1>1, <1>2, <1>5 DEF Fresh
<1>8. ~(Cardinality(Admins(TenantOf[u])) > 1)
  BY <1>4, <1>5, FS_Singleton
<1>9. CASE call[q].kind = "patch"
  <2>1. role'[u] # role[u] /\ role'[u] = Patched(q)
    BY <1>1, <1>2, <1>5, <1>6, <1>9, Writes DEF Step, rows
  <2>2. call[q].role \notin {"tenant_admin", "unset"}
    BY <1>2, <1>5, <1>7, <2>1 DEF Patched
  <2>3. Removes(q)
    BY <1>7, <1>9, <2>2 DEF Removes, GuardApplies
  <2> QED
    BY <1>1, <1>2, <1>8, <2>3 DEF Counted, Commit
<1>10. CASE call[q].kind = "status"
  <2>1. status'[u] # status[u] /\ status'[u] = call[q].status
    BY <1>1, <1>2, <1>5, <1>6, <1>10, Writes DEF Step, rows
  <2>2. Deactivates(q)
    BY <1>1, <1>5, <1>7, <2>1, CallFacts DEF Deactivates, UserStatus
  <2>3. Removes(q)
    BY <1>7, <1>10, <2>2 DEF Removes, GuardApplies
  <2> QED
    BY <1>1, <1>2, <1>8, <2>3 DEF Counted, Commit
<1> QED
  BY <1>1, <1>9, <1>10, CallFacts
\* The guard answers 409 only where it must.
LEMMA StepRefusesOnlyTheLast ==
    ASSUME IInv, [Next]_vars, NEW q \in Request,
           pc[q] = "count", answer'[q] = "409", ~overtaken[q]
    PROVE  Admins(TenantOf[call[q].target]) = {call[q].target}
<1>1. TypeOK /\ answer[q] = "none" /\ Fresh(q) /\ Removes(q)
  BY DEF IInv, Authorised, AboutToCount
<1>2. PICK p \in Request : Step(p)
  BY <1>1 DEF Next, Step, Terminating, vars
<1>3. p = q
  BY <1>1, <1>2, Alone
<1>4. Count(q)
  BY <1>1, <1>2, <1>3 DEF Step, Begin, Load, CheckRole, CheckStatus, Commit, Fail, Respond, TypeOK
<1>5. PICK u \in User : u = call[q].target
  BY <1>1, CallFacts
<1>6. u \in Admins(TenantOf[u])
  BY <1>1, <1>5 DEF Admins, Fresh, Removes, GuardApplies
<1>7. ~(Cardinality(Admins(TenantOf[u])) > 1)
  BY <1>1, <1>4, <1>5 DEF Count, Goto, TypeOK
<1>8. IsFiniteSet(Admins(TenantOf[u]))
  BY ConstantsAssumption, FS_Subset DEF Admins
<1>9. Cardinality(Admins(TenantOf[u])) = 1
  BY <1>6, <1>7, <1>8, FS_CardinalityType, FS_EmptySet
<1> QED
  BY <1>5, <1>6, <1>8, <1>9, FS_Singleton

\* What a 200 stands for.
LEMMA StepDoesIt ==
    ASSUME IInv, [Next]_vars, NEW q \in Request, pc[q] = "commit", answer'[q] = "200"
    PROVE  /\ call[q].kind = "status" =>
                \/ status'[call[q].target] = call[q].status
                \/ overtaken[q] /\ seenStatus[q] = call[q].status
           /\ call[q].kind = "patch" /\ call[q].role # "unset" =>
                \/ role'[call[q].target] = call[q].role
                \/ overtaken[q] /\ seenRole[q] = call[q].role
<1>1. TypeOK /\ Commit(q) /\ Fresh(q)
  BY WhoCommits DEF IInv
<1>2. PICK u \in User : u = call[q].target
  BY <1>1, CallFacts
<1>3. ~overtaken[q] => seenRole[q] = role[u] /\ seenStatus[q] = status[u]
  BY <1>1, <1>2 DEF Fresh
<1>4. CASE call[q].kind = "status"
  <2>1. status'[u] = IF call[q].status = seenStatus[q] THEN status[u] ELSE call[q].status
    BY <1>1, <1>2, <1>4 DEF Commit, TypeOK
  <2> QED
    BY <1>2, <1>3, <1>4, <2>1
<1>5. CASE call[q].kind = "patch"
  <2>1. role'[u] = Patched(q)
    BY <1>1, <1>2, <1>5, Writes DEF Step, rows, Commit, TypeOK
  <2> QED
    BY <1>2, <1>3, <1>5, <2>1 DEF Patched
<1> QED
  BY <1>1, <1>4, <1>5, CallFacts
-----------------------------------------------------------------------------
\* Roles and statuses of the rows and of what sessions remember have their types.
THEOREM TypeCorrect == Spec => []TypeOK
<1>1. IInv => TypeOK
  BY DEF IInv
<1> QED
  BY <1>1, InitIInv, StepIInv, PTL DEF Spec

\* D-3: a tenant loses its last active administrator only to a race, however many
\* requests, users and tenants there are.
THEOREM LastAdminSafe == Spec => LastAdminFallsOnlyToARace
<1>1. IInv /\ [Next]_vars
        => [\A q \in Request, t \in Tenant :
              pc[q] = "commit" /\ answer'[q] = "200" /\ Admins(t) # {} /\ Admins(t)' = {}
              => overtaken[q]]_vars
  BY StepKeepsAnAdmin
<1> QED
  BY <1>1, InitIInv, StepIInv, PTL DEF Spec, LastAdminFallsOnlyToARace

\* NFR-12 and UC-03 E2: a row changes only for a caller who was authorised when
\* authenticated, and only System Admins make System Admins.
THEOREM WritesAuthorised == Spec => WritesAreAuthorised
<1>1. IInv /\ [Next]_vars
        => [\A u \in User : <<role[u], status[u]>>' # <<role[u], status[u]>> =>
              \E q \in Request :
                /\ pc[q] = "commit" /\ answer'[q] = "200" /\ call[q].target = u
                /\ \/ asRole[q] = "system_admin"
                   \/ /\ asRole[q] = "tenant_admin"
                      /\ TenantOf[call[q].actor] = TenantOf[u]
                      /\ role'[u] = "system_admin" => role[u] = "system_admin"]_vars
  BY StepIsAuthorised
<1> QED
  BY <1>1, InitIInv, StepIInv, PTL DEF Spec, WritesAreAuthorised

\* The other half of D-3: whoever is refused, was about to take the only active
\* administrator away, for any number of users.
THEOREM RefusalsProtect == Spec => GuardSparesTheOthers
<1>1. IInv /\ [Next]_vars
        => [\A q \in Request : pc[q] = "count" /\ answer'[q] = "409" /\ ~overtaken[q] =>
              Admins(TenantOf[call[q].target]) = {call[q].target}]_vars
  BY StepRefusesOnlyTheLast
<1> QED
  BY <1>1, InitIInv, StepIInv, PTL DEF Spec, GuardSparesTheOthers

\* A 200 means done, but for a column that was left alone because it already had
\* the value and that another request has changed since.
THEOREM OkCorrect == Spec => OkMeansDone
<1>1. IInv /\ [Next]_vars
        => [\A q \in Request : pc[q] = "commit" /\ answer'[q] = "200" =>
              LET u == call[q].target
              IN  /\ call[q].kind = "status" =>
                      \/ status'[u] = call[q].status
                      \/ overtaken[q] /\ seenStatus[q] = call[q].status
                  /\ call[q].kind = "patch" /\ call[q].role # "unset" =>
                      \/ role'[u] = call[q].role
                      \/ overtaken[q] /\ seenRole[q] = call[q].role]_vars
  BY StepDoesIt
<1> QED
  BY <1>1, InitIInv, StepIInv, PTL DEF Spec, OkMeansDone
=============================================================================
