--------------------------- MODULE WorkflowProofs ---------------------------
(***************************************************************************)
(* Proofs about Workflow, for every set of users, incidents, requests and  *)
(* calls.                                                                  *)
(***************************************************************************)
EXTENDS Workflow, SequenceTheorems, TLAPS

\* An incident being filed has an identifier of its own (FreshIds).
FreshIds ==
    \A q \in Request : pc[q] = "category" =>
        /\ call[q].kind = "create"
        /\ status[call[q].incident] = "unfiled"
        /\ \A p \in Request \ {q} : pc[p] = "category" =>
            call[p].incident # call[q].incident

\* The inductive invariant.  TimelineIsPath and ClosedWithNote are not inductive:
\* a commit appends a row for the status its request SAW, so one must know that
\* the row lock still protects that status (LockDiscipline) and that the edge
\* was classified as legal (EdgeIsSettled).
IInv ==
    /\ TypeOK
    /\ FreshIds
    /\ LockDiscipline
    /\ EdgeIsSettled
    /\ TimelineIsPath
    /\ ClosedWithNote

\* The fields of a call have their types.
LEMMA CallFacts ==
    ASSUME TypeOK, NEW q \in Request
    PROVE  /\ call[q] \in Call
           /\ call[q].kind \in Kind
           /\ call[q].actor \in User
           /\ call[q].incident \in Incident
           /\ call[q].to \in Status
           /\ call[q].note \in {"text", "blank"}
           /\ call[q].target \in User
BY ConstantsAssumption DEF TypeOK, Call

\* Moving on to the next step keeps the types.
LEMMA GotoType ==
    ASSUME TypeOK, NEW q \in Request, NEW step \in PCs, Goto(q, step)
    PROVE  pc' \in [Request -> PCs] /\ answer' \in [Request -> Answers]
BY DEF TypeOK, Goto

\* Answering keeps the types.
LEMMA RespondType ==
    ASSUME TypeOK, NEW q \in Request, NEW code \in Answers, Respond(q, code)
    PROVE  pc' \in [Request -> PCs] /\ answer' \in [Request -> Answers]
BY DEF TypeOK, Respond, PCs

\* What the identity map knows of a recipient stays a user status.
LEMMA KnowType ==
    ASSUME TypeOK, NEW q \in Request, NEW loaded \in SUBSET (User \cup {NoUser}),
           Know(q, loaded),
           call[q].kind = "transition" => submitter[call[q].incident] \in User
    PROVE  known' \in [Request -> UserStatus \cup {"unloaded"}]
<1>1. Recipient(q) \in User
  BY CallFacts DEF Recipient
<1> QED
  BY <1>1 DEF Know, TypeOK

\* The columns read from the timeline keep their types.
LEMMA ReadTimelineType ==
    ASSUME TypeOK, NEW q \in Request, ReadTimeline(q)
    PROVE  /\ seenRows' \in [Request -> Nat]
           /\ known' \in [Request -> UserStatus \cup {"unloaded"}]
           /\ UNCHANGED <<asRole, seenStatus, seenAssignee>>
<1> DEFINE i == call[q].incident
           authors == {timeline[i][k].by : k \in DOMAIN timeline[i]}
<1>1. timeline[i] \in Seq(Row)
  BY CallFacts DEF TypeOK
<1>2. authors \subseteq User
  <2> SUFFICES ASSUME NEW k \in DOMAIN timeline[i]
               PROVE  timeline[i][k].by \in User
    OBVIOUS
  <2>1. timeline[i][k] \in Row
    BY <1>1
  <2> QED
    BY <2>1 DEF Row
<1>3. Len(timeline[i]) \in Nat
  BY <1>1
<1>4. CASE pc[q] = "classify"
  <2>1. Know(q, authors)
    BY <1>4 DEF ReadTimeline
  <2>2. Recipient(q) \in authors => active[Recipient(q)] \in UserStatus
    BY <1>2 DEF TypeOK
  <2>3. known' \in [Request -> UserStatus \cup {"unloaded"}]
    <3> HIDE DEF authors
    <3> QED
      BY <2>1, <2>2 DEF Know, TypeOK
  <2> QED
    BY <1>3, <2>3 DEF ReadTimeline, TypeOK
<1>5. CASE pc[q] # "classify"
  BY <1>3, <1>5 DEF ReadTimeline, TypeOK
<1> QED
  BY <1>4, <1>5

\* The database as it is before the first request satisfies the invariant.
THEOREM InitInv == Init => IInv
<1> SUFFICES ASSUME Init PROVE IInv
  OBVIOUS
<1>1. \A i \in Incident : timeline[i] = <<>> /\ status[i] \in {"unfiled", "open"}
  BY DEF Init
<1>2. TypeOK
  <2>1. (CHOOSE c \in Calls : TRUE) \in Calls
    BY ConstantsAssumption
  <2> QED
    BY <2>1, ConstantsAssumption
    DEF Init, TypeOK, UserStatus, Status, PCs, Answers, Role
<1>3. LockDiscipline /\ EdgeIsSettled /\ FreshIds
  BY DEF Init, LockDiscipline, EdgeIsSettled, Settled, FreshIds
<1>4. TimelineIsPath
  BY <1>1 DEF TimelineIsPath, Path
<1>5. ClosedWithNote
  BY <1>1 DEF ClosedWithNote
<1> QED
  BY <1>2, <1>3, <1>4, <1>5 DEF IInv

\* A transition that is about to commit works on a filed incident.
LEMMA CommitFacts ==
    ASSUME IInv, NEW q \in Request, pc[q] = "commit", call[q].kind = "transition"
    PROVE  /\ seenStatus[q] = status[call[q].incident]
           /\ <<seenStatus[q], call[q].to>> \in Allowed
           /\ seenStatus[q] \in {"open", "in_review"}
           /\ submitter[call[q].incident] \in User
           /\ RowOf(q) \in Row
<1>1. /\ seenStatus[q] = status[call[q].incident]
      /\ <<seenStatus[q], call[q].to>> \in Allowed
  BY DEF IInv, EdgeIsSettled, Settled
<1>2. seenStatus[q] \in {"open", "in_review"}
  BY <1>1 DEF Allowed
<1>3. submitter[call[q].incident] \in User
  BY <1>1, <1>2, CallFacts DEF IInv, TypeOK
<1>4. RowOf(q) \in Row
  BY <1>2, CallFacts DEF IInv, TypeOK, RowOf, Row, Status
<1> QED
  BY <1>1, <1>2, <1>3, <1>4

\* The notification a hook stages, if any, is one.
LEMMA DeliverType ==
    ASSUME TypeOK, NEW q \in Request, Deliver(q), Recipient(q) \in User,
           call[q].kind \in {"transition", "reassign"}
    PROVE  notifications' \subseteq Notification
<1> DEFINE n == [incident |-> call[q].incident, recipient |-> Recipient(q),
                 by |-> call[q].actor, why |-> call[q].kind, at |-> started[q]]
<1>1. n \in Notification
  BY CallFacts DEF TypeOK, Notification
<1>2. notifications' = notifications \/ notifications' = notifications \cup {n}
  BY DEF Deliver
<1> QED
  <2> HIDE DEF n
  <2> QED
    BY <1>1, <1>2 DEF TypeOK

\* A line the handlers log is a line of the audit log.
LEMMA LinesType ==
    ASSUME TypeOK, NEW q \in Request, call[q].kind \in {"transition", "reassign"}
    PROVE  Lines(q) \subseteq Line
BY CallFacts DEF Lines, TypeOK, Line

\* Ending a transaction keeps the lock table a lock table.
LEMMA ReleasedType ==
    ASSUME TypeOK, NEW q \in Request
    PROVE  Released(q) \in [Incident -> Request \cup {NoRequest}]
BY DEF Released, TypeOK

\* Type correctness, one step per action.
LEMMA TypeStep ==
    ASSUME IInv, [Next]_vars
    PROVE  TypeOK'
<1> USE DEF users, rows, local, seen
<1>0. TypeOK /\ EdgeIsSettled
  BY DEF IInv
<1>1. ASSUME NEW q \in Request, RefuseCategory(q)
      PROVE  TypeOK'
  BY <1>0, <1>1, RespondType DEF RefuseCategory, TypeOK, Answers
<1>2. ASSUME NEW q \in Request, File(q)
      PROVE  TypeOK'
  <2>1. pc' \in [Request -> PCs] /\ answer' \in [Request -> Answers]
    BY <1>0, <1>2, GotoType DEF File, PCs
  <2>2. call[q].incident \in Incident /\ call[q].actor \in User
    BY <1>0, CallFacts
  <2> QED
    BY <1>0, <1>2, <2>1, <2>2, ConstantsAssumption DEF File, TypeOK, Status
<1>3. ASSUME NEW q \in Request, ReadIncident(q)
      PROVE  TypeOK'
  <2> DEFINE i == call[q].incident
  <2>1. i \in Incident
    BY <1>0, CallFacts
  <2>2. CASE status[i] # "unfiled" /\ (call[q].kind = "create" \/ Visible(q, i))
    <3>1. submitter[i] \in User
      BY <1>0, <2>1, <2>2 DEF TypeOK
    <3>2. known' \in [Request -> UserStatus \cup {"unloaded"}]
      <4>1. {submitter[i], assignee[i]} \in SUBSET (User \cup {NoUser})
        BY <1>0, <2>1 DEF TypeOK
      <4>2. Know(q, {submitter[i], assignee[i]}) \/ UNCHANGED known
        BY <1>3, <2>2 DEF ReadIncident
      <4> QED
        BY <1>0, <3>1, <4>1, <4>2, KnowType DEF TypeOK
    <3>3. AfterLoad(pc[q]) \in PCs
      BY <1>3 DEF ReadIncident, AfterLoad, PCs
    <3>4. pc' \in [Request -> PCs] /\ answer' \in [Request -> Answers]
      BY <1>0, <1>3, <2>2, <3>3, GotoType DEF ReadIncident
    <3> QED
      BY <1>0, <1>3, <2>1, <2>2, <3>2, <3>4 DEF ReadIncident, TypeOK
  <2>3. CASE ~(status[i] # "unfiled" /\ (call[q].kind = "create" \/ Visible(q, i)))
    BY <1>0, <1>3, <2>3, RespondType DEF ReadIncident, TypeOK, Answers
  <2> QED
    BY <2>2, <2>3
<1>4. ASSUME NEW q \in Request, Replay(q)
      PROVE  TypeOK'
  BY <1>0, <1>4, RespondType, ReadTimelineType DEF Replay, TypeOK, Answers
<1>5. ASSUME NEW q \in Request, Classify(q)
      PROVE  TypeOK'
  <2>1. pc' \in [Request -> PCs] /\ answer' \in [Request -> Answers]
    BY <1>0, <1>5, RespondType, GotoType DEF Classify, PCs, Answers
  <2> QED
    BY <1>0, <1>5, <2>1, ReadTimelineType DEF Classify, TypeOK
<1>6. ASSUME NEW q \in Request, ClassifyReassign(q)
      PROVE  TypeOK'
  <2>1. pc' \in [Request -> PCs] /\ answer' \in [Request -> Answers]
    BY <1>0, <1>6, RespondType, GotoType DEF ClassifyReassign, PCs, Answers
  <2> QED
    BY <1>0, <1>6, <2>1, ReadTimelineType DEF ClassifyReassign, TypeOK
<1>7. ASSUME NEW q \in Request, WinUpdate(q)
      PROVE  TypeOK'
  BY <1>0, <1>7, GotoType DEF WinUpdate, TypeOK, PCs
<1>8. ASSUME NEW q \in Request, LoseUpdate(q)
      PROVE  TypeOK'
  BY <1>0, <1>8, GotoType DEF LoseUpdate, TypeOK, PCs
<1>9. ASSUME NEW q \in Request, Reclassify(q)
      PROVE  TypeOK'
  BY <1>0, <1>9, RespondType, ReadTimelineType DEF Reclassify, TypeOK, Answers
<1>10. ASSUME NEW q \in Request, CommitTransition(q)
       PROVE  TypeOK'
  <2> DEFINE i == call[q].incident
  <2>1. i \in Incident /\ call[q].actor \in User /\ call[q].to \in Status
    BY <1>0, CallFacts
  <2>2. submitter[i] \in User /\ RowOf(q) \in Row
    BY <1>10, CommitFacts DEF CommitTransition
  <2>3. notifications' \subseteq Notification
    BY <1>0, <1>10, <2>2, DeliverType DEF CommitTransition, Recipient
  <2>4. lock' \in [Incident -> Request \cup {NoRequest}]
    BY <1>0, <1>10, ReleasedType DEF CommitTransition
  <2>5. pc' \in [Request -> PCs] /\ answer' \in [Request -> Answers]
    BY <1>0, <1>10, GotoType DEF CommitTransition, PCs
  <2>6. timeline' \in [Incident -> Seq(Row)]
    <3>1. Append(timeline[i], RowOf(q)) \in Seq(Row)
      BY <1>0, <2>1, <2>2 DEF TypeOK
    <3> QED
      BY <1>0, <1>10, <2>1, <3>1 DEF CommitTransition, TypeOK
  <2>7. /\ status' \in [Incident -> Status \cup {"unfiled"}]
        /\ assignee' \in [Incident -> User \cup {NoUser}]
        /\ \A j \in Incident : status'[j] # "unfiled" => submitter'[j] # NoUser
    BY <1>0, <1>10, <2>1, <2>2, ConstantsAssumption DEF CommitTransition, TypeOK
  <2> QED
    BY <1>0, <1>10, <2>3, <2>4, <2>5, <2>6, <2>7 DEF CommitTransition, TypeOK
<1>11. ASSUME NEW q \in Request, CheckTarget(q)
       PROVE  TypeOK'
  <2>1. pc' \in [Request -> PCs] /\ answer' \in [Request -> Answers]
    BY <1>0, <1>11, RespondType, GotoType DEF CheckTarget, PCs, Answers
  <2>2. known' \in [Request -> UserStatus \cup {"unloaded"}]
    <3>1. call[q].kind = "reassign"
      BY <1>0, <1>11 DEF CheckTarget, EdgeIsSettled, Settled
    <3>2. {call[q].target} \in SUBSET (User \cup {NoUser})
      BY <1>0, CallFacts
    <3> QED
      BY <1>0, <1>11, <3>1, <3>2, KnowType DEF CheckTarget, TypeOK
  <2> QED
    BY <1>0, <1>11, <2>1, <2>2 DEF CheckTarget, TypeOK
<1>12. ASSUME NEW q \in Request, Flush(q)
       PROVE  TypeOK'
  BY <1>0, <1>12, GotoType DEF Flush, TypeOK, PCs
<1>13. ASSUME NEW q \in Request, CommitReassign(q)
       PROVE  TypeOK'
  <2>1. call[q].incident \in Incident /\ call[q].target \in User
    BY <1>0, CallFacts
  <2>2. notifications' \subseteq Notification
    BY <1>0, <1>13, <2>1, DeliverType DEF CommitReassign, Recipient
  <2>3. lock' \in [Incident -> Request \cup {NoRequest}]
    BY <1>0, <1>13, ReleasedType DEF CommitReassign
  <2>4. pc' \in [Request -> PCs] /\ answer' \in [Request -> Answers]
    BY <1>0, <1>13, GotoType DEF CommitReassign, PCs
  <2> QED
    BY <1>0, <1>13, <2>1, <2>2, <2>3, <2>4 DEF CommitReassign, TypeOK
<1>14. ASSUME NEW q \in Request, Log(q)
       PROVE  TypeOK'
  <2>1. Lines(q) \subseteq Line
    BY <1>0, <1>14, LinesType DEF Log, EdgeIsSettled, Settled
  <2> QED
    BY <1>0, <1>14, <2>1, GotoType DEF Log, TypeOK, PCs
<1>15. ASSUME NEW q \in Request, Finish(q)
       PROVE  TypeOK'
  BY <1>0, <1>15, RespondType, ReadTimelineType DEF Finish, TypeOK, Answers
<1>16. ASSUME NEW q \in Request, Fail(q)
       PROVE  TypeOK'
  BY <1>0, <1>16, RespondType, ReleasedType DEF Fail, TypeOK, Answers
<1>17. ASSUME NEW q \in Request, NEW c \in Calls, Accept(q, c)
       PROVE  TypeOK'
  <2>1. c \in Call /\ c.kind \in Kind /\ c.actor \in User
    BY ConstantsAssumption DEF Call
  <2>2. FirstStep(c.kind) \in PCs
    BY DEF FirstStep, PCs
  <2>3. pc' \in [Request -> PCs] /\ answer' \in [Request -> Answers]
    BY <1>0, <1>17, <2>2, RespondType, GotoType DEF Accept, Answers
  <2>4. role[c.actor] \in Role
    BY <1>0, <2>1 DEF TypeOK
  <2>5. call' \in [Request -> Calls] /\ asRole' \in [Request -> Role]
    BY <1>0, <1>17, <2>4 DEF Accept, TypeOK
  <2>6. clock' \in Nat /\ started' \in [Request -> Nat]
    <3>1. clock \in Nat /\ clock + 1 \in Nat
      BY <1>0 DEF TypeOK
    <3> QED
      BY <1>0, <1>17, <3>1 DEF Accept, TypeOK
  <2> QED
    BY <1>0, <1>17, <2>3, <2>5, <2>6 DEF Accept, TypeOK
<1>18. ASSUME NEW u \in User, ChangeRole(u)
       PROVE  TypeOK'
  BY <1>0, <1>18, ConstantsAssumption DEF ChangeRole, TypeOK
<1>19. ASSUME NEW u \in User, ChangeStatus(u)
       PROVE  TypeOK'
  BY <1>0, <1>19, ConstantsAssumption DEF ChangeStatus, TypeOK, UserStatus
<1>20. CASE UNCHANGED vars
  BY <1>0, <1>20 DEF TypeOK, vars
<1> QED
  BY <1>1, <1>2, <1>3, <1>4, <1>5, <1>6, <1>7, <1>8, <1>9, <1>10, <1>11, <1>12,
     <1>13, <1>14, <1>15, <1>16, <1>17, <1>18, <1>19, <1>20
  DEF Next, Handle, Terminating

\* One request moves, the others stand still.
Alone(q) ==
    \A p \in Request \ {q} :
        /\ pc'[p] = pc[p]
        /\ call'[p] = call[p]
        /\ seenStatus'[p] = seenStatus[p]

\* A step of a handler moves one request only.
LEMMA StepIsAlone ==
    ASSUME TypeOK, NEW q \in Request,
           Handle(q) \/ Fail(q) \/ \E c \in Calls : Accept(q, c)
    PROVE  Alone(q)
<1> USE DEF users, rows, local, seen, Goto, Respond, Alone, TypeOK
<1>1. CASE RefuseCategory(q) \/ File(q)
  BY <1>1 DEF RefuseCategory, File
<1>2. CASE ReadIncident(q)
  BY <1>2 DEF ReadIncident
<1>3. CASE Replay(q) \/ Classify(q) \/ ClassifyReassign(q)
  BY <1>3 DEF Replay, Classify, ClassifyReassign, ReadTimeline
<1>4. CASE WinUpdate(q) \/ LoseUpdate(q) \/ Reclassify(q) \/ CommitTransition(q)
  BY <1>4 DEF WinUpdate, LoseUpdate, Reclassify, CommitTransition, ReadTimeline
<1>5. CASE CheckTarget(q) \/ Flush(q) \/ CommitReassign(q)
  BY <1>5 DEF CheckTarget, Flush, CommitReassign
<1>6. CASE Log(q) \/ Finish(q)
  BY <1>6 DEF Log, Finish, ReadTimeline
<1>7. CASE Fail(q)
  BY <1>7 DEF Fail
<1>8. CASE \E c \in Calls : Accept(q, c)
  BY <1>8 DEF Accept
<1> QED
  BY <1>1, <1>2, <1>3, <1>4, <1>5, <1>6, <1>7, <1>8 DEF Handle

\* The row lock passes through three kinds of step: one that takes it, one that
\* ends the transaction that holds it, and one that leaves it alone.
LEMMA LockStep ==
    ASSUME IInv, [Next]_vars, TypeOK'
    PROVE  LockDiscipline'
<1>0. TypeOK /\ LockDiscipline
  BY DEF IInv
<1> USE DEF users, rows, local, seen
<1>1. ASSUME NEW q \in Request, WinUpdate(q) \/ Flush(q)
      PROVE  LockDiscipline'
  <2>1. Alone(q)
    BY <1>0, <1>1, StepIsAlone DEF Handle
  <2>2. /\ lock[call[q].incident] = NoRequest
        /\ lock' = [lock EXCEPT ![call[q].incident] = q]
        /\ pc' = [pc EXCEPT ![q] = "commit"]
        /\ pc'[q] = "commit" /\ pc[q] # "commit"
        /\ UNCHANGED call
    BY <1>0, <1>1 DEF WinUpdate, Flush, Goto, TypeOK
  <2>3. call[q].incident \in Incident
    BY <1>0, CallFacts
  <2>4. \A i \in Incident : lock'[i] # NoRequest =>
            pc'[lock'[i]] = "commit" /\ call'[lock'[i]].incident = i
    <3>1. \A i \in Incident : lock'[i] = IF i = call[q].incident THEN q ELSE lock[i]
      BY <1>0, <2>2 DEF TypeOK
    <3>2. \A i \in Incident : lock[i] \in Request \cup {NoRequest}
      BY <1>0 DEF TypeOK
    <3> QED
      BY <1>0, <2>1, <2>2, <3>1, <3>2 DEF LockDiscipline, Alone
  <2>5. \A p \in Request : pc'[p] = "commit" => lock'[call'[p].incident] = p
    <3> SUFFICES ASSUME NEW p \in Request, pc'[p] = "commit", p # q
                 PROVE  lock'[call'[p].incident] = p
      BY <1>0, <2>2, <2>3 DEF TypeOK
    <3>1. call[p].incident \in Incident /\ p # NoRequest
      BY <1>0, CallFacts, ConstantsAssumption
    <3>2. lock[call[p].incident] = p
      BY <1>0, <2>1 DEF LockDiscipline, Alone
    <3> QED
      BY <1>0, <2>2, <3>1, <3>2 DEF TypeOK
  <2> QED
    BY <2>4, <2>5 DEF LockDiscipline
<1>2. ASSUME NEW q \in Request, CommitTransition(q) \/ CommitReassign(q) \/ Fail(q)
      PROVE  LockDiscipline'
  <2>1. Alone(q)
    BY <1>0, <1>2, StepIsAlone DEF Handle
  <2>2. lock' = Released(q) /\ pc'[q] # "commit" /\ UNCHANGED call
    BY <1>0, <1>2 DEF CommitTransition, CommitReassign, Fail, Goto, Respond, TypeOK
  <2>3. \A i \in Incident : lock'[i] = IF lock[i] = q THEN NoRequest ELSE lock[i]
    BY <2>2 DEF Released
  <2>4. ASSUME NEW i \in Incident, lock'[i] # NoRequest
        PROVE  pc'[lock'[i]] = "commit" /\ call'[lock'[i]].incident = i
    <3>1. lock'[i] = lock[i] /\ lock[i] \in Request \ {q}
      BY <1>0, <2>3, <2>4 DEF TypeOK
    <3> QED
      BY <1>0, <2>1, <2>4, <3>1 DEF LockDiscipline, Alone
  <2>5. ASSUME NEW p \in Request, pc'[p] = "commit"
        PROVE  lock'[call'[p].incident] = p
    <3>1. p # q /\ pc[p] = "commit" /\ call'[p] = call[p]
      BY <2>1, <2>2, <2>5 DEF Alone
    <3>2. call[p].incident \in Incident
      BY <1>0, <3>1, CallFacts
    <3> QED
      BY <1>0, <2>3, <3>1, <3>2 DEF LockDiscipline
  <2> QED
    BY <2>4, <2>5 DEF LockDiscipline
<1>3. ASSUME NEW q \in Request,
             \/ RefuseCategory(q) \/ File(q) \/ ReadIncident(q)
             \/ Replay(q) \/ Classify(q) \/ ClassifyReassign(q)
             \/ LoseUpdate(q) \/ Reclassify(q) \/ CheckTarget(q) \/ Log(q) \/ Finish(q)
             \/ \E c \in Calls : Accept(q, c)
      PROVE  LockDiscipline'
  <2>1. Alone(q)
    BY <1>0, <1>3, StepIsAlone DEF Handle
  <2>2. UNCHANGED lock /\ pc[q] # "commit" /\ pc'[q] # "commit"
    BY <1>0, <1>3
    DEF RefuseCategory, File, ReadIncident, AfterLoad, Replay, Classify, ClassifyReassign,
        LoseUpdate, Reclassify, CheckTarget, Log, Finish, Accept, FirstStep, Goto, Respond,
        TypeOK
  <2>3. \A i \in Incident : lock[i] \in Request \cup {NoRequest}
    BY <1>0 DEF TypeOK
  <2> QED
    BY <1>0, <2>1, <2>2, <2>3 DEF LockDiscipline, Alone
<1>4. ASSUME NEW u \in User, ChangeRole(u) \/ ChangeStatus(u)
      PROVE  LockDiscipline'
  BY <1>0, <1>4 DEF ChangeRole, ChangeStatus, LockDiscipline
<1>5. CASE UNCHANGED vars
  BY <1>0, <1>5 DEF vars, LockDiscipline
<1> QED
  BY <1>1, <1>2, <1>3, <1>4, <1>5 DEF Next, Handle, Terminating

\* A step leaves the status of the incidents other requests are about to move.
LEMMA OthersKeepStatus ==
    ASSUME IInv, NEW q \in Request, NEW p \in Request \ {q},
           Handle(q) \/ Fail(q) \/ \E c \in Calls : Accept(q, c),
           pc[p] = "commit", call[p].kind = "transition"
    PROVE  status'[call[p].incident] = status[call[p].incident]
<1> USE DEF users, rows, local
<1>0. TypeOK /\ call[p].incident \in Incident /\ call[q].incident \in Incident
  BY CallFacts DEF IInv
<1>1. CASE CommitTransition(q)
  <2>1. lock[call[p].incident] = p /\ lock[call[q].incident] = q
    BY <1>1 DEF IInv, LockDiscipline, CommitTransition
  <2> QED
    BY <1>0, <1>1, <2>1 DEF CommitTransition, TypeOK
<1>2. CASE File(q)
  <2>1. status[call[p].incident] # "unfiled"
    BY CommitFacts
  <2>2. status[call[q].incident] = "unfiled"
    BY <1>2 DEF IInv, FreshIds, File
  <2> QED
    BY <1>0, <1>2, <2>1, <2>2 DEF File, TypeOK
<1>3. CASE ~CommitTransition(q) /\ ~File(q)
  <2>1. UNCHANGED status
    BY <1>3
    DEF Handle, RefuseCategory, ReadIncident, Replay, Classify, ClassifyReassign, WinUpdate,
        LoseUpdate, Reclassify, CheckTarget, Flush, CommitReassign, Log, Finish, Fail, Accept
  <2> QED
    BY <2>1
<1> QED
  BY <1>1, <1>2, <1>3

\* What the handler of a request establishes for the request itself.
LEMMA OwnStepSettles ==
    ASSUME IInv, TypeOK', NEW q \in Request,
           Handle(q) \/ Fail(q) \/ \E c \in Calls : Accept(q, c)
    PROVE  Settled(q)'
<1> USE DEF users, rows, local, seen, Goto, Respond, Settled
<1>0. TypeOK /\ Settled(q)
  BY DEF IInv, EdgeIsSettled
<1>1. pc \in [Request -> PCs] /\ call \in [Request -> Calls]
  BY <1>0 DEF TypeOK
<1>2. CASE RefuseCategory(q) \/ File(q) \/ Log(q) \/ Finish(q) \/ Fail(q)
  BY <1>0, <1>1, <1>2 DEF RefuseCategory, File, Log, Finish, Fail
<1>3. CASE ReadIncident(q)
  BY <1>0, <1>1, <1>3 DEF ReadIncident, AfterLoad
<1>4. CASE Replay(q) \/ Reclassify(q)
  BY <1>0, <1>1, <1>4 DEF Replay, Reclassify
<1>5. CASE Classify(q)
  BY <1>0, <1>1, <1>5 DEF Classify, ReadTimeline, LacksNote
<1>6. CASE ClassifyReassign(q)
  BY <1>0, <1>1, <1>6 DEF ClassifyReassign
<1>7. CASE WinUpdate(q)
  BY <1>0, <1>1, <1>7 DEF WinUpdate, GuardHolds, LacksNote
<1>8. CASE LoseUpdate(q)
  BY <1>0, <1>1, <1>8 DEF LoseUpdate
<1>9. CASE CommitTransition(q) \/ CommitReassign(q)
  BY <1>0, <1>1, <1>9 DEF CommitTransition, CommitReassign
<1>10. CASE CheckTarget(q) \/ Flush(q)
  BY <1>0, <1>1, <1>10 DEF CheckTarget, Flush
<1>11. CASE \E c \in Calls : Accept(q, c)
  BY <1>0, <1>1, <1>11 DEF Accept, FirstStep
<1> QED
  BY <1>2, <1>3, <1>4, <1>5, <1>6, <1>7, <1>8, <1>9, <1>10, <1>11 DEF Handle

\* No step of anyone unsettles what a request has classified.
LEMMA SettledStep ==
    ASSUME IInv, [Next]_vars, TypeOK'
    PROVE  EdgeIsSettled'
<1>1. ASSUME NEW q \in Request, Handle(q) \/ Fail(q) \/ \E c \in Calls : Accept(q, c)
      PROVE  EdgeIsSettled'
  <2>1. Settled(q)'
    BY <1>1, OwnStepSettles
  <2>2. Alone(q)
    BY <1>1, StepIsAlone DEF IInv
  <2>3. ASSUME NEW p \in Request \ {q}
        PROVE  Settled(p)'
    <3>1. Settled(p)
      BY DEF IInv, EdgeIsSettled
    <3>2. pc[p] = "commit" /\ call[p].kind = "transition" =>
            status'[call[p].incident] = status[call[p].incident]
      BY <1>1, OthersKeepStatus
    <3> QED
      BY <2>2, <3>1, <3>2 DEF Alone, Settled, LacksNote
  <2> QED
    BY <2>1, <2>3 DEF EdgeIsSettled
<1>2. ASSUME NEW u \in User, ChangeRole(u) \/ ChangeStatus(u)
      PROVE  EdgeIsSettled'
  BY <1>2 DEF IInv, EdgeIsSettled, Settled, LacksNote, ChangeRole, ChangeStatus, rows, local, seen
<1>3. CASE UNCHANGED vars
  BY <1>3 DEF IInv, EdgeIsSettled, Settled, LacksNote, vars, rows, local, seen
<1> QED
  BY <1>1, <1>2, <1>3 DEF Next, Terminating

\* Identifiers stay fresh: an accepted filing is told apart from every other.
LEMMA FreshStep ==
    ASSUME IInv, [Next]_vars, TypeOK'
    PROVE  FreshIds'
<1> USE DEF users, rows, local, seen
<1>0. TypeOK /\ FreshIds
  BY DEF IInv
<1>1. ASSUME NEW q \in Request, NEW c \in Calls, Accept(q, c)
      PROVE  FreshIds'
  <2>1. Alone(q)
    BY <1>0, <1>1, StepIsAlone
  <2>2. call'[q] = c /\ UNCHANGED status
    BY <1>0, <1>1 DEF Accept, TypeOK
  <2>3. pc'[q] = "category" => c.kind = "create" /\ Fresh(c.incident)
    BY <1>0, <1>1, ConstantsAssumption
    DEF Accept, FirstStep, Goto, Respond, TypeOK, Call, Kind
  <2>4. ASSUME NEW p \in Request, pc'[p] = "category"
        PROVE  /\ call'[p].kind = "create"
               /\ status'[call'[p].incident] = "unfiled"
    BY <1>0, <2>1, <2>2, <2>3, <2>4 DEF FreshIds, Alone, Fresh
  <2>5. ASSUME NEW p \in Request, NEW r \in Request \ {p}, pc'[p] = "category", pc'[r] = "category"
        PROVE  call'[p].incident # call'[r].incident
    BY <1>0, <2>1, <2>2, <2>3, <2>5 DEF FreshIds, Alone, Fresh
  <2> QED
    BY <2>4, <2>5 DEF FreshIds
<1>2. ASSUME NEW q \in Request, Handle(q) \/ Fail(q)
      PROVE  FreshIds'
  <2>1. Alone(q)
    BY <1>0, <1>2, StepIsAlone
  <2>2. pc'[q] # "category" /\ UNCHANGED call
    BY <1>0, <1>2
    DEF Handle, RefuseCategory, File, ReadIncident, AfterLoad, Replay, Classify,
        ClassifyReassign, WinUpdate, LoseUpdate, Reclassify, CommitTransition, CheckTarget,
        Flush, CommitReassign, Log, Finish, Fail, Goto, Respond, TypeOK
  <2>3. ASSUME NEW p \in Request \ {q}, pc[p] = "category"
        PROVE  status'[call[p].incident] = "unfiled"
    <3>0. /\ status[call[p].incident] = "unfiled"
          /\ call[p].incident \in Incident /\ call[q].incident \in Incident
      BY <1>0, <2>3, CallFacts DEF FreshIds
    <3>1. CASE File(q)
      <4>1. call[p].incident # call[q].incident
        BY <1>0, <2>3, <3>1 DEF FreshIds, File
      <4> QED
        BY <1>0, <3>0, <3>1, <4>1 DEF File, TypeOK
    <3>2. CASE CommitTransition(q)
      <4>1. status[call[q].incident] # "unfiled"
        BY <3>2, CommitFacts DEF CommitTransition
      <4> QED
        BY <1>0, <3>0, <3>2, <4>1 DEF CommitTransition, TypeOK
    <3>3. CASE ~File(q) /\ ~CommitTransition(q)
      BY <1>2, <3>0, <3>3
      DEF Handle, RefuseCategory, ReadIncident, Replay, Classify, ClassifyReassign, WinUpdate,
          LoseUpdate, Reclassify, CheckTarget, Flush, CommitReassign, Log, Finish, Fail
    <3> QED
      BY <3>1, <3>2, <3>3
  <2> QED
    BY <1>0, <2>1, <2>2, <2>3 DEF FreshIds, Alone
<1>3. ASSUME NEW u \in User, ChangeRole(u) \/ ChangeStatus(u)
      PROVE  FreshIds'
  BY <1>0, <1>3 DEF FreshIds, ChangeRole, ChangeStatus
<1>4. CASE UNCHANGED vars
  BY <1>0, <1>4 DEF FreshIds, vars
<1> QED
  BY <1>1, <1>2, <1>3, <1>4 DEF Next, Terminating

\* A row that continues the timeline of an incident.
Continues(i, r) ==
    /\ r \in Row
    /\ <<r.from, r.to>> \in Allowed
    /\ r.from = status[i]
    /\ r.to = "closed" => r.note = "text"

\* Only File and CommitTransition touch a status or a timeline, each of one
\* incident.
LEMMA RowsChange ==
    ASSUME IInv, [Next]_vars
    PROVE  \/ UNCHANGED <<status, timeline>>
           \/ \E i \in Incident :
                /\ status[i] = "unfiled"
                /\ status' = [status EXCEPT ![i] = "open"]
                /\ UNCHANGED timeline
           \/ \E i \in Incident, r \in Row :
                /\ Continues(i, r)
                /\ status' = [status EXCEPT ![i] = r.to]
                /\ timeline' = [timeline EXCEPT ![i] = Append(timeline[i], r)]
<1> USE DEF users, rows
<1>0. TypeOK
  BY DEF IInv
<1>1. ASSUME NEW q \in Request, File(q)
      PROVE  \E i \in Incident :
                /\ status[i] = "unfiled"
                /\ status' = [status EXCEPT ![i] = "open"]
                /\ UNCHANGED timeline
  <2>1. call[q].incident \in Incident
    BY <1>0, CallFacts
  <2>2. status[call[q].incident] = "unfiled"
    BY <1>1 DEF IInv, FreshIds, File
  <2> QED
    BY <1>1, <2>1, <2>2 DEF File
<1>2. ASSUME NEW q \in Request, CommitTransition(q)
      PROVE  \E i \in Incident, r \in Row :
                /\ Continues(i, r)
                /\ status' = [status EXCEPT ![i] = r.to]
                /\ timeline' = [timeline EXCEPT ![i] = Append(timeline[i], r)]
  <2> DEFINE i == call[q].incident
             r == RowOf(q)
  <2>1. /\ i \in Incident
        /\ seenStatus[q] = status[i]
        /\ <<seenStatus[q], call[q].to>> \in Allowed
        /\ r \in Row
    BY <1>0, <1>2, CommitFacts, CallFacts DEF CommitTransition
  <2>2. ~LacksNote(q) /\ call[q].note \in {"text", "blank"}
    BY <1>0, <1>2, CallFacts DEF CommitTransition, IInv, EdgeIsSettled, Settled
  <2>3. Continues(i, r) /\ r.to = call[q].to
    BY <2>1, <2>2 DEF RowOf, LacksNote, Continues
  <2>4. /\ status' = [status EXCEPT ![i] = r.to]
        /\ timeline' = [timeline EXCEPT ![i] = Append(timeline[i], r)]
    BY <1>2, <2>3 DEF CommitTransition
  <2> QED
    BY <2>1, <2>3, <2>4
<1>3. ASSUME NEW q \in Request, Handle(q) \/ Fail(q) \/ \E c \in Calls : Accept(q, c),
             ~File(q), ~CommitTransition(q)
      PROVE  UNCHANGED <<status, timeline>>
  BY <1>3
  DEF Handle, RefuseCategory, ReadIncident, Replay, Classify, ClassifyReassign, WinUpdate,
      LoseUpdate, Reclassify, CheckTarget, Flush, CommitReassign, Log, Finish, Fail, Accept
<1>4. ASSUME NEW u \in User, ChangeRole(u) \/ ChangeStatus(u)
      PROVE  UNCHANGED <<status, timeline>>
  BY <1>4 DEF ChangeRole, ChangeStatus
<1>5. CASE UNCHANGED vars
  BY <1>5 DEF vars
<1> QED
  BY <1>1, <1>2, <1>3, <1>4, <1>5 DEF Next, Terminating

\* The same, seen from one incident.
LEMMA RowsStep ==
    ASSUME IInv, [Next]_vars, NEW i \in Incident
    PROVE  \/ status'[i] = status[i] /\ timeline'[i] = timeline[i]
           \/ status[i] = "unfiled" /\ status'[i] = "open" /\ timeline'[i] = timeline[i]
           \/ \E r \in Row :
                /\ <<status[i], status'[i]>> \in Allowed
                /\ r.from = status[i] /\ r.to = status'[i]
                /\ r.to = "closed" => r.note = "text"
                /\ timeline'[i] = Append(timeline[i], r)
<1>1. status \in [Incident -> Status \cup {"unfiled"}] /\ timeline \in [Incident -> Seq(Row)]
  BY DEF IInv, TypeOK
<1> QED
  BY <1>1, RowsChange DEF Continues

\* Appending to a sequence keeps what it had.
LEMMA AppendFacts ==
    ASSUME NEW S, NEW s \in Seq(S), NEW e \in S
    PROVE  /\ Append(s, e) \in Seq(S)
           /\ Len(s) \in Nat
           /\ Len(Append(s, e)) = Len(s) + 1
           /\ DOMAIN s = 1..Len(s)
           /\ DOMAIN Append(s, e) = 1..(Len(s) + 1)
           /\ \A k \in 1..Len(s) : Append(s, e)[k] = s[k]
           /\ Append(s, e)[Len(s) + 1] = e
OBVIOUS

\* A second row.
LEMMA AppendToOne ==
    ASSUME NEW S, NEW s \in Seq(S), NEW e \in S
    PROVE  Len(s) = 1 => /\ DOMAIN Append(s, e) = 1..2 /\ Len(Append(s, e)) = 2
                         /\ Append(s, e)[1] = s[1] /\ Append(s, e)[2] = e
<1> DEFINE a == Append(s, e)
           n == Len(s)
<1>1. Len(a) = n + 1 /\ DOMAIN a = 1..(n + 1)
  BY AppendFacts
<1>2. \A k \in 1..n : a[k] = s[k]
  BY AppendFacts
<1>3. a[n + 1] = e
  BY AppendFacts
<1> HIDE DEF a, n
<1>4. n = 1 => DOMAIN a = 1..2 /\ Len(a) = 2 /\ a[1] = s[1] /\ a[2] = e
  BY <1>1, <1>2, <1>3
<1> QED
  BY <1>4 DEF a, n

\* The timeline stays the path to the status.
LEMMA PathStep ==
    ASSUME IInv, [Next]_vars
    PROVE  TimelineIsPath'
<1> SUFFICES ASSUME NEW i \in Incident
             PROVE  /\ Len(timeline'[i]) = Len(Path(status'[i])) - 1
                    /\ \A k \in DOMAIN timeline'[i] :
                        /\ timeline'[i][k].from = Path(status'[i])[k]
                        /\ timeline'[i][k].to = Path(status'[i])[k + 1]
  BY DEF TimelineIsPath, Path
<1>1. /\ timeline[i] \in Seq(Row)
      /\ Len(timeline[i]) = Len(Path(status[i])) - 1
      /\ \A k \in DOMAIN timeline[i] :
            /\ timeline[i][k].from = Path(status[i])[k]
            /\ timeline[i][k].to = Path(status[i])[k + 1]
  BY DEF IInv, TypeOK, TimelineIsPath
<1>2. CASE status'[i] = status[i] /\ timeline'[i] = timeline[i]
  BY <1>1, <1>2
<1>3. CASE status[i] = "unfiled" /\ status'[i] = "open" /\ timeline'[i] = timeline[i]
  BY <1>1, <1>3 DEF Path
<1>4. ASSUME NEW r \in Row,
             <<status[i], status'[i]>> \in Allowed,
             r.from = status[i], r.to = status'[i],
             timeline'[i] = Append(timeline[i], r)
      PROVE  /\ Len(timeline'[i]) = Len(Path(status'[i])) - 1
             /\ \A k \in DOMAIN timeline'[i] :
                 /\ timeline'[i][k].from = Path(status'[i])[k]
                 /\ timeline'[i][k].to = Path(status'[i])[k + 1]
  <2>1. CASE status[i] = "open" /\ status'[i] = "in_review"
    <3>1. Len(timeline[i]) = 0
      BY <1>1, <2>1 DEF Path
    <3> QED
      BY <1>1, <1>4, <2>1, <3>1, AppendFacts DEF Path
  <2>2. CASE status[i] = "in_review" /\ status'[i] = "closed"
    <3>1. Len(timeline[i]) = 1 /\ timeline[i][1].from = "open" /\ timeline[i][1].to = "in_review"
      BY <1>1, <2>2, AppendFacts DEF Path
    <3>2. /\ DOMAIN timeline'[i] = 1..2 /\ Len(timeline'[i]) = 2
          /\ timeline'[i][1] = timeline[i][1] /\ timeline'[i][2] = r
      BY <1>1, <1>4, <3>1, AppendToOne
    <3> QED
      BY <1>4, <2>2, <3>1, <3>2 DEF Path
  <2> QED
    BY <1>4, <2>1, <2>2 DEF Allowed
<1> QED
  BY <1>2, <1>3, <1>4, RowsStep

\* No step adds a closing row without a note.
LEMMA NoteStep ==
    ASSUME IInv, [Next]_vars
    PROVE  ClosedWithNote'
<1> SUFFICES ASSUME NEW i \in Incident, NEW k \in DOMAIN timeline'[i],
                    timeline'[i][k].to = "closed"
             PROVE  timeline'[i][k].note = "text"
  BY DEF ClosedWithNote
<1>1. /\ timeline[i] \in Seq(Row)
      /\ \A j \in DOMAIN timeline[i] : timeline[i][j].to = "closed" => timeline[i][j].note = "text"
  BY DEF IInv, TypeOK, ClosedWithNote
<1>2. CASE timeline'[i] = timeline[i]
  BY <1>1, <1>2
<1>3. ASSUME NEW r \in Row, r.to = "closed" => r.note = "text",
             timeline'[i] = Append(timeline[i], r)
      PROVE  timeline'[i][k].note = "text"
  <2>1. CASE k = Len(timeline[i]) + 1
    BY <1>1, <1>3, <2>1, AppendFacts
  <2>2. CASE k \in 1..Len(timeline[i])
    BY <1>1, <1>3, <2>2, AppendFacts
  <2> QED
    BY <1>1, <1>3, <2>1, <2>2, AppendFacts
<1> QED
  BY <1>2, <1>3, RowsStep

\* Every reachable state satisfies the inductive invariant.
THEOREM Inductive == Spec => []IInv
<1>1. IInv /\ [Next]_vars => IInv'
  BY TypeStep, LockStep, SettledStep, FreshStep, PathStep, NoteStep DEF IInv
<1> QED
  BY <1>1, InitInv, PTL DEF Spec

\* Every state the handlers reach is one the database schema and the sessions
\* can hold; in particular no NULL reaches a NOT NULL column.
THEOREM TypeCorrect == Spec => []TypeOK
<1>1. IInv => TypeOK
  BY DEF IInv
<1> QED
  BY <1>1, Inductive, PTL

\* NFR-06: however many requests race, the timeline is the path to the status.
THEOREM TimelineCorrect == Spec => []TimelineIsPath
<1>1. IInv => TimelineIsPath
  BY DEF IInv
<1> QED
  BY <1>1, Inductive, PTL

\* UC-08 E2: an incident is closed with a note, whatever the requests do.
THEOREM NoteCorrect == Spec => []ClosedWithNote
<1>1. IInv => ClosedWithNote
  BY DEF IInv
<1> QED
  BY <1>1, Inductive, PTL

\* The row lock belongs to the one request that is committing; what it saw of
\* the status still is the status.
THEOREM LockCorrect == Spec => [](LockDiscipline /\ EdgeIsSettled)
<1>1. IInv => LockDiscipline /\ EdgeIsSettled
  BY DEF IInv
<1> QED
  BY <1>1, Inductive, PTL

\* The log of the lifecycle as the refinement mapping has it.
Entries(s) == [k \in 1..Len(s) |-> EntryOf(s[k])]

\* A row without its time is an entry of the lifecycle.
LEMMA EntryType ==
    ASSUME NEW r \in Row
    PROVE  EntryOf(r) \in Lifecycle!Entry
BY DEF Row, EntryOf, Lifecycle!Entry, Lifecycle!Status, Status

\* A timeline, read as entries, is a log of the lifecycle.
LEMMA EntriesType ==
    ASSUME NEW s \in Seq(Row)
    PROVE  Entries(s) \in Seq(Lifecycle!Entry) /\ Len(Entries(s)) = Len(s)
<1>1. Len(s) \in Nat /\ \A k \in 1..Len(s) : s[k] \in Row
  OBVIOUS
<1>2. \A k \in 1..Len(s) : EntryOf(s[k]) \in Lifecycle!Entry
  BY <1>1, EntryType
<1> QED
  BY <1>1, <1>2 DEF Entries

\* Appending a row appends its entry.
LEMMA EntriesAppend ==
    ASSUME NEW s \in Seq(Row), NEW r \in Row
    PROVE  Entries(Append(s, r)) = Append(Entries(s), EntryOf(r))
<1> DEFINE a == Entries(Append(s, r))
           b == Append(Entries(s), EntryOf(r))
<1>1. /\ Append(s, r) \in Seq(Row) /\ Len(s) \in Nat
      /\ Len(Append(s, r)) = Len(s) + 1
      /\ \A k \in 1..Len(s) : Append(s, r)[k] = s[k]
      /\ Append(s, r)[Len(s) + 1] = r
  BY AppendFacts
<1>2. a \in Seq(Lifecycle!Entry) /\ Len(a) = Len(s) + 1
  BY <1>1, EntriesType
<1>3. /\ Entries(s) \in Seq(Lifecycle!Entry) /\ Len(Entries(s)) = Len(s)
      /\ EntryOf(r) \in Lifecycle!Entry
  BY EntriesType, EntryType
<1>4. /\ b \in Seq(Lifecycle!Entry) /\ Len(b) = Len(s) + 1
      /\ \A k \in 1..Len(s) : b[k] = Entries(s)[k]
      /\ b[Len(s) + 1] = EntryOf(r)
  BY <1>3, AppendProperties
<1>5. \A k \in 1..(Len(s) + 1) : a[k] = EntryOf(Append(s, r)[k])
  BY <1>1 DEF Entries
<1>6. \A k \in 1..Len(s) : Entries(s)[k] = EntryOf(s[k])
  BY DEF Entries
<1>7. ASSUME NEW k \in 1..Len(a)
      PROVE  a[k] = b[k]
  <2>1. k \in 1..Len(s) \/ k = Len(s) + 1
    BY <1>1, <1>2
  <2> HIDE DEF a, b
  <2>2. k \in 1..(Len(s) + 1)
    BY <1>2
  <2> QED
    BY <1>1, <1>4, <1>5, <1>6, <2>1, <2>2
<1> HIDE DEF a, b
<1>8. a = b
  BY <1>1, <1>2, <1>4, <1>7, SeqEqual
<1> QED
  BY <1>8 DEF a, b

\* Workflow implements IncidentLifecycle: whatever the requests, races and
\* failures, an observer of statuses and timelines sees incidents move one
\* legal edge at a time, each move logged once.
THEOREM Refinement == Spec => ImplementsLifecycle
<1> DEFINE entries == [i \in Incident |-> Entries(timeline[i])]
<1>0. entries = [i \in Incident |-> [k \in 1..Len(timeline[i]) |-> EntryOf(timeline[i][k])]]
  BY DEF Entries
<1>1. Init => Lifecycle!LifecycleInit
  <2> SUFFICES ASSUME Init PROVE Lifecycle!LifecycleInit
    OBVIOUS
  <2>1. status \in [Incident -> {"unfiled", "open"}]
    BY DEF Init
  <2>2. ASSUME NEW i \in Incident
        PROVE  [k \in 1..Len(timeline[i]) |-> EntryOf(timeline[i][k])] = <<>>
    <3>1. Entries(<<>>) = <<>>
      <4>1. <<>> \in Seq(Row) /\ Len(<<>>) = 0
        BY EmptySeq
      <4>2. Entries(<<>>) \in Seq(Lifecycle!Entry) /\ Len(Entries(<<>>)) = 0
        BY <4>1, EntriesType
      <4> QED
        BY <4>2, EmptySeq
    <3>2. timeline[i] = <<>>
      BY DEF Init
    <3> QED
      BY <3>1, <3>2 DEF Entries
  <2> QED
    BY <2>1, <2>2 DEF Lifecycle!LifecycleInit
<1>2. ASSUME IInv, [Next]_vars
      PROVE  Lifecycle!LifecycleNext \/ UNCHANGED <<status, entries>>
  <2>0. status \in [Incident -> Status \cup {"unfiled"}] /\ timeline \in [Incident -> Seq(Row)]
    BY <1>2 DEF IInv, TypeOK
  <2>1. CASE UNCHANGED <<status, timeline>>
    BY <2>1
  <2>2. ASSUME NEW i \in Incident,
               status[i] = "unfiled",
               status' = [status EXCEPT ![i] = "open"],
               UNCHANGED timeline
        PROVE  Lifecycle!LifecycleNext
    <3>1. Lifecycle!Submit(i)
      BY <2>2 DEF Lifecycle!Submit
    <3> QED
      BY <3>1 DEF Lifecycle!LifecycleNext
  <2>3. ASSUME NEW i \in Incident, NEW r \in Row,
               Continues(i, r),
               status' = [status EXCEPT ![i] = r.to],
               timeline' = [timeline EXCEPT ![i] = Append(timeline[i], r)]
        PROVE  Lifecycle!LifecycleNext
    <3>1. EntryOf(r) \in Lifecycle!Entry
      BY EntryType
    <3>2. entries' = [entries EXCEPT ![i] = Append(entries[i], EntryOf(r))]
      <4>1. \A j \in Incident : timeline'[j] = IF j = i THEN Append(timeline[i], r) ELSE timeline[j]
        BY <2>0, <2>3
      <4>2. Entries(Append(timeline[i], r)) = Append(Entries(timeline[i]), EntryOf(r))
        BY <2>0, EntriesAppend
      <4>3. \A j \in Incident : Entries(timeline'[j]) =
                IF j = i THEN Append(Entries(timeline[i]), EntryOf(r)) ELSE Entries(timeline[j])
        BY <4>1, <4>2
      <4> QED
        BY <4>3
    <3>3. /\ <<EntryOf(r).from, EntryOf(r).to>> \in Lifecycle!Allowed
          /\ EntryOf(r).from = status[i] /\ EntryOf(r).to = r.to
          /\ EntryOf(r).to = "closed" => EntryOf(r).note = "text"
      BY <2>3 DEF Continues, EntryOf, Allowed, Lifecycle!Allowed
    <3>4. Lifecycle!Move(i, EntryOf(r))
      BY <2>3, <3>2, <3>3 DEF Lifecycle!Move, Entries
    <3> QED
      BY <3>1, <3>4 DEF Lifecycle!LifecycleNext
  <2> QED
    BY <1>2, <2>1, <2>2, <2>3, RowsChange
<1>3. IInv /\ [Next]_vars => [Lifecycle!LifecycleNext]_(Lifecycle!lifecycleVars)
  BY <1>2 DEF Lifecycle!lifecycleVars, Entries
<1> QED
  BY <1>1, <1>3, Inductive, PTL DEF ImplementsLifecycle, Lifecycle!LifecycleSpec, Spec
=============================================================================
