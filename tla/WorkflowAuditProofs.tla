------------------------ MODULE WorkflowAuditProofs ------------------------
(***************************************************************************)
(* Proofs about what Workflow records of its requests: the audit log, the  *)
(* notifications, the tenants they name, and what the answers are worth.   *)
(*                                                                         *)
(* The argument rests on the time stamp of a transaction: no two requests  *)
(* have the same one (Clocks), so whatever carries it was written by that  *)
(* request and by no other (Ledger).                                       *)
(***************************************************************************)
EXTENDS WorkflowProofs

\* Each accepted request has a time stamp of its own, and is done exactly when
\* it is answered.
Clocks ==
    /\ \A q \in Request :
        /\ pc[q] = "idle" => started[q] = 0 /\ seenStatus[q] = "unfiled"
        /\ pc[q] # "idle" => started[q] \in 1..clock
        /\ answer[q] # "none" <=> pc[q] = "done"
    /\ \A p, q \in Request :
        pc[p] # "idle" /\ pc[q] # "idle" /\ started[p] = started[q] => p = q

\* What request p holds is what it held.
Still(p) ==
    /\ pc'[p] = pc[p]
    /\ call'[p] = call[p]
    /\ started'[p] = started[p]
    /\ answer'[p] = answer[p]
    /\ asRole'[p] = asRole[p]
    /\ seenStatus'[p] = seenStatus[p]
    /\ seenRows'[p] = seenRows[p]

\* A step of one request leaves every other one as it was.
LEMMA OthersStandStill ==
    ASSUME TypeOK, NEW q \in Request,
           Handle(q) \/ Fail(q) \/ \E c \in Calls : Accept(q, c)
    PROVE  \A p \in Request \ {q} : Still(p)
<1> USE DEF users, rows, local, seen, Goto, Respond, Still, TypeOK
<1>1. CASE RefuseCategory(q) \/ File(q)
  BY <1>1 DEF RefuseCategory, File
<1>2. CASE ReadIncident(q)
  BY <1>2 DEF ReadIncident
<1>3. CASE Replay(q) \/ Classify(q) \/ ClassifyReassign(q)
  BY <1>3 DEF Replay, Classify, ClassifyReassign, ReadTimeline
<1>4. CASE WinUpdate(q) \/ LoseUpdate(q) \/ Reclassify(q) \/ CommitTransition(q)
  BY <1>4 DEF WinUpdate, LoseUpdate, Reclassify, CommitTransition, ReadTimeline
<1>5. CASE CheckTarget(q) \/ Flush(q) \/ CommitReassign(q)
  BY <1>5 DEF CheckTarget, Flush, CommitReassign
<1>6. CASE Log(q) \/ Finish(q)
  BY <1>6 DEF Log, Finish, ReadTimeline
<1>7. CASE Fail(q)
  BY <1>7 DEF Fail
<1>8. CASE \E c \in Calls : Accept(q, c)
  BY <1>8 DEF Accept
<1> QED
  BY <1>1, <1>2, <1>3, <1>4, <1>5, <1>6, <1>7, <1>8 DEF Handle

\* Every step is one request's, with the others standing still, or nobody's.
LEMMA WhoseStep ==
    ASSUME TypeOK, [Next]_vars
    PROVE  \/ /\ \A p \in Request : Still(p)
              /\ UNCHANGED <<rows, lock, audit, clock>>
           \/ \E q \in Request :
                /\ Handle(q) \/ Fail(q) \/ \E c \in Calls : Accept(q, c)
                /\ \A p \in Request \ {q} : Still(p)
<1> USE DEF local, seen
<1>1. ASSUME NEW u \in User, ChangeRole(u) \/ ChangeStatus(u)
      PROVE  (\A p \in Request : Still(p)) /\ UNCHANGED <<rows, lock, audit, clock>>
  BY <1>1 DEF ChangeRole, ChangeStatus, Still
<1>2. CASE UNCHANGED vars
  BY <1>2 DEF vars, Still
<1> QED
  BY <1>1, <1>2, OthersStandStill DEF Next, Terminating

\* What a request asks for, when it began and with which role are fixed once
\* it is accepted.
LEMMA HandleKeeps ==
    ASSUME NEW q \in Request, Handle(q) \/ Fail(q)
    PROVE  UNCHANGED <<call, started, clock, asRole>>
BY DEF Handle, RefuseCategory, File, ReadIncident, Replay, Classify, ClassifyReassign,
       WinUpdate, LoseUpdate, Reclassify, CommitTransition, CheckTarget, Flush,
       CommitReassign, Log, Finish, Fail, ReadTimeline, local, seen

\* A handler leads on to a later step or to an answer.
LEMMA HandleLeads ==
    ASSUME TypeOK, NEW q \in Request, Handle(q) \/ Fail(q)
    PROVE  /\ pc[q] \notin {"idle", "done"}
           /\ pc'[q] # "idle"
           /\ \/ pc'[q] = "done" /\ answer'[q] # "none"
              \/ pc'[q] # "done" /\ answer'[q] = answer[q]
<1> USE DEF Goto, Respond, TypeOK
<1>1. CASE RefuseCategory(q) \/ File(q) \/ Log(q) \/ Finish(q) \/ Fail(q)
  BY <1>1 DEF RefuseCategory, File, Log, Finish, Fail
<1>2. CASE ReadIncident(q)
  BY <1>2 DEF ReadIncident, AfterLoad
<1>3. CASE Replay(q) \/ Classify(q) \/ ClassifyReassign(q)
  BY <1>3 DEF Replay, Classify, ClassifyReassign
<1>4. CASE WinUpdate(q) \/ LoseUpdate(q) \/ Reclassify(q) \/ CommitTransition(q)
  BY <1>4 DEF WinUpdate, LoseUpdate, Reclassify, CommitTransition
<1>5. CASE CheckTarget(q) \/ Flush(q) \/ CommitReassign(q)
  BY <1>5 DEF CheckTarget, Flush, CommitReassign
<1> QED
  BY <1>1, <1>2, <1>3, <1>4, <1>5 DEF Handle

\* Time stamps stay distinct: a transaction begins at the next tick of the clock.
LEMMA ClocksStep ==
    ASSUME TypeOK, Clocks, [Next]_vars
    PROVE  Clocks'
<1>0. clock \in Nat
  BY DEF TypeOK
<1>1. CASE (\A p \in Request : Still(p)) /\ UNCHANGED clock
  BY <1>1 DEF Clocks, Still
<1>2. ASSUME NEW q \in Request, Handle(q) \/ Fail(q), \A p \in Request \ {q} : Still(p)
      PROVE  Clocks'
  <2>1. UNCHANGED <<started, clock>>
    BY <1>2, HandleKeeps
  <2>2. /\ pc[q] \notin {"idle", "done"} /\ pc'[q] # "idle"
        /\ \/ pc'[q] = "done" /\ answer'[q] # "none"
           \/ pc'[q] # "done" /\ answer'[q] = answer[q]
    BY <1>2, HandleLeads
  <2> QED
    BY <1>2, <2>1, <2>2 DEF Clocks, Still
<1>3. ASSUME NEW q \in Request, NEW c \in Calls, Accept(q, c),
             \A p \in Request \ {q} : Still(p)
      PROVE  Clocks'
  <2>1. /\ pc[q] = "idle" /\ pc'[q] # "idle"
        /\ clock' = clock + 1 /\ started'[q] = clock + 1
        /\ answer'[q] # "none" <=> pc'[q] = "done"
    BY <1>3 DEF Accept, FirstStep, Goto, Respond, TypeOK, Clocks
  <2>2. \A p \in Request \ {q} : pc'[p] # "idle" => started'[p] \in 1..clock
    BY <1>3 DEF Clocks, Still
  <2>3. \A p \in Request :
          /\ pc'[p] = "idle" => started'[p] = 0 /\ seenStatus'[p] = "unfiled"
          /\ pc'[p] # "idle" => started'[p] \in 1..clock'
          /\ answer'[p] # "none" <=> pc'[p] = "done"
    BY <1>0, <1>3, <2>1, <2>2 DEF Clocks, Still
  <2>4. \A p, r \in Request :
          pc'[p] # "idle" /\ pc'[r] # "idle" /\ started'[p] = started'[r] => p = r
    BY <1>0, <1>3, <2>1, <2>2 DEF Clocks, Still
  <2> QED
    BY <2>3, <2>4 DEF Clocks
<1> QED
  BY <1>1, <1>2, <1>3, WhoseStep
-----------------------------------------------------------------------------
(***************************************************************************)
(* Who wrote what.                                                         *)
(***************************************************************************)
\* Request q has committed the change of incident i that carries time t.
Wrote(q, i, u, why, t) ==
    /\ pc[q] \in {"log", "final", "respond", "done"}
    /\ pc[q] = "done" => answer[q] \in {"200", "404", "lost"}
    /\ call[q].kind = why
    /\ call[q].incident = i
    /\ call[q].actor = u
    /\ started[q] = t

HasRow(i, u, t) ==
    \E k \in DOMAIN timeline[i] : timeline[i][k].at = t /\ timeline[i][k].by = u

HasLine(i, t) == \E l \in audit : l.at = t /\ l.incident = i

\* Every timeline row has its author, a request that got that far.
RowsHaveAuthors ==
    \A i \in Incident : \A k \in DOMAIN timeline[i] : \E q \in Request :
        Wrote(q, i, timeline[i][k].by, "transition", timeline[i][k].at)

\* So has every notification and every audit line.
NoticesHaveAuthors ==
    \A n \in notifications \cup audit : \E q \in Request :
        Wrote(q, n.incident, n.by, n.why, n.at)

\* Everything that was written has its author; a committed transition has its
\* row, and once it is past the log call its line.
Ledger ==
    /\ RowsHaveAuthors
    /\ NoticesHaveAuthors
    /\ \A q \in Request : pc[q] = "log" /\ call[q].kind = "transition" =>
        HasRow(call[q].incident, call[q].actor, started[q])
    /\ NotificationsAreAtomic
    /\ AuditMatchesTimeline

\* Only the commits write rows and notifications, and only the log call a line.
LEMMA Writers ==
    ASSUME [Next]_vars
    PROVE  /\ UNCHANGED timeline \/ \E q \in Request : CommitTransition(q)
           /\ \/ UNCHANGED notifications
              \/ \E q \in Request : CommitTransition(q) \/ CommitReassign(q)
           /\ UNCHANGED audit \/ \E q \in Request : Log(q)
           /\ UNCHANGED submitter \/ \E q \in Request : File(q)
<1> USE DEF rows
<1>1. ASSUME NEW q \in Request,
             \/ RefuseCategory(q) \/ ReadIncident(q) \/ Replay(q) \/ Classify(q)
             \/ ClassifyReassign(q) \/ Finish(q) \/ Fail(q) \/ \E c \in Calls : Accept(q, c)
      PROVE  UNCHANGED <<timeline, notifications, audit, submitter>>
  BY <1>1 DEF RefuseCategory, ReadIncident, Replay, Classify, ClassifyReassign, Finish, Fail,
              Accept
<1>2. ASSUME NEW q \in Request,
             \/ WinUpdate(q) \/ LoseUpdate(q) \/ Reclassify(q) \/ CheckTarget(q) \/ Flush(q)
      PROVE  UNCHANGED <<timeline, notifications, audit, submitter>>
  BY <1>2 DEF WinUpdate, LoseUpdate, Reclassify, CheckTarget, Flush
<1>3. ASSUME NEW q \in Request
      PROVE  /\ File(q) => UNCHANGED <<timeline, notifications, audit>>
             /\ CommitTransition(q) => UNCHANGED <<audit, submitter>>
             /\ CommitReassign(q) => UNCHANGED <<timeline, audit, submitter>>
             /\ Log(q) => UNCHANGED <<timeline, notifications, submitter>>
  BY DEF File, CommitTransition, CommitReassign, Log
<1>4. ASSUME \/ \E u \in User : ChangeRole(u) \/ ChangeStatus(u)
             \/ Terminating
             \/ UNCHANGED vars
      PROVE  UNCHANGED <<timeline, notifications, audit, submitter>>
  BY <1>4 DEF ChangeRole, ChangeStatus, Terminating, vars
<1> QED
  BY <1>1, <1>2, <1>3, <1>4 DEF Next, Handle

\* An author stays the author.
LEMMA AuthorStays ==
    ASSUME IInv, [Next]_vars, NEW p \in Request, NEW i, NEW u, NEW t,
           NEW why \in {"transition", "reassign"}, Wrote(p, i, u, why, t)
    PROVE  Wrote(p, i, u, why, t)'
<1>0. TypeOK
  BY DEF IInv
<1>1. CASE Still(p)
  BY <1>1 DEF Wrote, Still
<1>2. CASE Handle(p) \/ Fail(p)
  <2>1. UNCHANGED <<call, started>>
    BY <1>2, HandleKeeps
  <2>2. \/ Log(p) \/ ReadIncident(p) \/ Finish(p) \/ Fail(p)
    BY <1>2 DEF Handle, Wrote, RefuseCategory, File, Replay, Classify, ClassifyReassign,
        WinUpdate, LoseUpdate, Reclassify, CommitTransition, CheckTarget, Flush, CommitReassign
  <2>3. /\ pc'[p] \in {"final", "respond", "done"}
        /\ pc'[p] = "done" => answer'[p] \in {"200", "404", "lost"}
    BY <1>0, <2>2 DEF Log, ReadIncident, AfterLoad, Finish, Fail, Goto, Respond, TypeOK, Wrote
  <2> QED
    BY <2>1, <2>3 DEF Wrote
<1>3. CASE \E c \in Calls : Accept(p, c)
  BY <1>3 DEF Accept, Wrote
<1> QED
  BY <1>0, <1>1, <1>2, <1>3, WhoseStep

\* Rows are never taken back.
LEMMA RowStays ==
    ASSUME IInv, [Next]_vars, NEW i \in Incident
    PROVE  /\ \A k \in DOMAIN timeline[i] :
                k \in DOMAIN timeline'[i] /\ timeline'[i][k] = timeline[i][k]
           /\ \A u, t : HasRow(i, u, t) => HasRow(i, u, t)'
<1>1. timeline[i] \in Seq(Row)
  BY DEF IInv, TypeOK
<1>2. timeline'[i] = timeline[i] \/ \E r \in Row : timeline'[i] = Append(timeline[i], r)
  BY RowsStep
<1>3. \A k \in DOMAIN timeline[i] :
        k \in DOMAIN timeline'[i] /\ timeline'[i][k] = timeline[i][k]
  <2>1. ASSUME NEW r \in Row, timeline'[i] = Append(timeline[i], r)
        PROVE  \A k \in DOMAIN timeline[i] :
                 k \in DOMAIN timeline'[i] /\ timeline'[i][k] = timeline[i][k]
    BY <1>1, <2>1, AppendFacts
  <2> QED
    BY <1>2, <2>1
<1> QED
  BY <1>3 DEF HasRow

\* A commit adds its own row at the end.
LEMMA NewRow ==
    ASSUME IInv, NEW q \in Request, CommitTransition(q)
    PROVE  /\ call[q].incident \in Incident
           /\ timeline' = [timeline EXCEPT ![call[q].incident] =
                              Append(timeline[call[q].incident], RowOf(q))]
           /\ HasRow(call[q].incident, call[q].actor, started[q])'
           /\ \A i \in Incident : \A k \in DOMAIN timeline'[i] :
                \/ k \in DOMAIN timeline[i] /\ timeline'[i][k] = timeline[i][k]
                \/ i = call[q].incident /\ timeline'[i][k] = RowOf(q)
<1> DEFINE j == call[q].incident
<1>1. /\ j \in Incident /\ RowOf(q) \in Row
      /\ timeline \in [Incident -> Seq(Row)]
  BY CallFacts, CommitFacts DEF IInv, TypeOK, CommitTransition
<1>2. timeline' = [timeline EXCEPT ![j] = Append(timeline[j], RowOf(q))]
  BY DEF CommitTransition
<1>3. /\ DOMAIN timeline[j] = 1..Len(timeline[j])
      /\ DOMAIN timeline'[j] = 1..(Len(timeline[j]) + 1)
      /\ Len(timeline[j]) \in Nat
      /\ \A k \in 1..Len(timeline[j]) : timeline'[j][k] = timeline[j][k]
      /\ timeline'[j][Len(timeline[j]) + 1] = RowOf(q)
  BY <1>1, <1>2, AppendFacts
<1>4. HasRow(call[q].incident, call[q].actor, started[q])'
  <2>1. UNCHANGED <<call, started>>
    BY DEF CommitTransition, local
  <2>2. RowOf(q).at = started[q] /\ RowOf(q).by = call[q].actor
    BY DEF RowOf
  <2>3. Len(timeline[j]) + 1 \in DOMAIN timeline'[j]
    BY <1>3
  <2>4. PICK k \in DOMAIN timeline'[j] :
          timeline'[j][k].at = started[q] /\ timeline'[j][k].by = call[q].actor
    BY <1>3, <2>2, <2>3
  <2> QED
    BY <2>1, <2>4 DEF HasRow
<1>5. ASSUME NEW i \in Incident, NEW k \in DOMAIN timeline'[i]
      PROVE  \/ k \in DOMAIN timeline[i] /\ timeline'[i][k] = timeline[i][k]
             \/ i = j /\ timeline'[i][k] = RowOf(q)
  BY <1>1, <1>2, <1>3, <1>5
<1> QED
  BY <1>1, <1>2, <1>4, <1>5

\* The notification a commit stages, if any, names its own request.
LEMMA NewNotification ==
    ASSUME NEW q \in Request, Deliver(q), NEW n \in notifications', n \notin notifications
    PROVE  /\ n.incident = call[q].incident /\ n.by = call[q].actor
           /\ n.why = call[q].kind /\ n.at = started[q]
           /\ n.recipient = Recipient(q) /\ n.recipient # n.by
BY DEF Deliver, Deliverable

\* Everything that is written has its author.
LEMMA AuthorsStep ==
    ASSUME IInv, Ledger, [Next]_vars
    PROVE  RowsHaveAuthors' /\ NoticesHaveAuthors'
<1>0. TypeOK
  BY DEF IInv
<1>1. ASSUME NEW q \in Request, CommitTransition(q) \/ CommitReassign(q) \/ Log(q),
             NEW i, NEW u, NEW why, NEW t,
             i = call[q].incident, u = call[q].actor, why = call[q].kind, t = started[q]
      PROVE  Wrote(q, i, u, why, t)'
  <2>1. UNCHANGED <<call, started>>
    BY <1>1 DEF CommitTransition, CommitReassign, Log, local
  <2>2. pc'[q] \in {"log", "final"}
    BY <1>0, <1>1 DEF CommitTransition, CommitReassign, Log, Goto, TypeOK
  <2> QED
    BY <1>1, <2>1, <2>2 DEF Wrote
<1>2. ASSUME NEW i \in Incident, NEW k \in DOMAIN timeline'[i], NEW u, NEW t,
             u = timeline'[i][k].by, t = timeline'[i][k].at
      PROVE  \E q \in Request : Wrote(q, i, u, "transition", t)'
  <2>1. CASE k \in DOMAIN timeline[i] /\ timeline'[i][k] = timeline[i][k]
    <3>1. PICK q \in Request : Wrote(q, i, u, "transition", t)
      BY <1>2, <2>1 DEF Ledger, RowsHaveAuthors
    <3>2. Wrote(q, i, u, "transition", t)'
      BY <3>1, AuthorStays
    <3> QED
      BY <3>2
  <2>2. ASSUME NEW q \in Request, CommitTransition(q),
               i = call[q].incident, timeline'[i][k] = RowOf(q)
        PROVE  Wrote(q, i, u, "transition", t)'
    <3>1. call[q].kind = "transition" /\ RowOf(q).by = call[q].actor /\ RowOf(q).at = started[q]
      BY <2>2 DEF CommitTransition, RowOf
    <3> QED
      BY <1>1, <1>2, <2>2, <3>1
  <2> QED
    BY <2>1, <2>2, Writers, NewRow
<1>3. ASSUME NEW n \in notifications' \cup audit'
      PROVE  \E q \in Request : Wrote(q, n.incident, n.by, n.why, n.at)'
  <2>1. CASE n \in notifications \cup audit
    <3>1. PICK q \in Request : Wrote(q, n.incident, n.by, n.why, n.at)
      BY <2>1 DEF Ledger, NoticesHaveAuthors
    <3>2. n.why \in {"transition", "reassign"}
      BY <1>0, <2>1 DEF TypeOK, Notification, Line
    <3>3. Wrote(q, n.incident, n.by, n.why, n.at)'
      BY <3>1, <3>2, AuthorStays
    <3> QED
      BY <3>3
  <2>2. CASE n \in notifications' /\ n \notin notifications
    <3>1. PICK q \in Request : CommitTransition(q) \/ CommitReassign(q)
      BY <2>2, Writers
    <3>2. Deliver(q)
      BY <3>1 DEF CommitTransition, CommitReassign
    <3>3. /\ n.incident = call[q].incident /\ n.by = call[q].actor
          /\ n.why = call[q].kind /\ n.at = started[q]
      BY <2>2, <3>2, NewNotification
    <3>4. Wrote(q, n.incident, n.by, n.why, n.at)'
      BY <1>1, <3>1, <3>3
    <3> QED
      BY <3>4
  <2>3. CASE n \in audit' /\ n \notin audit
    <3>1. PICK q \in Request : Log(q)
      BY <2>3, Writers
    <3>2. /\ n.incident = call[q].incident /\ n.by = call[q].actor
          /\ n.why = call[q].kind /\ n.at = started[q]
      BY <2>3, <3>1 DEF Log, Lines
    <3>3. Wrote(q, n.incident, n.by, n.why, n.at)'
      BY <1>1, <3>1, <3>2
    <3> QED
      BY <3>3
  <2> QED
    BY <2>1, <2>2, <2>3
<1>4. RowsHaveAuthors'
  BY <1>2 DEF RowsHaveAuthors
<1> QED
  BY <1>3, <1>4 DEF NoticesHaveAuthors

\* A transition that reached its log call has its row.
LEMMA LoggedStep ==
    ASSUME IInv, Ledger, [Next]_vars, NEW q \in Request,
           pc'[q] = "log", call'[q].kind = "transition"
    PROVE  HasRow(call[q].incident, call[q].actor, started[q])'
<1>0. TypeOK
  BY DEF IInv
<1>1. CASE Still(q)
  <2>1. call[q].incident \in Incident
    BY <1>0, CallFacts
  <2>2. HasRow(call[q].incident, call[q].actor, started[q])
    BY <1>1 DEF Still, Ledger
  <2>3. PICK i \in Incident : i = call[q].incident
    BY <2>1
  <2>4. PICK u, t : u = call[q].actor /\ t = started[q]
    OBVIOUS
  <2>5. HasRow(i, u, t)'
    BY <2>2, <2>3, <2>4, RowStays
  <2> QED
    BY <1>1, <2>3, <2>4, <2>5 DEF Still, HasRow
<1>2. CASE Handle(q) \/ Fail(q)
  <2>1. UNCHANGED call
    BY <1>2, HandleKeeps
  <2>2. CommitTransition(q)
    BY <1>0, <1>2, <2>1 DEF Handle, RefuseCategory, File, ReadIncident, AfterLoad, Replay,
        Classify, ClassifyReassign, WinUpdate, LoseUpdate, Reclassify, CheckTarget, Flush,
        CommitReassign, Log, Finish, Fail, Goto, Respond, TypeOK
  <2> QED
    BY <2>2, NewRow
<1>3. CASE \E c \in Calls : Accept(q, c)
  BY <1>0, <1>3 DEF Accept, FirstStep, Goto, Respond, TypeOK
<1> QED
  BY <1>0, <1>1, <1>2, <1>3, WhoseStep

\* An incident with a row is filed, and its submitter stays.
LEMMA SubmitterStays ==
    ASSUME IInv, [Next]_vars, NEW i \in Incident, status[i] # "unfiled"
    PROVE  submitter'[i] = submitter[i] /\ status'[i] # "unfiled"
<1>1. \A q \in Request : pc[q] = "category" => status[call[q].incident] = "unfiled"
  BY DEF IInv, FreshIds
<1>2. submitter'[i] = submitter[i]
  <2>1. CASE UNCHANGED submitter
    BY <2>1
  <2>2. ASSUME NEW q \in Request, File(q)
        PROVE  submitter'[i] = submitter[i]
    BY <1>1, <2>2 DEF File, IInv, TypeOK
  <2> QED
    BY <2>1, <2>2, Writers
<1>3. status'[i] # "unfiled"
  BY RowsStep DEF Allowed
<1> QED
  BY <1>2, <1>3

\* So is one with a timeline.
LEMMA RowMeansFiled ==
    ASSUME TimelineIsPath, TypeOK, NEW i \in Incident, NEW k \in DOMAIN timeline[i]
    PROVE  status[i] # "unfiled"
<1>1. timeline[i] \in Seq(Row)
  BY DEF TypeOK
<1>2. Len(timeline[i]) # 0
  BY <1>1
<1> QED
  BY <1>2 DEF TimelineIsPath, Path

\* A notification is committed with the row it is about, or not at all.
LEMMA NotificationsStep ==
    ASSUME IInv, Ledger, [Next]_vars
    PROVE  NotificationsAreAtomic'
<1>0. TypeOK /\ TimelineIsPath
  BY DEF IInv
<1>1. ASSUME NEW n \in notifications'
      PROVE  /\ n.recipient # n.by
             /\ n.why = "transition" =>
                  n.recipient = submitter'[n.incident] /\ HasRow(n.incident, n.by, n.at)'
  <2>1. CASE n \in notifications
    <3>1. /\ n.recipient # n.by
          /\ n.why = "transition" =>
                n.recipient = submitter[n.incident] /\ HasRow(n.incident, n.by, n.at)
      BY <2>1 DEF Ledger, NotificationsAreAtomic, HasRow
    <3>2. n.incident \in Incident
      BY <1>0, <2>1 DEF TypeOK, Notification
    <3>3. HasRow(n.incident, n.by, n.at) => HasRow(n.incident, n.by, n.at)'
      BY <3>2, RowStays
    <3>4. HasRow(n.incident, n.by, n.at) => submitter'[n.incident] = submitter[n.incident]
      BY <1>0, <3>2, RowMeansFiled, SubmitterStays DEF HasRow
    <3> QED
      BY <3>1, <3>3, <3>4
  <2>2. CASE n \notin notifications
    <3>1. PICK q \in Request : CommitTransition(q) \/ CommitReassign(q)
      BY <2>2, Writers
    <3>2. Deliver(q) /\ UNCHANGED <<submitter, call, started>>
      BY <3>1 DEF CommitTransition, CommitReassign, local
    <3>3. /\ n.incident = call[q].incident /\ n.by = call[q].actor
          /\ n.why = call[q].kind /\ n.at = started[q]
          /\ n.recipient = Recipient(q) /\ n.recipient # n.by
      BY <2>2, <3>2, NewNotification
    <3>4. ASSUME n.why = "transition"
          PROVE  HasRow(n.incident, n.by, n.at)'
      <4>1. CommitTransition(q)
        BY <3>1, <3>3, <3>4 DEF CommitReassign
      <4>2. HasRow(call[q].incident, call[q].actor, started[q])'
        BY <4>1, NewRow
      <4> QED
        BY <3>2, <3>3, <4>2 DEF HasRow
    <3> QED
      BY <3>2, <3>3, <3>4 DEF Recipient
  <2> QED
    BY <2>1, <2>2
<1> QED
  BY <1>1 DEF NotificationsAreAtomic, HasRow

\* Two accepted requests with one time stamp are one request.
LEMMA SameRequest ==
    ASSUME Clocks, NEW p \in Request, NEW q \in Request, pc[p] # "idle",
           started[p] = started[q]
    PROVE  p = q
BY DEF Clocks

\* The row a request finds under its own time stamp is its own.
LEMMA OwnRow ==
    ASSUME IInv, Clocks, Ledger, NEW q \in Request, NEW i \in Incident,
           NEW k \in DOMAIN timeline[i], timeline[i][k].at = started[q]
    PROVE  /\ pc[q] \in {"log", "final", "respond", "done"}
           /\ pc[q] = "done" => answer[q] \in {"200", "404", "lost"}
<1>1. PICK p \in Request : Wrote(p, i, timeline[i][k].by, "transition", timeline[i][k].at)
  BY DEF Ledger, RowsHaveAuthors
<1>2. p = q
  BY <1>1, SameRequest DEF Wrote
<1> QED
  BY <1>1, <1>2 DEF Wrote

\* Request q has a timeline row.
HasMoved(q) ==
    \E k \in DOMAIN timeline[call[q].incident] :
        timeline[call[q].incident][k].at = started[q]

\* It is about to log it, was lost before it could, or has logged it.
Accounted(q) ==
    HasMoved(q) => \/ pc[q] = "log" \/ answer[q] = "lost"
                   \/ \E l \in audit : l.at = started[q] /\ l.incident = call[q].incident

\* No step leaves a move unaccounted for.
LEMMA AccountedStep ==
    ASSUME IInv, Clocks, Ledger, [Next]_vars, NEW q \in Request, HasMoved(q)'
    PROVE  Accounted(q)'
<1>0. /\ TypeOK /\ call[q].incident \in Incident
      /\ pc[q] \in PCs
  BY CallFacts DEF IInv, TypeOK
<1>1. audit \subseteq audit'
  BY Writers DEF Log
<1>2. Accounted(q)
  BY DEF Ledger, AuditMatchesTimeline, Accounted, HasMoved
<1>3. CASE Still(q)
  <2>1. PICK k \in DOMAIN timeline'[call[q].incident] :
          timeline'[call[q].incident][k].at = started[q]
    BY <1>3 DEF HasMoved, Still
  <2>2. CASE /\ k \in DOMAIN timeline[call[q].incident]
             /\ timeline'[call[q].incident][k] = timeline[call[q].incident][k]
    BY <1>1, <1>2, <1>3, <2>1, <2>2 DEF Accounted, HasMoved, Still
  <2>3. ASSUME NEW p \in Request, CommitTransition(p),
               timeline'[call[q].incident][k] = RowOf(p)
        PROVE  Accounted(q)'
    <3>1. started[p] = started[q] /\ pc[p] = "commit"
      BY <2>1, <2>3 DEF RowOf, CommitTransition
    <3>2. p = q
      BY <3>1, SameRequest
    <3> QED
      BY <1>0, <2>3, <3>2 DEF CommitTransition, Goto, Accounted, IInv, TypeOK
  <2> QED
    BY <1>0, <2>1, <2>2, <2>3, Writers, NewRow
<1>4. CASE Handle(q) \/ Fail(q)
  <2>1. UNCHANGED <<call, started>> /\ pc[q] \notin {"idle", "done"}
    BY <1>0, <1>4, HandleKeeps, HandleLeads
  <2>2. CASE CommitTransition(q)
    BY <1>0, <2>2 DEF CommitTransition, Goto, Accounted, TypeOK
  <2>3. CASE ~CommitTransition(q)
    <3>1. UNCHANGED timeline
      BY <1>4, <2>3
      DEF Handle, RefuseCategory, File, ReadIncident, Replay, Classify, ClassifyReassign,
          WinUpdate, LoseUpdate, Reclassify, CheckTarget, Flush, CommitReassign, Log, Finish,
          Fail, rows
    <3>2. HasMoved(q)
      BY <2>1, <3>1 DEF HasMoved
    <3>3. pc[q] \in {"log", "final", "respond"} /\ answer[q] = "none"
      BY <1>0, <2>1, <3>2, OwnRow DEF HasMoved, Clocks
    <3>4. CASE pc[q] = "log"
      <4>1. Log(q) \/ Fail(q)
        BY <1>4, <3>4 DEF Handle, RefuseCategory, File, ReadIncident, Replay, Classify,
            ClassifyReassign, WinUpdate, LoseUpdate, Reclassify, CommitTransition, CheckTarget,
            Flush, CommitReassign, Finish
      <4>2. CASE Log(q)
        <5> DEFINE l == [incident |-> call[q].incident, by |-> call[q].actor,
                         why |-> call[q].kind, at |-> started[q]]
        <5>1. l \in audit'
          BY <4>2 DEF Log, Lines
        <5>2. l.at = started[q] /\ l.incident = call[q].incident
          OBVIOUS
        <5> HIDE DEF l
        <5> QED
          BY <2>1, <5>1, <5>2 DEF Accounted
      <4>3. CASE Fail(q)
        BY <1>0, <4>3 DEF Fail, Respond, Accounted, TypeOK
      <4> QED
        BY <4>1, <4>2, <4>3
    <3>5. CASE pc[q] # "log"
      BY <1>1, <1>2, <2>1, <3>2, <3>3, <3>5 DEF Accounted
    <3> QED
      BY <3>4, <3>5
  <2> QED
    BY <2>2, <2>3
<1>5. ASSUME NEW c \in Calls, Accept(q, c)
      PROVE  FALSE
  <2>1. UNCHANGED timeline /\ started'[q] = clock + 1 /\ clock \in Nat
    BY <1>0, <1>5 DEF Accept, rows, TypeOK
  <2>2. call'[q].incident \in Incident
    BY <1>0, <1>5, ConstantsAssumption DEF Accept, TypeOK, Call
  <2>3. PICK k \in DOMAIN timeline[call'[q].incident] :
          timeline[call'[q].incident][k].at = clock + 1
    BY <2>1 DEF HasMoved
  <2>4. PICK p \in Request : pc[p] # "idle" /\ started[p] = clock + 1
    BY <2>2, <2>3 DEF Ledger, RowsHaveAuthors, Wrote
  <2> QED
    BY <2>1, <2>4 DEF Clocks
<1> QED
  BY <1>0, <1>3, <1>4, <1>5, WhoseStep

\* The audit log and the timelines stay in step.
LEMMA AuditStep ==
    ASSUME IInv, Clocks, Ledger, [Next]_vars
    PROVE  AuditMatchesTimeline'
<1>0. TypeOK
  BY DEF IInv
<1>1. ASSUME NEW l \in audit', l.why = "transition"
      PROVE  HasRow(l.incident, l.by, l.at)'
  <2>1. CASE l \in audit
    <3>1. HasRow(l.incident, l.by, l.at) /\ l.incident \in Incident
      BY <1>0, <1>1, <2>1 DEF Ledger, AuditMatchesTimeline, HasRow, TypeOK, Line
    <3> QED
      BY <3>1, RowStays
  <2>2. CASE l \notin audit
    <3>1. PICK q \in Request : Log(q)
      BY <2>2, Writers
    <3>2. /\ l.incident = call[q].incident /\ l.by = call[q].actor
          /\ l.why = call[q].kind /\ l.at = started[q] /\ pc[q] = "log"
      BY <2>2, <3>1 DEF Log, Lines
    <3>3. HasRow(l.incident, l.by, l.at) /\ l.incident \in Incident
      BY <1>0, <1>1, <3>2, CallFacts DEF Ledger
    <3> QED
      BY <3>3, RowStays
  <2> QED
    BY <2>1, <2>2
<1>2. \A q \in Request : Accounted(q)'
  BY AccountedStep DEF Accounted
<1> QED
  BY <1>1, <1>2 DEF AuditMatchesTimeline, HasRow, Accounted, HasMoved

\* Every step keeps the ledger.
LEMMA LedgerStep ==
    ASSUME IInv, Clocks, Ledger, [Next]_vars
    PROVE  Ledger'
<1>1. \A q \in Request : pc'[q] = "log" /\ call'[q].kind = "transition" =>
        HasRow(call[q].incident, call[q].actor, started[q])'
  BY LoggedStep
<1> QED
  BY <1>1, AuthorsStep, NotificationsStep, AuditStep DEF Ledger
-----------------------------------------------------------------------------
\* At the start nothing is written and nobody has been answered.
LEMMA LedgerInit ==
    ASSUME Init
    PROVE  Clocks /\ Ledger
<1>1. /\ \A i \in Incident : DOMAIN timeline[i] = {}
      /\ notifications = {} /\ audit = {}
      /\ \A q \in Request : pc[q] = "idle" /\ answer[q] = "none" /\ started[q] = 0
                               /\ seenStatus[q] = "unfiled"
  BY DEF Init
<1>2. \A q \in Request : call[q].incident \in Incident
  <2>1. TypeOK
    BY InitInv DEF IInv
  <2> QED
    BY <2>1, CallFacts
<1> QED
  BY <1>1, <1>2 DEF Clocks, Ledger, RowsHaveAuthors, NoticesHaveAuthors, NotificationsAreAtomic,
      AuditMatchesTimeline

\* The two hold in every reachable state.
THEOREM LedgerCorrect == Spec => [](Clocks /\ Ledger)
<1>1. Init => Clocks /\ Ledger
  BY LedgerInit
<1>2. IInv /\ Clocks /\ Ledger /\ [Next]_vars => (Clocks /\ Ledger)'
  <2> SUFFICES ASSUME IInv, Clocks, Ledger, [Next]_vars
               PROVE  Clocks' /\ Ledger'
    OBVIOUS
  <2>1. TypeOK
    BY DEF IInv
  <2> QED
    BY <2>1, ClocksStep, LedgerStep
<1> QED
  BY <1>1, <1>2, Inductive, PTL DEF Spec

\* NFR-07: a line in the audit log describes a durable row, and a row lacks its
\* line only while, or if, its request did not get to the log call.
THEOREM AuditCorrect == Spec => []AuditMatchesTimeline
<1>1. Clocks /\ Ledger => AuditMatchesTimeline
  BY DEF Ledger
<1> QED
  BY <1>1, LedgerCorrect, PTL

\* A transition notification shares the fate of its timeline row.
THEOREM NotificationsCorrect == Spec => []NotificationsAreAtomic
<1>1. Clocks /\ Ledger => NotificationsAreAtomic
  BY DEF Ledger
<1> QED
  BY <1>1, LedgerCorrect, PTL

\* Whoever was refused, by role, state, race or note, left no trace anywhere.
THEOREM RefusalsLeaveNoTrace == Spec => []RefusedWroteNothing
<1>1. ASSUME IInv, Clocks, Ledger
      PROVE  RefusedWroteNothing
  <2> SUFFICES ASSUME NEW q \in Request, answer[q] \in {"403", "409", "422"}
               PROVE  /\ \A i \in Incident : \A k \in DOMAIN timeline[i] :
                           timeline[i][k].at # started[q]
                      /\ \A n \in notifications \cup audit : n.at # started[q]
    BY DEF RefusedWroteNothing
  <2>1. pc[q] = "done"
    BY <1>1 DEF Clocks
  <2>2. \A i \in Incident : \A k \in DOMAIN timeline[i] : timeline[i][k].at # started[q]
    BY <1>1, <2>1, OwnRow
  <2>3. ASSUME NEW n \in notifications \cup audit, n.at = started[q]
        PROVE  FALSE
    <3>1. PICK p \in Request : Wrote(p, n.incident, n.by, n.why, n.at)
      BY <1>1 DEF Ledger, NoticesHaveAuthors
    <3>2. p = q
      BY <1>1, <2>3, <3>1, SameRequest DEF Wrote
    <3> QED
      BY <2>1, <3>1, <3>2 DEF Wrote
  <2> QED
    BY <2>2, <2>3
<1>2. IInv /\ Clocks /\ Ledger => RefusedWroteNothing
  BY <1>1
<1> QED
  BY <1>2, Inductive, LedgerCorrect, PTL
-----------------------------------------------------------------------------
(***************************************************************************)
(* What a transaction leaves: at most one row and one notification, and    *)
(* notifications as NotificationPanel takes them.                          *)
(***************************************************************************)
\* A request that is about to commit has not written yet.
LEMMA NothingYet ==
    ASSUME IInv, Clocks, Ledger, NEW q \in Request, pc[q] = "commit"
    PROVE  /\ \A i \in Incident : \A k \in DOMAIN timeline[i] : timeline[i][k].at # started[q]
           /\ \A n \in notifications : n.at # started[q]
<1>1. \A i \in Incident : \A k \in DOMAIN timeline[i] : timeline[i][k].at # started[q]
  BY OwnRow
<1>2. ASSUME NEW n \in notifications, n.at = started[q]
      PROVE  FALSE
  <2>1. PICK p \in Request : Wrote(p, n.incident, n.by, n.why, n.at)
    BY DEF Ledger, NoticesHaveAuthors
  <2>2. p = q
    BY <1>2, <2>1, SameRequest DEF Wrote
  <2> QED
    BY <2>1, <2>2 DEF Wrote
<1> QED
  BY <1>1, <1>2

\* The notifications of one step.
LEMMA Arrivals ==
    ASSUME IInv, Clocks, Ledger, [Next]_vars
    PROVE  \/ UNCHANGED notifications
           \/ \E n \in notifications' :
                /\ notifications' = notifications \cup {n}
                /\ n.at \in 1..clock
                /\ \A m \in notifications : m.at # n.at
<1>1. ASSUME NEW q \in Request, CommitTransition(q) \/ CommitReassign(q), ~UNCHANGED notifications
      PROVE  \E n \in notifications' :
                /\ notifications' = notifications \cup {n}
                /\ n.at \in 1..clock
                /\ \A m \in notifications : m.at # n.at
  <2>1. Deliver(q) /\ pc[q] = "commit"
    BY <1>1 DEF CommitTransition, CommitReassign
  <2>2. PICK n : n.at = started[q] /\ notifications' = notifications \cup {n}
    BY <1>1, <2>1 DEF Deliver
  <2>3. n.at \in 1..clock /\ \A m \in notifications : m.at # n.at
    BY <2>1, <2>2, NothingYet DEF Clocks
  <2> QED
    BY <2>2, <2>3
<1> QED
  BY <1>1, Writers

\* Time stamps of rows and notifications stay unique.
LEMMA OneMoveStep ==
    ASSUME IInv, Clocks, Ledger, OneMovePerTransaction, [Next]_vars
    PROVE  OneMovePerTransaction'
<1>1. \A m, n \in notifications' : m.at = n.at => m = n
  BY Arrivals DEF OneMovePerTransaction
<1>2. ASSUME NEW q \in Request, CommitTransition(q),
             NEW i \in Incident, NEW j \in Incident,
             NEW k \in DOMAIN timeline'[i], NEW l \in DOMAIN timeline'[j],
             timeline'[i][k].at = timeline'[j][l].at
      PROVE  i = j /\ k = l
  <2> DEFINE here == call[q].incident
  <2>1. /\ here \in Incident /\ RowOf(q) \in Row /\ timeline \in [Incident -> Seq(Row)]
        /\ timeline' = [timeline EXCEPT ![here] = Append(timeline[here], RowOf(q))]
        /\ pc[q] = "commit"
    BY <1>2, CallFacts, CommitFacts, NewRow DEF IInv, TypeOK, CommitTransition
  <2>2. /\ DOMAIN timeline[here] = 1..Len(timeline[here])
        /\ DOMAIN timeline'[here] = 1..(Len(timeline[here]) + 1)
        /\ Len(timeline[here]) \in Nat
        /\ \A r \in 1..Len(timeline[here]) : timeline'[here][r] = timeline[here][r]
        /\ timeline'[here][Len(timeline[here]) + 1] = RowOf(q)
    BY <2>1, AppendFacts
  <2>3. \A p \in Incident : \A r \in DOMAIN timeline[p] : timeline[p][r].at # started[q]
    BY <2>1, NothingYet
  <2>4. ASSUME NEW p \in Incident, NEW r \in DOMAIN timeline'[p]
        PROVE  \/ r \in DOMAIN timeline[p] /\ timeline'[p][r] = timeline[p][r]
                  /\ timeline'[p][r].at # started[q]
               \/ p = here /\ r = Len(timeline[here]) + 1 /\ timeline'[p][r].at = started[q]
    <3>1. CASE p = here /\ r = Len(timeline[here]) + 1
      <4>1. RowOf(q).at = started[q]
        BY DEF RowOf
      <4> QED
        BY <2>2, <3>1, <4>1
    <3>2. CASE p = here /\ r # Len(timeline[here]) + 1
      <4>1. r \in 1..(Len(timeline[here]) + 1)
        BY <2>2, <2>4, <3>2
      <4>2. r \in 1..Len(timeline[here])
        BY <2>2, <3>2, <4>1
      <4>3. r \in DOMAIN timeline[here] /\ timeline'[here][r] = timeline[here][r]
        BY <2>2, <4>2
      <4> QED
        BY <2>3, <3>2, <4>3
    <3>3. CASE p # here
      <4>1. timeline'[p] = timeline[p]
        BY <2>1, <3>3
      <4> QED
        BY <2>3, <2>4, <4>1
    <3> QED
      BY <3>1, <3>2, <3>3
  <2> HIDE DEF here
  <2>5. \/ /\ k \in DOMAIN timeline[i] /\ timeline'[i][k] = timeline[i][k]
           /\ l \in DOMAIN timeline[j] /\ timeline'[j][l] = timeline[j][l]
        \/ i = here /\ j = here /\ k = Len(timeline[here]) + 1 /\ l = Len(timeline[here]) + 1
    BY <1>2, <2>4
  <2> QED
    BY <1>2, <2>5 DEF OneMovePerTransaction
<1>3. UNCHANGED timeline =>
        \A i, j \in Incident : \A k \in DOMAIN timeline'[i], l \in DOMAIN timeline'[j] :
            timeline'[i][k].at = timeline'[j][l].at => i = j /\ k = l
  BY DEF OneMovePerTransaction
<1> QED
  BY <1>1, <1>2, <1>3, Writers DEF OneMovePerTransaction

\* No transaction, and so no request, moves an incident or notifies anybody twice.
THEOREM OneMoveCorrect == Spec => []OneMovePerTransaction
<1>1. Init => OneMovePerTransaction
  BY DEF Init, OneMovePerTransaction
<1>2. IInv /\ (Clocks /\ Ledger) /\ OneMovePerTransaction /\ [Next]_vars
        => OneMovePerTransaction'
  BY OneMoveStep
<1> QED
  BY <1>1, <1>2, Inductive, LedgerCorrect, PTL DEF Spec

\* The notifications of the workflow come as Arrive of NotificationPanel has them: one at
\* a time, dated in the past, and none is ever taken back.
THEOREM ArrivalsCorrect == Spec => NotificationsOnlyArrive
<1>1. IInv /\ (Clocks /\ Ledger) /\ [Next]_vars
        => [\E n \in notifications' :
              /\ notifications' = notifications \cup {n}
              /\ n.at \in 1..clock
              /\ \A m \in notifications : m.at # n.at]_notifications
  BY Arrivals
<1> QED
  BY <1>1, Inductive, LedgerCorrect, PTL DEF Spec, NotificationsOnlyArrive
-----------------------------------------------------------------------------
(***************************************************************************)
(* Tenants.  Every name a row carries was checked against the tenant of    *)
(* the incident when its request loaded it; the tenant of an account and   *)
(* the submitter of an incident never change after that.                   *)
(***************************************************************************)
\* A request that moves an incident was admitted by its role.
AdmittedRole ==
    \A q \in Request : pc[q] \notin {"idle", "done"} => asRole[q] \in Permitted(call[q].kind)

\* It has loaded the incident, which is one of the caller's tenant; a new
\* assignee has been checked to be of that tenant too.
SameTenant ==
    /\ \A q \in Request :
        /\ pc[q] = "load" => call[q].kind \in {"transition", "reassign"}
        /\ pc[q] \in {"classify", "target", "update", "flush", "commit", "log"} =>
            /\ call[q].kind \in {"transition", "reassign"}
            /\ status[call[q].incident] # "unfiled"
            /\ TenantOf[call[q].actor] = TenantOfIncident(call[q].incident)
        /\ pc[q] \in {"flush", "commit"} /\ call[q].kind = "reassign" =>
            TenantOf[call[q].target] = TenantOfIncident(call[q].incident)
    /\ \A i \in Incident : status[i] = "unfiled" => assignee[i] = NoUser
    /\ \A n \in notifications : status[n.incident] # "unfiled"
    /\ TenantIsolation

\* Nobody gets past the role check later on.
LEMMA AdmittedStep ==
    ASSUME TypeOK, AdmittedRole, [Next]_vars
    PROVE  AdmittedRole'
<1>1. CASE \A p \in Request : Still(p)
  BY <1>1 DEF AdmittedRole, Still
<1>2. ASSUME NEW q \in Request, Handle(q) \/ Fail(q), \A p \in Request \ {q} : Still(p)
      PROVE  AdmittedRole'
  <2>1. UNCHANGED <<call, asRole>> /\ pc[q] \notin {"idle", "done"}
    BY <1>2, HandleKeeps, HandleLeads
  <2> QED
    BY <1>2, <2>1 DEF AdmittedRole, Still
<1>3. ASSUME NEW q \in Request, NEW c \in Calls, Accept(q, c),
             \A p \in Request \ {q} : Still(p)
      PROVE  AdmittedRole'
  <2>1. pc'[q] \notin {"idle", "done"} => asRole'[q] \in Permitted(c.kind)
    BY <1>3 DEF Accept, Goto, Respond, TypeOK
  <2>2. call'[q] = c
    BY <1>3 DEF Accept, TypeOK
  <2> QED
    BY <1>3, <2>1, <2>2 DEF AdmittedRole, Still
<1> QED
  BY <1>1, <1>2, <1>3, WhoseStep

\* What SameTenant says of one request.
OfOneTenant(q) ==
    /\ pc[q] = "load" => call[q].kind \in {"transition", "reassign"}
    /\ pc[q] \in {"classify", "target", "update", "flush", "commit", "log"} =>
        /\ call[q].kind \in {"transition", "reassign"}
        /\ status[call[q].incident] # "unfiled"
        /\ TenantOf[call[q].actor] = TenantOfIncident(call[q].incident)
    /\ pc[q] \in {"flush", "commit"} /\ call[q].kind = "reassign" =>
        TenantOf[call[q].target] = TenantOfIncident(call[q].incident)

\* A request that stands still keeps what it has checked, whoever else moves.
LEMMA TenantStays ==
    ASSUME IInv, [Next]_vars, NEW q \in Request, OfOneTenant(q), Still(q)
    PROVE  OfOneTenant(q)'
<1>1. call[q].incident \in Incident
  BY CallFacts DEF IInv
<1>2. status[call[q].incident] # "unfiled" =>
        /\ status'[call[q].incident] # "unfiled"
        /\ submitter'[call[q].incident] = submitter[call[q].incident]
  BY <1>1, SubmitterStays
<1>3. pc[q] \in {"flush", "commit"} => status[call[q].incident] # "unfiled"
  BY DEF OfOneTenant
<1> QED
  BY <1>2, <1>3 DEF OfOneTenant, Still, TenantOfIncident

\* What a request checks on its way to the commit.
LEMMA TenantChecked ==
    ASSUME IInv, AdmittedRole, [Next]_vars, NEW q \in Request, OfOneTenant(q),
           Handle(q) \/ Fail(q)
    PROVE  OfOneTenant(q)'
<1> USE DEF Goto, Respond
<1>0. TypeOK /\ call[q].incident \in Incident /\ pc \in [Request -> PCs]
  BY CallFacts DEF IInv, TypeOK
<1>1. UNCHANGED call
  BY HandleKeeps
<1>2. status[call[q].incident] # "unfiled" =>
        /\ status'[call[q].incident] # "unfiled"
        /\ submitter'[call[q].incident] = submitter[call[q].incident]
  BY <1>0, SubmitterStays
<1>3. CASE pc'[q] \in {"category", "final", "respond", "done", "reread", "reclassify", "idle"}
  BY <1>3 DEF OfOneTenant
<1>4. CASE ReadIncident(q) /\ pc'[q] = "classify"
  <2>1. /\ pc[q] = "load"
        /\ status[call[q].incident] # "unfiled"
        /\ call[q].kind = "create" \/ Visible(q, call[q].incident)
    BY <1>0, <1>4 DEF ReadIncident, AfterLoad
  <2>2. call[q].kind \in {"transition", "reassign"}
    BY <2>1 DEF OfOneTenant
  <2>3. asRole[q] # "system_admin"
    BY <2>1, <2>2 DEF AdmittedRole, Permitted
  <2>4. TenantOf[call[q].actor] = TenantOfIncident(call[q].incident)
    BY <2>1, <2>2, <2>3 DEF Visible
  <2> QED
    BY <1>1, <1>2, <1>4, <2>1, <2>2, <2>4 DEF OfOneTenant, TenantOfIncident
<1>5. CASE CheckTarget(q) /\ pc'[q] = "flush"
  <2>1. pc[q] = "target" /\ Eligible(q)
    BY <1>0, <1>5 DEF CheckTarget
  <2> QED
    BY <1>1, <1>2, <1>5, <2>1 DEF OfOneTenant, TenantOfIncident, Eligible
<1>6. CASE /\ pc[q] \in {"classify", "target", "update", "flush", "commit", "log"}
           /\ pc'[q] \in {"target", "update", "log"}
  BY <1>1, <1>2, <1>6 DEF OfOneTenant, TenantOfIncident
<1>7. CASE WinUpdate(q) \/ Flush(q)
  <2>1. pc[q] \in {"update", "flush"} /\ pc'[q] = "commit"
    BY <1>0, <1>7 DEF WinUpdate, Flush
  <2>2. pc[q] = "update" => call[q].kind = "transition"
    BY DEF IInv, EdgeIsSettled, Settled
  <2> QED
    BY <1>1, <1>2, <2>1, <2>2 DEF OfOneTenant, TenantOfIncident
<1> QED
  <2>1. \/ pc'[q] \in {"category", "final", "respond", "done", "reread", "reclassify", "idle"}
        \/ ReadIncident(q) /\ pc'[q] = "classify"
        \/ CheckTarget(q) /\ pc'[q] = "flush"
        \/ WinUpdate(q) \/ Flush(q)
        \/ /\ pc[q] \in {"classify", "target", "update", "flush", "commit", "log"}
           /\ pc'[q] \in {"target", "update", "log"}
    BY <1>0 DEF Handle, RefuseCategory, File, ReadIncident, AfterLoad, Replay, Classify,
        ClassifyReassign, LoseUpdate, Reclassify, CommitTransition, CheckTarget, CommitReassign,
        Log, Finish, Fail
  <2> QED
    BY <1>3, <1>4, <1>5, <1>6, <1>7, <2>1

\* Nobody's name gets into an incident of another tenant.
LEMMA TenantStep ==
    ASSUME IInv, AdmittedRole, SameTenant, [Next]_vars
    PROVE  SameTenant'
<1>0. /\ TypeOK
      /\ \A q \in Request : OfOneTenant(q) /\ call[q].incident \in Incident
  BY CallFacts DEF IInv, SameTenant, OfOneTenant
<1>1. ASSUME NEW q \in Request
      PROVE  OfOneTenant(q)'
  <2>1. CASE Still(q)
    BY <1>0, <2>1, TenantStays
  <2>2. CASE Handle(q) \/ Fail(q)
    BY <1>0, <2>2, TenantChecked
  <2>3. ASSUME NEW c \in Calls, Accept(q, c)
        PROVE  OfOneTenant(q)'
    <3>1. c.kind \in Kind /\ call'[q] = c
      BY <1>0, <2>3, ConstantsAssumption DEF Accept, TypeOK, Call
    <3>2. /\ pc'[q] \in {"category", "final", "load", "done"}
          /\ pc'[q] = "load" => c.kind \in {"transition", "reassign"}
      BY <1>0, <2>3, <3>1 DEF Accept, FirstStep, Goto, Respond, TypeOK, Kind
    <3> QED
      BY <3>1, <3>2 DEF OfOneTenant
  <2> QED
    BY <1>0, <2>1, <2>2, <2>3, WhoseStep
<1>2. ASSUME NEW q \in Request, CommitTransition(q) \/ CommitReassign(q)
      PROVE  /\ call[q].incident \in Incident /\ status[call[q].incident] # "unfiled"
             /\ TenantOf[call[q].actor] = TenantOfIncident(call[q].incident)
             /\ TenantOf[Recipient(q)] = TenantOfIncident(call[q].incident)
             /\ call[q].kind = "reassign" =>
                    TenantOf[call[q].target] = TenantOfIncident(call[q].incident)
  <2>1. OfOneTenant(q) /\ pc[q] = "commit" /\ call[q].kind \in {"transition", "reassign"}
    BY <1>0, <1>2 DEF CommitTransition, CommitReassign
  <2> QED
    BY <1>0, <2>1 DEF OfOneTenant, Recipient, TenantOfIncident
<1>3. \A i \in Incident : status[i] # "unfiled" =>
        status'[i] # "unfiled" /\ submitter'[i] = submitter[i]
  BY SubmitterStays
<1>4. ASSUME NEW i \in Incident
      PROVE  /\ status'[i] = "unfiled" => assignee'[i] = NoUser
             /\ status'[i] # "unfiled" /\ assignee'[i] # NoUser =>
                    TenantOf[assignee'[i]] = TenantOfIncident(i)'
  <2>1. CASE UNCHANGED assignee
    BY <1>3, <2>1, RowsStep DEF SameTenant, TenantIsolation, TenantOfIncident
  <2>2. ASSUME NEW q \in Request, CommitTransition(q)
        PROVE  \/ assignee'[i] = assignee[i] /\ status'[i] # "unfiled"
               \/ assignee'[i] = assignee[i] /\ status'[i] = status[i]
               \/ i = call[q].incident /\ assignee'[i] = call[q].actor
    BY <1>0, <1>2, <1>3, <2>2 DEF CommitTransition, TypeOK
  <2>3. ASSUME NEW q \in Request, CommitReassign(q)
        PROVE  \/ assignee'[i] = assignee[i] /\ status'[i] = status[i]
               \/ i = call[q].incident /\ assignee'[i] = call[q].target
    BY <1>0, <2>3 DEF CommitReassign, TypeOK
  <2>4. \A q \in Request : CommitReassign(q) => call[q].kind = "reassign"
    BY DEF CommitReassign
  <2>5. UNCHANGED assignee \/ \E q \in Request : CommitTransition(q) \/ CommitReassign(q)
    BY DEF Next, Terminating, vars, Handle, RefuseCategory, File, ReadIncident, Replay, Classify,
        ClassifyReassign, WinUpdate, LoseUpdate, Reclassify, CheckTarget, Flush, Log, Finish,
        Fail, Accept, ChangeRole, ChangeStatus, rows
  <2>6. \/ assignee'[i] = assignee[i]
           /\ (status'[i] = "unfiled" => status[i] = "unfiled")
           /\ (status[i] = "unfiled" => assignee[i] = NoUser)
        \/ /\ status[i] # "unfiled"
           /\ TenantOf[assignee'[i]] = TenantOfIncident(i)
    BY <1>2, <1>3, <2>1, <2>2, <2>3, <2>4, <2>5 DEF SameTenant
  <2> QED
    BY <1>3, <2>6 DEF SameTenant, TenantIsolation, TenantOfIncident
<1>5. ASSUME NEW i \in Incident, NEW k \in DOMAIN timeline'[i]
      PROVE  TenantOf[timeline'[i][k].by] = TenantOfIncident(i)'
  <2>1. CASE k \in DOMAIN timeline[i] /\ timeline'[i][k] = timeline[i][k]
    <3>1. status[i] # "unfiled"
      BY <1>0, <2>1, RowMeansFiled DEF IInv
    <3> QED
      BY <1>3, <2>1, <3>1 DEF SameTenant, TenantIsolation, TenantOfIncident
  <2>2. ASSUME NEW q \in Request, CommitTransition(q),
               i = call[q].incident, timeline'[i][k] = RowOf(q)
        PROVE  TenantOf[timeline'[i][k].by] = TenantOfIncident(i)'
    BY <1>2, <1>3, <2>2 DEF RowOf, TenantOfIncident
  <2> QED
    BY <2>1, <2>2, Writers, NewRow
<1>6. ASSUME NEW n \in notifications'
      PROVE  /\ status'[n.incident] # "unfiled"
             /\ TenantOf[n.recipient] = TenantOfIncident(n.incident)'
  <2>1. CASE n \in notifications
    <3>1. n.incident \in Incident
      BY <1>0, <2>1 DEF TypeOK, Notification
    <3> QED
      BY <1>3, <2>1, <3>1 DEF SameTenant, TenantIsolation, TenantOfIncident
  <2>2. CASE n \notin notifications
    <3>1. PICK q \in Request : CommitTransition(q) \/ CommitReassign(q)
      BY <2>2, Writers
    <3>2. Deliver(q)
      BY <3>1 DEF CommitTransition, CommitReassign
    <3>3. n.incident = call[q].incident /\ n.recipient = Recipient(q)
      BY <2>2, <3>2, NewNotification
    <3> QED
      BY <1>2, <1>3, <3>1, <3>3 DEF TenantOfIncident
  <2> QED
    BY <2>1, <2>2
<1>7. TenantIsolation'
  BY <1>4, <1>5, <1>6 DEF TenantIsolation, TenantOfIncident
<1> QED
  BY <1>1, <1>4, <1>6, <1>7 DEF SameTenant, OfOneTenant

\* NFR-12: an incident, its timeline and its notifications name nobody of another
\* tenant, whatever the roles become while a request is under way.
THEOREM TenantCorrect == Spec => []TenantIsolation
<1>1. ASSUME Init
      PROVE  AdmittedRole /\ SameTenant
  <2>1. \A i \in Incident : DOMAIN timeline[i] = {} /\ assignee[i] = NoUser
    BY <1>1 DEF Init
  <2> QED
    BY <1>1, <2>1 DEF Init, AdmittedRole, SameTenant, TenantIsolation
<1>2. ASSUME IInv, AdmittedRole, SameTenant, [Next]_vars
      PROVE  AdmittedRole' /\ SameTenant'
  <2>1. TypeOK
    BY <1>2 DEF IInv
  <2> QED
    BY <1>2, <2>1, AdmittedStep, TenantStep
<1>3. IInv /\ (AdmittedRole /\ SameTenant) /\ [Next]_vars => (AdmittedRole /\ SameTenant)'
  BY <1>2
<1>4. AdmittedRole /\ SameTenant => TenantIsolation
  BY DEF SameTenant
<1> QED
  BY <1>1, <1>3, <1>4, Inductive, PTL DEF Spec

\* Request q has loaded an incident, under the visibility rule unless it filed it.
HasLoaded(q) ==
    /\ call[q].kind # "create"
    /\ \/ pc[q] \in {"classify", "target", "update", "flush", "commit", "log",
                     "reread", "reclassify", "respond"}
       \/ pc[q] = "final" /\ call[q].kind # "view"
       \/ answer[q] \in {"200", "409", "422"}

\* The incident is there, and was the caller's to see but for its assignee.
Belongs(q) ==
    /\ status[call[q].incident] # "unfiled"
    /\ asRole[q] = "system_admin" \/ TenantOf[call[q].actor] = TenantOfIncident(call[q].incident)

LoadedBelong == \A q \in Request : HasLoaded(q) => Belongs(q)

\* Filed incidents stay where they are.
LEMMA BelongsStays ==
    ASSUME IInv, [Next]_vars, NEW q \in Request, Belongs(q),
           UNCHANGED <<call[q], asRole[q]>>
    PROVE  Belongs(q)'
<1>1. call[q].incident \in Incident
  BY CallFacts DEF IInv
<1>2. /\ status'[call[q].incident] # "unfiled"
      /\ submitter'[call[q].incident] = submitter[call[q].incident]
  BY <1>1, SubmitterStays DEF Belongs
<1> QED
  BY <1>2 DEF Belongs, TenantOfIncident

\* The first SELECT of a request decides whether the incident is its to see.
LEMMA LoadedStep ==
    ASSUME IInv, Clocks, LoadedBelong, [Next]_vars
    PROVE  LoadedBelong'
<1> SUFFICES ASSUME NEW q \in Request, HasLoaded(q)'
             PROVE  Belongs(q)'
  BY DEF LoadedBelong
<1>0. TypeOK
  BY DEF IInv
<1>1. CASE Still(q)
  <2>1. HasLoaded(q)
    BY <1>1 DEF HasLoaded, Still
  <2> QED
    BY <1>1, <2>1, BelongsStays DEF LoadedBelong, Still
<1>2. CASE Handle(q) \/ Fail(q)
  <2>1. UNCHANGED <<call[q], asRole[q]>> /\ call[q].kind # "create"
    BY <1>2, HandleKeeps DEF HasLoaded
  <2>2. CASE Belongs(q)
    BY <2>1, <2>2, BelongsStays
  <2>3. CASE ~HasLoaded(q)
    <3>1. /\ pc[q] \in {"category", "load", "final"}
          /\ pc[q] = "category" => call[q].kind = "create"
          /\ answer[q] = "none"
      BY <1>0, <1>2, <2>1, <2>3, HandleLeads DEF HasLoaded, TypeOK, PCs, IInv, FreshIds, Clocks
    <3>2. ReadIncident(q) \/ Fail(q)
      BY <1>2, <2>1, <3>1 DEF Handle, RefuseCategory, File, Replay, Classify, ClassifyReassign,
         WinUpdate, LoseUpdate, Reclassify, CommitTransition, CheckTarget, Flush,
         CommitReassign, Log, Finish
    <3>3. answer'[q] \in {"404", "lost"} => pc'[q] = "done"
      BY <1>0, <1>2, <3>1, HandleLeads
    <3>4. ~Fail(q)
      BY <1>0, <3>3 DEF HasLoaded, Fail, Respond, TypeOK
    <3>5. status[call[q].incident] # "unfiled" /\ Visible(q, call[q].incident)
      BY <1>0, <2>1, <3>2, <3>3, <3>4 DEF HasLoaded, ReadIncident, Respond, TypeOK
    <3>6. Belongs(q)
      BY <3>5 DEF Belongs, Visible
    <3> QED
      BY <2>1, <3>6, BelongsStays
  <2> QED
    BY <2>2, <2>3 DEF LoadedBelong
<1>3. ASSUME NEW c \in Calls, Accept(q, c)
      PROVE  Belongs(q)'
  <2>1. c.kind \in Kind /\ call'[q] = c /\ answer[q] = "none"
    BY <1>0, <1>3, ConstantsAssumption DEF Accept, TypeOK, Call, Clocks
  <2>2. /\ pc'[q] \in {"category", "final", "load", "done"}
        /\ pc'[q] = "final" => c.kind = "view"
        /\ answer'[q] \in {"none", "403"}
    BY <1>0, <1>3, <2>1 DEF Accept, FirstStep, Goto, Respond, TypeOK, Kind
  <2> QED
    BY <2>1, <2>2 DEF HasLoaded
<1> QED
  BY <1>0, <1>1, <1>2, <1>3, WhoseStep

\* What get_incident let a request see stays in its sight, assignments apart.
THEOREM LoadedCorrect == Spec => [](AdmittedRole /\ LoadedBelong)
<1>1. Init => AdmittedRole /\ LoadedBelong
  BY DEF Init, AdmittedRole, LoadedBelong, HasLoaded
<1>2. IInv /\ (Clocks /\ Ledger) /\ (AdmittedRole /\ LoadedBelong) /\ [Next]_vars
        => (AdmittedRole /\ LoadedBelong)'
  BY AdmittedStep, LoadedStep DEF IInv
<1> QED
  BY <1>1, <1>2, Inductive, LedgerCorrect, PTL DEF Spec

\* NFR-12: no answer but 403 and 404 is about an incident of another tenant.
THEOREM NothingLearnt == Spec => []OutsidersLearnNothing
<1>1. LoadedBelong => OutsidersLearnNothing
  BY DEF LoadedBelong, HasLoaded, Belongs, OutsidersLearnNothing
<1> QED
  BY <1>1, LoadedCorrect, PTL

\* A request that was allowed to act on an incident loses sight of it only to another
\* assignee, however roles and statuses change meanwhile.
THEOREM HiddenCorrect == Spec => HiddenOnlyByAssignment
<1>1. ASSUME IInv, Clocks, AdmittedRole, LoadedBelong, [Next]_vars, NEW q \in Request,
             pc[q] \in {"reread", "final"}, call[q].kind \in {"transition", "reassign"},
             answer'[q] = "404"
      PROVE  /\ asRole[q] = "reviewer"
             /\ assignee[call[q].incident] \notin {call[q].actor, NoUser}
  <2>0. TypeOK
    BY <1>1 DEF IInv
  <2>1. Belongs(q)
    BY <1>1 DEF LoadedBelong, HasLoaded
  <2>2. asRole[q] \in {"reviewer", "tenant_admin"}
    BY <1>1 DEF AdmittedRole, Permitted
  <2>3. answer[q] = "none" /\ pc[q] \notin {"idle", "done"}
    BY <1>1, <2>0 DEF Clocks
  <2>4. Handle(q) \/ Fail(q)
    BY <1>1, <2>0, <2>3, WhoseStep DEF Still, Accept
  <2>5. ReadIncident(q)
    BY <1>1, <2>0, <2>4 DEF Handle, RefuseCategory, File, Replay, Classify, ClassifyReassign,
       WinUpdate, LoseUpdate, Reclassify, CommitTransition, CheckTarget, Flush,
       CommitReassign, Log, Finish, Fail, Respond, TypeOK
  <2>6. ~Visible(q, call[q].incident)
    BY <1>1, <2>0, <2>1, <2>3, <2>5 DEF ReadIncident, Goto, Belongs
  <2> QED
    BY <2>1, <2>2, <2>6 DEF Visible, Belongs
<1>2. IInv /\ (Clocks /\ Ledger) /\ (AdmittedRole /\ LoadedBelong) /\ [Next]_vars
        => [\A q \in Request :
              /\ pc[q] \in {"reread", "final"}
              /\ call[q].kind \in {"transition", "reassign"}
              /\ answer'[q] = "404"
              => /\ asRole[q] = "reviewer"
                 /\ assignee[call[q].incident] \notin {call[q].actor, NoUser}]_vars
  BY <1>1
<1> QED
  BY <1>2, Inductive, LedgerCorrect, LoadedCorrect, PTL DEF Spec, HiddenOnlyByAssignment
-----------------------------------------------------------------------------
(***************************************************************************)
(* What an answer is worth.  Statuses only advance, so what a request has  *)
(* seen, and what it has committed, is a lower bound for good.             *)
(***************************************************************************)
\* What request q knows of its incident's progress.
Behind(q) ==
    /\ Rank(seenStatus[q]) <= Rank(status[call[q].incident])
    /\ pc[q] \in {"log", "final", "respond"} /\ call[q].kind = "transition" =>
        Rank(call[q].to) <= Rank(status[call[q].incident])
    /\ pc[q] = "target" => seenRows[q] >= Rank(seenStatus[q]) - 1
    /\ answer[q] = "200" /\ call[q].kind = "transition" =>
        Rank(status[call[q].incident]) >= Rank(call[q].to)
    /\ answer[q] \in {"200", "201"} => seenRows[q] >= Rank(seenStatus[q]) - 1

\* An incident's rank grows, and its timeline with it.
LEMMA RankGrows ==
    ASSUME IInv, [Next]_vars, NEW i \in Incident
    PROVE  /\ Rank(status[i]) \in 0..3 /\ Rank(status'[i]) \in 0..3
           /\ Rank(status[i]) <= Rank(status'[i])
           /\ Len(timeline[i]) \in Nat
           /\ Len(timeline[i]) >= Rank(status[i]) - 1
<1>1. status[i] \in {"unfiled", "open", "in_review", "closed"} /\ timeline[i] \in Seq(Row)
  BY DEF IInv, TypeOK, Status
<1>2. \/ status'[i] = status[i]
      \/ status[i] = "unfiled" /\ status'[i] = "open"
      \/ status[i] = "open" /\ status'[i] = "in_review"
      \/ status[i] = "in_review" /\ status'[i] = "closed"
  BY RowsStep DEF Allowed
<1>3. Len(timeline[i]) = Len(Path(status[i])) - 1
  BY DEF IInv, TimelineIsPath
<1> QED
  BY <1>1, <1>2, <1>3 DEF Rank, Path

\* The ranks of what a request holds are ranks.
LEMMA RankType ==
    ASSUME TypeOK, NEW q \in Request
    PROVE  Rank(seenStatus[q]) \in 0..3 /\ Rank(call[q].to) \in 0..3 /\ seenRows[q] \in Nat
BY CallFacts DEF TypeOK, Rank, Status

\* A request that stands still still knows it.
LEMMA BehindStays ==
    ASSUME IInv, [Next]_vars, NEW q \in Request, Behind(q), Still(q)
    PROVE  Behind(q)'
<1>1. call[q].incident \in Incident /\ TypeOK
  BY CallFacts DEF IInv
<1>2. /\ Rank(status[call[q].incident]) \in 0..3 /\ Rank(status'[call[q].incident]) \in 0..3
      /\ Rank(status[call[q].incident]) <= Rank(status'[call[q].incident])
  BY <1>1, RankGrows
<1>3. /\ call'[q] = call[q] /\ seenStatus'[q] = seenStatus[q] /\ seenRows'[q] = seenRows[q]
      /\ pc'[q] = pc[q] /\ answer'[q] = answer[q]
  BY DEF Still
<1>4. Rank(seenStatus[q]) \in 0..3 /\ Rank(call[q].to) \in 0..3 /\ seenRows[q] \in Nat
  BY <1>1, RankType
<1>5. Rank(seenStatus[q])' = Rank(seenStatus[q]) /\ Rank(call[q].to)' = Rank(call[q].to)
  BY <1>3 DEF Rank
<1>6. Rank(status[call[q].incident])' = Rank(status'[call[q].incident])
  BY <1>3 DEF Rank
<1> QED
  BY <1>2, <1>3, <1>4, <1>5, <1>6 DEF Behind

\* Each of its own steps leaves it knowing no more than is the case.
LEMMA BehindOwnStep ==
    ASSUME IInv, Clocks, [Next]_vars, NEW q \in Request, Behind(q), Handle(q) \/ Fail(q)
    PROVE  Behind(q)'
<1> USE DEF Goto, Respond
<1> DEFINE i == call[q].incident
           before == Rank(status[i])
           after == Rank(status'[i])
           goal == Rank(call[q].to)
           saw == Rank(seenStatus[q])
           sees == Rank(seenStatus'[q])
<1>0. /\ TypeOK /\ pc \in [Request -> PCs] /\ answer \in [Request -> Answers]
      /\ seenStatus \in [Request -> Status \cup {"unfiled"}] /\ seenRows \in [Request -> Nat]
      /\ i \in Incident
  BY CallFacts DEF IInv, TypeOK
<1>1. /\ UNCHANGED call /\ pc[q] \notin {"idle", "done"} /\ answer[q] = "none"
  BY <1>0, HandleKeeps, HandleLeads DEF Clocks
<1>2. /\ before \in 0..3 /\ after \in 0..3 /\ before <= after
      /\ Len(timeline[i]) \in Nat /\ Len(timeline[i]) >= before - 1
  BY <1>0, RankGrows
<1>3. saw \in 0..3 /\ goal \in 0..3 /\ seenRows[q] \in Nat
  BY <1>0, RankType
<1>4. /\ saw <= before
      /\ pc[q] \in {"log", "final", "respond"} /\ call[q].kind = "transition" => goal <= before
      /\ pc[q] = "target" => seenRows[q] >= saw - 1
  BY DEF Behind
<1>5. SUFFICES /\ sees <= after
               /\ pc'[q] \in {"log", "final", "respond"} /\ call[q].kind = "transition" =>
                    goal <= after
               /\ pc'[q] = "target" => seenRows'[q] >= sees - 1
               /\ answer'[q] = "200" /\ call[q].kind = "transition" => after >= goal
               /\ answer'[q] \in {"200", "201"} => seenRows'[q] >= sees - 1
  <2>1. Rank(seenStatus[q])' = sees /\ Rank(status[i])' = after /\ Rank(call[q].to)' = goal
    BY <1>1 DEF Rank
  <2> HIDE DEF i, before, after, goal, saw, sees
  <2>2. (call[q].incident)' = i /\ (call[q].kind)' = call[q].kind
    BY <1>1 DEF i
  <2> QED
    BY <1>1, <2>1, <2>2 DEF Behind, i
<1>6. CASE ReadIncident(q)
  <2>1. CASE pc'[q] = "done"
    <3>1. seenStatus' = seenStatus /\ answer'[q] = "404"
      BY <1>0, <1>6, <2>1 DEF ReadIncident, AfterLoad
    <3> QED
      BY <1>2, <1>3, <1>4, <2>1, <3>1
  <2>2. CASE pc'[q] # "done"
    <3>1. /\ seenStatus'[q] = status[i] /\ answer'[q] = "none"
          /\ pc'[q] = "respond" => pc[q] = "final"
          /\ pc'[q] \in {"classify", "reclassify", "respond"}
      BY <1>0, <1>1, <1>6, <2>2 DEF ReadIncident, AfterLoad
    <3>2. sees = before
      BY <3>1
    <3> HIDE DEF before, after, goal, saw, sees
    <3> QED
      BY <1>2, <1>3, <1>4, <3>1, <3>2
  <2> QED
    BY <2>1, <2>2
<1>7. ASSUME seenStatus' = seenStatus
      PROVE  sees = saw
  BY <1>7
<1>8. CASE Replay(q) \/ Reclassify(q)
  <2>1. /\ seenStatus' = seenStatus /\ seenRows'[q] = Len(timeline[i])
        /\ answer'[q] \in {"200", "409"} /\ pc'[q] = "done"
        /\ answer'[q] = "200" => call[q].to = seenStatus[q]
    BY <1>0, <1>8 DEF Replay, Reclassify, ReadTimeline
  <2>2. answer'[q] = "200" => goal = saw
    BY <2>1
  <2> HIDE DEF before, after, goal, saw, sees
  <2> QED
    BY <1>2, <1>3, <1>4, <1>7, <2>1, <2>2
<1>9. CASE Classify(q) \/ ClassifyReassign(q)
  <2>1. /\ seenStatus' = seenStatus /\ seenRows'[q] = Len(timeline[i])
        /\ answer'[q] \in {"none", "409", "422"} /\ pc'[q] \in {"done", "update", "target"}
    BY <1>0, <1>1, <1>9 DEF Classify, ClassifyReassign, ReadTimeline
  <2> HIDE DEF before, after, goal, saw, sees
  <2> QED
    BY <1>2, <1>3, <1>4, <1>7, <2>1
<1>10. CASE CommitTransition(q)
  <2>1. /\ seenStatus' = seenStatus /\ status'[i] = call[q].to
        /\ answer'[q] = "none" /\ pc'[q] = "log"
    BY <1>0, <1>1, <1>10 DEF CommitTransition, seen, IInv, TypeOK
  <2>2. after = goal
    BY <2>1
  <2> HIDE DEF before, after, goal, saw, sees
  <2> QED
    BY <1>2, <1>3, <1>4, <1>7, <2>1, <2>2
<1>11. CASE CommitReassign(q) \/ File(q)
  <2>1. /\ seenStatus' = seenStatus /\ answer'[q] = "none"
        /\ call[q].kind \in {"reassign", "create"} /\ pc'[q] \in {"log", "final"}
    BY <1>0, <1>1, <1>11 DEF CommitReassign, File, seen, IInv, FreshIds
  <2> HIDE DEF before, after, goal, saw, sees
  <2> QED
    BY <1>2, <1>3, <1>4, <1>7, <2>1
<1>12. CASE CheckTarget(q)
  <2>1. /\ seenStatus' = seenStatus /\ seenRows' = seenRows /\ pc[q] = "target"
        /\ pc'[q] \in {"done", "flush"}
    BY <1>0, <1>12 DEF CheckTarget
  <2>2. call[q].kind = "reassign"
    BY <2>1 DEF IInv, EdgeIsSettled, Settled
  <2> HIDE DEF before, after, goal, saw, sees
  <2> QED
    BY <1>2, <1>3, <1>4, <1>7, <2>1, <2>2
<1>13. CASE Log(q) \/ Finish(q)
  <2>1. /\ seenStatus' = seenStatus /\ pc[q] \in {"log", "respond"}
        /\ pc'[q] \in {"done", "final"}
        /\ answer'[q] \in {"200", "201"} => seenRows'[q] = Len(timeline[i])
    BY <1>0, <1>1, <1>13 DEF Log, Finish, ReadTimeline, seen
  <2> HIDE DEF before, after, goal, saw, sees
  <2> QED
    BY <1>2, <1>3, <1>4, <1>7, <2>1
<1>14. CASE RefuseCategory(q) \/ WinUpdate(q) \/ LoseUpdate(q) \/ Flush(q) \/ Fail(q)
  <2>1. /\ seenStatus' = seenStatus /\ pc'[q] \in {"done", "commit", "reread"}
        /\ answer'[q] \in {"none", "422", "lost"}
    BY <1>0, <1>1, <1>14 DEF RefuseCategory, WinUpdate, LoseUpdate, Flush, Fail, seen
  <2> HIDE DEF before, after, goal, saw, sees
  <2> QED
    BY <1>2, <1>3, <1>4, <1>7, <2>1
<1> QED
  BY <1>6, <1>8, <1>9, <1>10, <1>11, <1>12, <1>13, <1>14 DEF Handle

\* No request ever knows more than is the case.
LEMMA BehindStep ==
    ASSUME IInv, Clocks, \A q \in Request : Behind(q), [Next]_vars, NEW p \in Request
    PROVE  Behind(p)'
<1>1. CASE Still(p)
  BY <1>1, BehindStays
<1>2. CASE Handle(p) \/ Fail(p)
  BY <1>2, BehindOwnStep
<1>3. ASSUME NEW c \in Calls, Accept(p, c)
      PROVE  Behind(p)'
  <2>1. TypeOK
    BY DEF IInv
  <2>2. /\ seenStatus'[p] = "unfiled" /\ call'[p] = c /\ UNCHANGED status
        /\ answer'[p] \in {"none", "403"}
        /\ pc'[p] \notin {"log", "respond", "target"}
        /\ pc'[p] = "final" => c.kind = "view"
    BY <1>3, <2>1 DEF Accept, FirstStep, Goto, Respond, Clocks, TypeOK, rows
  <2>3. c.incident \in Incident /\ status[c.incident] \in {"unfiled", "open", "in_review", "closed"}
    BY <2>1, ConstantsAssumption DEF TypeOK, Call, Status
  <2>4. Rank(seenStatus[p])' = 0
    BY <2>2 DEF Rank
  <2>5. Rank(status[call[p].incident])' \in 0..3
    BY <2>2, <2>3 DEF Rank
  <2> QED
    BY <2>2, <2>4, <2>5 DEF Behind
<1> QED
  BY <1>1, <1>2, <1>3, WhoseStep DEF IInv

\* The two properties of answers, in every reachable state.
THEOREM BehindCorrect == Spec => [](\A q \in Request : Behind(q))
<1>1. ASSUME Init
      PROVE  \A q \in Request : Behind(q)
  <2> SUFFICES ASSUME NEW q \in Request
               PROVE  Behind(q)
    OBVIOUS
  <2>1. IInv /\ TypeOK
    BY <1>1, InitInv DEF IInv
  <2>2. pc[q] = "idle" /\ answer[q] = "none" /\ seenStatus[q] = "unfiled"
    BY <1>1 DEF Init
  <2>3. status[call[q].incident] \in {"unfiled", "open", "in_review", "closed"}
    BY <2>1, CallFacts DEF TypeOK, Status
  <2>4. Rank(seenStatus[q]) = 0 /\ Rank(status[call[q].incident]) \in 0..3
    BY <2>2, <2>3 DEF Rank
  <2> QED
    BY <2>2, <2>4 DEF Behind
<1>2. IInv /\ (Clocks /\ Ledger) /\ (\A q \in Request : Behind(q)) /\ [Next]_vars
        => (\A q \in Request : Behind(q))'
  BY BehindStep
<1> QED
  BY <1>1, <1>2, Inductive, LedgerCorrect, PTL DEF Spec

\* A 200 to a transition is worth something: the requested state was reached.
THEOREM OkCorrect == Spec => []OkMeansReached
<1>1. (\A q \in Request : Behind(q)) => OkMeansReached
  BY DEF Behind, OkMeansReached
<1> QED
  BY <1>1, BehindCorrect, PTL

\* The timeline of a response lacks no step its status has taken.
THEOREM ResponseCorrect == Spec => []ResponseNotBehind
<1>1. (\A q \in Request : Behind(q)) => ResponseNotBehind
  BY DEF Behind, ResponseNotBehind
<1> QED
  BY <1>1, BehindCorrect, PTL
=============================================================================
