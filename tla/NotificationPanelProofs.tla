----------------------- MODULE NotificationPanelProofs -----------------------
(***************************************************************************)
(* Proofs about NotificationPanel, for any notifications, users, clients   *)
(* and calls.                                                              *)
(***************************************************************************)
EXTENDS NotificationPanel, FiniteSetTheorems, FunctionTheorems, TLAPS

\* Which kind of request is where.
KindFits(q) ==
    /\ pc[q] \in {"count", "page"} => call[q].kind = "list"
    /\ pc[q] = "badge" => call[q].kind = "badge"
    /\ pc[q] \in {"load", "update"} => call[q].kind = "mark"
    /\ pc[q] \in {"scan", "commit"} => call[q].kind = "dismiss"

\* Only a request that is done has an answer, and one that waits has done nothing.
Progress(q) ==
    /\ pc[q] # "done" => answer[q] = "none"
    /\ pc[q] = "idle" => flipped[q] = {} /\ shown[q] = {}

\* A dismissal has dealt with every row of its snapshot, or will: it has updated the
\* row and holds it, or found it read.
Covered(q) ==
    pc[q] \in {"scan", "commit"} =>
        /\ \A n \in snapshot[q] : n \in todo[q] \/ n \in flipped[q] \/ isRead[n]
        /\ \A n \in flipped[q] : lock[n] = q

\* What a client touches or is shown is its own.
Own(q) ==
    pc[q] # "idle" =>
        /\ \A n \in todo[q] \cup shown[q] : Recipient[n] = call[q].actor
        /\ pc[q] \in {"scan", "commit"} => \A n \in flipped[q] : Recipient[n] = call[q].actor
        /\ pc[q] = "update" => Recipient[call[q].note] = call[q].actor /\ call[q].note \in Note

\* Nobody can have read a row under an open UPDATE.
LockedIsUnread == \A n \in Note : lock[n] # NoClient => ~isRead[n]

\* The inductive strengthening of TypeOK and AnsweredMeansRead.
IInv ==
    /\ TypeOK
    /\ \A q \in Client : KindFits(q) /\ Progress(q) /\ Covered(q) /\ Own(q)
    /\ LockedIsUnread
    /\ AnsweredMeansRead

LEMMA CallFacts ==
    ASSUME NEW c \in Calls
    PROVE  /\ c.kind \in {"list", "badge", "mark", "dismiss"} /\ c.actor \in User
           /\ c.note \in Note /\ c.unread \in BOOLEAN /\ c.limit \in Nat \ {0}
BY ConstantsAssumption DEF Call

LEMMA InitIInv == Init => IInv
<1> SUFFICES ASSUME Init PROVE IInv
  OBVIOUS
<1>1. (CHOOSE c \in Calls : TRUE) \in Calls
  BY ConstantsAssumption
<1>2. TypeOK
  BY <1>1, ConstantsAssumption DEF Init, TypeOK, PCs, Answers
<1>3. \A q \in Client : KindFits(q) /\ Progress(q) /\ Covered(q) /\ Own(q)
  BY DEF Init, KindFits, Progress, Covered, Own
<1>4. LockedIsUnread /\ AnsweredMeansRead
  BY DEF Init, LockedIsUnread, AnsweredMeansRead
<1> QED BY <1>2, <1>3, <1>4 DEF IInv
-----------------------------------------------------------------------------
LEMMA BeginPreserves ==
    ASSUME IInv, NEW q \in Client, NEW c \in Calls, Begin(q, c)
    PROVE  IInv'
<1> USE DEF Begin, Goto, rows, walk, vars
<1>1. c \in Call /\ c.kind \in {"list", "badge", "mark", "dismiss"}
  BY ConstantsAssumption, CallFacts
<1>2. /\ FirstStep(c.kind) \in {"count", "badge", "load", "scan"}
      /\ FirstStep(c.kind) = "count" => c.kind = "list"
      /\ FirstStep(c.kind) = "badge" => c.kind = "badge"
      /\ FirstStep(c.kind) = "load" => c.kind = "mark"
      /\ FirstStep(c.kind) = "scan" <=> c.kind = "dismiss"
  BY <1>1 DEF FirstStep
<1>3. TypeOK'
  BY <1>1, <1>2 DEF IInv, TypeOK, PCs
<1>4. ASSUME NEW r \in Client PROVE (KindFits(r) /\ Progress(r) /\ Covered(r) /\ Own(r))'
  BY <1>1, <1>2 DEF IInv, TypeOK, KindFits, Progress, Covered, Own
<1>5. LockedIsUnread' /\ AnsweredMeansRead'
  BY <1>2 DEF IInv, TypeOK, LockedIsUnread, AnsweredMeansRead, Progress
<1> QED BY <1>3, <1>4, <1>5 DEF IInv

\* The list and the badge change nothing that is shared.
LEMMA ReadersPreserve ==
    ASSUME IInv, NEW q \in Client, CountRows(q) \/ ReadPage(q) \/ CountUnread(q)
    PROVE  IInv'
<1> USE DEF Goto, Respond, rows, walk
<1>1. UNCHANGED <<stored, stamp, isRead, lock, call, snapshot, earlier, todo, flipped>>
  BY DEF CountRows, ReadPage, CountUnread
<1>2. /\ \A r \in Client \ {q} : pc'[r] = pc[r] /\ answer'[r] = answer[r] /\ shown'[r] = shown[r]
      /\ pc[q] \in {"count", "page", "badge"} /\ pc'[q] \in {"count", "page", "done"}
      /\ pc'[q] # "done" => answer'[q] = answer[q] /\ call[q].kind = "list"
  BY DEF CountRows, ReadPage, CountUnread, IInv, TypeOK, KindFits
<1>3. call[q] \in Calls /\ call[q].limit \in Nat \ {0} /\ call[q].kind \notin {"mark", "dismiss"}
  BY CallFacts DEF CountRows, ReadPage, CountUnread, IInv, TypeOK, KindFits
<1>4. shown' \in [Client -> SUBSET Note] /\ \A n \in shown'[q] : Recipient[n] = call[q].actor
  <2>1. \A n \in shown[q] : Recipient[n] = call[q].actor
    BY <1>2 DEF IInv, Own
  <2>2. CASE ReadPage(q)
    <3> DEFINE page == PageOf(Listed(q), offset[q], call[q].limit)
    <3>1. page \subseteq Note /\ \A n \in page : Recipient[n] = call[q].actor
      BY DEF PageOf, Listed, Unread, Mine, IInv, TypeOK
    <3>2. shown' = [shown EXCEPT ![q] = @ \cup page]
      BY <2>2 DEF ReadPage
    <3> QED BY <2>1, <3>1, <3>2 DEF IInv, TypeOK
  <2>3. CASE CountRows(q) \/ CountUnread(q)
    BY <2>1, <2>3 DEF CountRows, CountUnread, IInv, TypeOK
  <2> QED BY <2>2, <2>3
<1>5. total' \in [Client -> Nat] /\ offset' \in [Client -> Nat]
  <2>1. Listed(q) \subseteq stored /\ Unread(q) \subseteq stored /\ IsFiniteSet(stored)
    BY DEF Listed, Unread, Mine, IInv, TypeOK
  <2>2. Cardinality(Listed(q)) \in Nat /\ Cardinality(Unread(q)) \in Nat
    BY <2>1, FS_Subset, FS_CardinalityType
  <2>3. total' \in [Client -> Nat]
    BY <2>2 DEF CountRows, ReadPage, CountUnread, IInv, TypeOK
  <2>4. offset' \in [Client -> Nat]
    BY <1>3 DEF CountRows, ReadPage, CountUnread, IInv, TypeOK
  <2> QED BY <2>3, <2>4
<1>6. TypeOK'
  BY <1>1, <1>2, <1>4, <1>5 DEF CountRows, ReadPage, CountUnread, IInv, TypeOK, PCs, Answers
<1>7. ASSUME NEW r \in Client PROVE (KindFits(r) /\ Progress(r) /\ Covered(r) /\ Own(r))'
  BY <1>1, <1>2, <1>4 DEF IInv, TypeOK, KindFits, Progress, Covered, Own
<1>8. LockedIsUnread' /\ AnsweredMeansRead'
  BY <1>1, <1>2, <1>3 DEF IInv, LockedIsUnread, AnsweredMeansRead
<1> QED BY <1>6, <1>7, <1>8 DEF IInv

LEMMA LoadPreserves ==
    ASSUME IInv, NEW q \in Client, Load(q)
    PROVE  IInv'
<1> USE DEF Load, Goto, Respond, rows, walk
<1>1. call[q].kind = "mark" /\ call[q].note \in Note /\ answer[q] = "none"
  BY CallFacts DEF IInv, TypeOK, KindFits, Progress
<1>2. pc'[q] = "update" => Recipient[call[q].note] = call[q].actor
  BY DEF Mine, IInv, TypeOK
<1>3. answer'[q] = "200" => isRead[call[q].note]
  BY <1>1 DEF IInv, TypeOK
<1>4. TypeOK'
  <2>1. pc' \in [Client -> PCs] /\ answer' \in [Client -> Answers]
    BY DEF IInv, TypeOK, PCs, Answers
  <2>2. \A r \in Client : pc[r] = "scan" \/ pc[r] = "commit" => pc'[r] = pc[r]
    BY DEF IInv, TypeOK
  <2> QED BY <2>1, <2>2, ConstantsAssumption DEF IInv, TypeOK
<1>5. ASSUME NEW r \in Client PROVE (KindFits(r) /\ Progress(r) /\ Covered(r) /\ Own(r))'
  BY <1>1, <1>2 DEF IInv, TypeOK, KindFits, Progress, Covered, Own
<1>6. LockedIsUnread' /\ AnsweredMeansRead'
  BY <1>1, <1>3 DEF IInv, TypeOK, LockedIsUnread, AnsweredMeansRead
<1> QED BY <1>4, <1>5, <1>6 DEF IInv

LEMMA MarkReadPreserves ==
    ASSUME IInv, NEW q \in Client, MarkRead(q)
    PROVE  IInv'
<1> USE DEF MarkRead, Goto, Respond, rows, walk
<1>1. call[q].kind = "mark" /\ call[q].note \in Note /\ answer[q] = "none"
  BY CallFacts DEF IInv, TypeOK, KindFits, Progress
<1>2. /\ isRead' \in [Note -> BOOLEAN] /\ isRead'[call[q].note]
      /\ \A n \in Note : isRead[n] => isRead'[n]
      /\ \A n \in Note : n # call[q].note => isRead'[n] = isRead[n]
  BY <1>1 DEF IInv, TypeOK
<1>3. TypeOK'
  BY <1>2 DEF IInv, TypeOK, PCs, Answers
<1>4. ASSUME NEW r \in Client PROVE (KindFits(r) /\ Progress(r) /\ Covered(r) /\ Own(r))'
  BY <1>1, <1>2 DEF IInv, TypeOK, KindFits, Progress, Covered, Own
<1>5. LockedIsUnread'
  BY <1>2 DEF IInv, TypeOK, LockedIsUnread
<1>6. ASSUME NEW r \in Client, answer'[r] = "200"
      PROVE  /\ call[r].kind = "mark" => isRead'[call[r].note]
             /\ call[r].kind = "dismiss" => \A n \in snapshot[r] : isRead'[n]
  <2>1. call[r].note \in Note /\ snapshot[r] \subseteq Note
    BY CallFacts DEF IInv, TypeOK
  <2>2. CASE r = q
    BY <1>1, <1>2, <2>2
  <2>3. CASE r # q
    <3>1. answer[r] = "200"
      BY <1>6, <2>3 DEF IInv, TypeOK
    <3> QED BY <1>2, <2>1, <3>1 DEF IInv, AnsweredMeansRead
  <2> QED BY <2>2, <2>3
<1>7. AnsweredMeansRead'
  BY <1>6 DEF AnsweredMeansRead
<1> QED BY <1>3, <1>4, <1>5, <1>7 DEF IInv

LEMMA VisitPreserves ==
    ASSUME IInv, NEW q \in Client, NEW n \in Note, Visit(q, n)
    PROVE  IInv'
<1> USE DEF Visit, Goto, Respond, rows, walk
<1>1. pc[q] = "scan" /\ n \in todo[q] /\ lock[n] = NoClient /\ NoClient \notin Client
      /\ todo' = [todo EXCEPT ![q] = @ \ {n}]
      /\ UNCHANGED <<stored, stamp, isRead, call, snapshot, earlier, offset, shown, total, answer>>
      /\ pc' = pc
  BY ConstantsAssumption DEF IInv, TypeOK
<1>2. CASE isRead[n]
  <2>1. UNCHANGED <<lock, flipped>>
    BY <1>2
  <2>2. TypeOK'
    BY <1>1, <2>1 DEF IInv, TypeOK
  <2>3. ASSUME NEW r \in Client PROVE (KindFits(r) /\ Progress(r) /\ Covered(r) /\ Own(r))'
    BY <1>1, <1>2, <2>1 DEF IInv, TypeOK, KindFits, Progress, Covered, Own
  <2>4. LockedIsUnread' /\ AnsweredMeansRead'
    BY <1>1, <2>1 DEF IInv, LockedIsUnread, AnsweredMeansRead
  <2> QED BY <2>2, <2>3, <2>4 DEF IInv
<1>3. CASE ~isRead[n]
  <2>1. lock' = [lock EXCEPT ![n] = q] /\ flipped' = [flipped EXCEPT ![q] = @ \cup {n}]
    BY <1>3
  <2>2. TypeOK'
    BY <1>1, <2>1 DEF IInv, TypeOK
  <2>3. ASSUME NEW r \in Client PROVE (KindFits(r) /\ Progress(r) /\ Covered(r) /\ Own(r))'
    BY <1>1, <2>1 DEF IInv, TypeOK, KindFits, Progress, Covered, Own
  <2>4. LockedIsUnread' /\ AnsweredMeansRead'
    BY <1>1, <1>3, <2>1 DEF IInv, TypeOK, LockedIsUnread, AnsweredMeansRead
  <2> QED BY <2>2, <2>3, <2>4 DEF IInv
<1> QED BY <1>2, <1>3

LEMMA ScanEndsPreserves ==
    ASSUME IInv, NEW q \in Client, ScanEnds(q)
    PROVE  IInv'
<1> USE DEF ScanEnds, Goto, rows, walk
<1>1. TypeOK'
  BY DEF IInv, TypeOK, PCs
<1>2. ASSUME NEW r \in Client PROVE (KindFits(r) /\ Progress(r) /\ Covered(r) /\ Own(r))'
  BY DEF IInv, TypeOK, KindFits, Progress, Covered, Own
<1>3. LockedIsUnread' /\ AnsweredMeansRead'
  BY DEF IInv, TypeOK, LockedIsUnread, AnsweredMeansRead
<1> QED BY <1>1, <1>2, <1>3 DEF IInv

\* What an open dismissal has updated, it holds.
LEMMA CommitDismissPreserves ==
    ASSUME IInv, NEW q \in Client, CommitDismiss(q)
    PROVE  IInv'
<1> USE DEF CommitDismiss, Respond, rows, walk
<1>1. /\ call[q].kind = "dismiss" /\ todo[q] = {} /\ NoClient \notin Client
      /\ flipped[q] \subseteq Note /\ pc[q] = "commit"
      /\ \A n \in snapshot[q] : n \in flipped[q] \/ isRead[n]
      /\ \A n \in flipped[q] : lock[n] = q
  BY ConstantsAssumption DEF IInv, TypeOK, KindFits, Covered
<1>2. /\ isRead' = [n \in Note |-> isRead[n] \/ n \in flipped[q]]
      /\ lock' = [n \in Note |-> IF lock[n] = q THEN NoClient ELSE lock[n]]
      /\ UNCHANGED <<stored, stamp, call, snapshot, todo, flipped, earlier, offset, shown>>
      /\ total' = [total EXCEPT ![q] = 0]
      /\ pc' = [pc EXCEPT ![q] = "done"] /\ answer' = [answer EXCEPT ![q] = "200"]
  BY DEF Released
<1> HIDE DEF CommitDismiss, Respond
<1>3. \A n \in Note : isRead[n] => isRead'[n]
  BY <1>2
<1>4. isRead' \in [Note -> BOOLEAN] /\ \A n \in snapshot[q] : isRead'[n]
  BY <1>1, <1>2 DEF IInv, TypeOK
<1>5. TypeOK'
  BY <1>1, <1>2, <1>4 DEF IInv, TypeOK, PCs, Answers
<1>6. ASSUME NEW r \in Client PROVE (KindFits(r) /\ Progress(r) /\ Covered(r) /\ Own(r))'
  <2>1. KindFits(r)' /\ Progress(r)' /\ Own(r)'
    BY <1>1, <1>2 DEF IInv, TypeOK, KindFits, Progress, Own
  <2>2. Covered(r)'
    BY <1>1, <1>2, <1>3 DEF IInv, TypeOK, Covered
  <2> QED BY <2>1, <2>2
<1>7. LockedIsUnread'
  BY <1>1, <1>2 DEF IInv, TypeOK, LockedIsUnread
<1>8. ASSUME NEW r \in Client, answer'[r] = "200"
      PROVE  /\ call[r].kind = "mark" => isRead'[call[r].note]
             /\ call[r].kind = "dismiss" => \A n \in snapshot[r] : isRead'[n]
  <2>1. call[r].note \in Note /\ snapshot[r] \subseteq Note
    BY CallFacts DEF IInv, TypeOK
  <2>2. CASE r = q
    BY <1>1, <1>4, <2>2
  <2>3. CASE r # q
    <3>1. answer[r] = "200"
      BY <1>2, <1>8, <2>3 DEF IInv, TypeOK
    <3> QED BY <1>3, <2>1, <3>1 DEF IInv, AnsweredMeansRead
  <2> QED BY <2>2, <2>3
<1>9. AnsweredMeansRead'
  BY <1>2, <1>8 DEF AnsweredMeansRead
<1> QED BY <1>5, <1>6, <1>7, <1>9 DEF IInv

\* A deadlock's victim and a request that dies leave nothing behind.
LEMMA AbortPreserves ==
    ASSUME IInv, NEW q \in Client, NEW code \in {"500", "lost"}, Abort(q, code),
           pc[q] \notin {"idle", "done"}
    PROVE  IInv'
<1>1. NoClient \notin Client
  BY ConstantsAssumption
<1>2. /\ lock' = [n \in Note |-> IF lock[n] = q THEN NoClient ELSE lock[n]]
      /\ flipped' = [flipped EXCEPT ![q] = {}] /\ todo' = [todo EXCEPT ![q] = {}]
      /\ pc' = [pc EXCEPT ![q] = "done"] /\ answer' = [answer EXCEPT ![q] = code]
      /\ UNCHANGED <<stored, stamp, isRead, call, snapshot, earlier, offset, shown, total>>
  BY DEF Abort, Respond, Released, rows, walk
<1>3. TypeOK'
  BY <1>1, <1>2 DEF IInv, TypeOK, PCs, Answers
<1>4. ASSUME NEW r \in Client PROVE (KindFits(r) /\ Progress(r) /\ Covered(r) /\ Own(r))'
  BY <1>1, <1>2 DEF IInv, TypeOK, KindFits, Progress, Covered, Own
<1>5. LockedIsUnread' /\ AnsweredMeansRead'
  BY <1>2 DEF IInv, TypeOK, LockedIsUnread, AnsweredMeansRead
<1> QED BY <1>3, <1>4, <1>5 DEF IInv

LEMMA ArrivePreserves ==
    ASSUME IInv, NEW n \in Note, Arrive(n)
    PROVE  IInv'
<1>1. PICK t \in 0..MaxStamp : stamp' = [stamp EXCEPT ![n] = t]
  BY DEF Arrive
<1>2. /\ stored' = stored \cup {n}
      /\ UNCHANGED <<isRead, lock, pc, call, snapshot, todo, flipped, walk, answer>>
  BY DEF Arrive
<1>3. IsFiniteSet(stored')
  BY <1>2, FS_AddElement DEF IInv, TypeOK
<1>4. TypeOK'
  BY <1>1, <1>2, <1>3 DEF IInv, TypeOK, walk
<1>5. ASSUME NEW r \in Client PROVE (KindFits(r) /\ Progress(r) /\ Covered(r) /\ Own(r))'
  BY <1>2 DEF IInv, TypeOK, KindFits, Progress, Covered, Own, walk
<1>6. LockedIsUnread' /\ AnsweredMeansRead'
  BY <1>2 DEF IInv, LockedIsUnread, AnsweredMeansRead
<1> QED BY <1>4, <1>5, <1>6 DEF IInv

\* No step leaves the strengthened invariant.
LEMMA StepIInv == IInv /\ [Next]_vars => IInv'
<1> SUFFICES ASSUME IInv, [Next]_vars PROVE IInv'
  OBVIOUS
<1>1. ASSUME NEW q \in Client, Handle(q) PROVE IInv'
  <2>1. CASE CountRows(q) \/ ReadPage(q) \/ CountUnread(q)
    BY <2>1, ReadersPreserve
  <2>2. CASE Load(q)
    BY <2>2, LoadPreserves
  <2>3. CASE MarkRead(q)
    BY <2>3, MarkReadPreserves
  <2>4. ASSUME NEW n \in Note, Visit(q, n) PROVE IInv'
    BY <2>4, VisitPreserves
  <2>5. CASE ScanEnds(q)
    BY <2>5, ScanEndsPreserves
  <2>6. CASE CommitDismiss(q)
    BY <2>6, CommitDismissPreserves
  <2>7. CASE Deadlock(q)
    <3>1. Abort(q, "500") /\ pc[q] = "scan"
      BY <2>7 DEF Deadlock
    <3> QED BY <3>1, AbortPreserves
  <2> QED BY <1>1, <2>1, <2>2, <2>3, <2>4, <2>5, <2>6, <2>7 DEF Handle
<1>2. ASSUME NEW q \in Client, Fail(q) PROVE IInv'
  <2>1. Abort(q, "lost") /\ pc[q] \notin {"idle", "done"}
    BY <1>2 DEF Fail
  <2> QED BY <2>1, AbortPreserves
<1>3. ASSUME NEW q \in Client, NEW c \in Calls, Begin(q, c) PROVE IInv'
  BY <1>3, BeginPreserves
<1>4. ASSUME NEW n \in Note, Arrive(n) PROVE IInv'
  BY <1>4, ArrivePreserves
<1>5. CASE UNCHANGED vars
  <2>1. TypeOK'
    BY <1>5 DEF IInv, TypeOK, vars, rows, walk
  <2>2. ASSUME NEW r \in Client PROVE (KindFits(r) /\ Progress(r) /\ Covered(r) /\ Own(r))'
    BY <1>5 DEF IInv, KindFits, Progress, Covered, Own, vars, rows, walk
  <2>3. LockedIsUnread' /\ AnsweredMeansRead'
    BY <1>5 DEF IInv, LockedIsUnread, AnsweredMeansRead, vars, rows, walk
  <2> QED BY <2>1, <2>2, <2>3 DEF IInv
<1> QED BY <1>1, <1>2, <1>3, <1>4, <1>5 DEF Next, Terminating
-----------------------------------------------------------------------------
\* Type correctness, and the discipline of row locks.
THEOREM TypeCorrect == Spec => []TypeOK
<1>1. IInv => TypeOK
  BY DEF IInv
<1> QED BY <1>1, InitIInv, StepIInv, PTL DEF Spec

\* Whoever was answered 200 to a mark or a dismissal has nothing unread that the
\* request could have meant, however many others scan the same rows.
THEOREM ReadForGood == Spec => []AnsweredMeansRead
<1>1. IInv => AnsweredMeansRead
  BY DEF IInv
<1> QED BY <1>1, InitIInv, StepIInv, PTL DEF Spec

\* marked_read never counts a notification that another request made read.
THEOREM CountsAreReal == Spec => FlipsAreReal
<1>1. ASSUME IInv, [Next]_vars, NEW q \in Client, pc[q] = "commit", answer'[q] = "200",
             NEW n \in flipped[q]
      PROVE  ~isRead[n] /\ isRead'[n]
  <2>1. /\ n \in Note /\ lock[n] = q /\ q # NoClient /\ answer[q] = "none"
        /\ flipped[q] \subseteq Note
    BY <1>1, ConstantsAssumption DEF IInv, TypeOK, Covered, Progress
  <2>2. ~isRead[n]
    BY <1>1, <2>1 DEF IInv, LockedIsUnread
  <2>3. CommitDismiss(q)
    <3>1. ASSUME NEW r \in Client, Handle(r), ~CommitDismiss(q) PROVE answer'[q] # "200"
      BY <1>1, <2>1, <3>1
      DEF Handle, CountRows, ReadPage, CountUnread, Load, MarkRead, Visit, ScanEnds,
          CommitDismiss, Deadlock, Abort, Goto, Respond, IInv, TypeOK
    <3>2. ASSUME NEW r \in Client, Fail(r) \/ \E c \in Calls : Begin(r, c)
          PROVE  answer'[q] # "200"
      BY <1>1, <2>1, <3>2 DEF Fail, Begin, Abort, Goto, Respond, IInv, TypeOK
    <3>3. ASSUME (\E m \in Note : Arrive(m)) \/ Terminating \/ UNCHANGED vars
          PROVE  answer'[q] # "200"
      BY <1>1, <2>1, <3>3 DEF Arrive, Terminating, vars
    <3> QED BY <1>1, <3>1, <3>2, <3>3 DEF Next
  <2>4. isRead' = [m \in Note |-> isRead[m] \/ m \in flipped[q]]
    BY <2>3 DEF CommitDismiss
  <2> QED BY <2>1, <2>2, <2>4
<1>2. IInv /\ [Next]_vars =>
      (\A q \in Client : pc[q] = "commit" /\ answer'[q] = "200" =>
          \A n \in flipped[q] : ~isRead[n] /\ isRead'[n])
  BY <1>1
<1> QED BY <1>2, InitIInv, StepIInv, PTL DEF Spec, FlipsAreReal

\* A dismissal waits only for another one of the same user.
THEOREM WaitsCorrect == Spec => []WaitsArePersonal
<1>1. ASSUME IInv, NEW q \in Client, NEW r \in Client, WaitsFor[<<q, r>>]
      PROVE  /\ call[q].actor = call[r].actor
             /\ call[q].kind = "dismiss" /\ call[r].kind = "dismiss"
  <2>1. PICK n \in todo[q] : pc[q] = "scan" /\ lock[n] = r
    BY <1>1 DEF WaitsFor
  <2>2. n \in Note /\ pc[r] \in {"scan", "commit"} /\ n \in flipped[r]
    BY <1>1, <2>1, ConstantsAssumption DEF IInv, TypeOK
  <2>3. Recipient[n] = call[q].actor /\ Recipient[n] = call[r].actor
    BY <1>1, <2>1, <2>2 DEF IInv, Own
  <2> QED
    BY <1>1, <2>1, <2>2, <2>3 DEF IInv, KindFits
<1>2. IInv => WaitsArePersonal
  BY <1>1 DEF WaitsArePersonal
<1> QED
  BY <1>2, InitIInv, StepIInv, PTL DEF Spec

\* Only the recipient's own requests change is_read, only to true, and nobody is
\* shown a notification of somebody else.
THEOREM PersonalForGood == Spec => OnlyTheRecipient
<1> DEFINE Personal ==
              /\ \A n \in Note : isRead'[n] # isRead[n] =>
                    /\ isRead'[n]
                    /\ \E q \in Client : /\ answer'[q] # answer[q]
                                         /\ call[q].actor = Recipient[n]
              /\ \A q \in Client : \A n \in shown'[q] : Recipient[n] = call[q].actor
<1>1. IInv /\ [Next]_vars => Personal
  <2> SUFFICES ASSUME IInv, [Next]_vars PROVE Personal
    OBVIOUS
  <2>1. \A q \in Client : \A n \in shown[q] : Recipient[n] = call[q].actor
    BY DEF IInv, Own, Progress
  <2>2. ASSUME UNCHANGED <<isRead, shown>> PROVE Personal
    BY <2>1, <2>2
  <2>3. ASSUME NEW q \in Client, CountRows(q) \/ ReadPage(q) \/ CountUnread(q) PROVE Personal
    <3>1. UNCHANGED <<isRead, call>>
      BY <2>3 DEF CountRows, ReadPage, CountUnread, rows
    <3>2. IInv'
      BY StepIInv
    <3>3. \A r \in Client : \A n \in shown'[r] : Recipient[n] = call[r].actor
      BY <3>1, <3>2 DEF IInv, Own, Progress
    <3> QED BY <3>1, <3>3
  <2>4. ASSUME NEW q \in Client, MarkRead(q) PROVE Personal
    <3>1. /\ isRead' = [isRead EXCEPT ![call[q].note] = TRUE] /\ UNCHANGED shown
          /\ Recipient[call[q].note] = call[q].actor /\ call[q].note \in Note
          /\ answer'[q] # answer[q]
      BY <2>4 DEF MarkRead, Respond, walk, IInv, TypeOK, Own, Progress
    <3> QED BY <2>1, <3>1 DEF IInv, TypeOK
  <2>5. ASSUME NEW q \in Client, CommitDismiss(q) PROVE Personal
    <3>1. /\ isRead' = [n \in Note |-> isRead[n] \/ n \in flipped[q]] /\ UNCHANGED shown
          /\ \A n \in flipped[q] : Recipient[n] = call[q].actor
          /\ answer'[q] # answer[q]
      BY <2>5 DEF CommitDismiss, Respond, IInv, TypeOK, Own, Progress
    <3>2. \A n \in Note : isRead'[n] # isRead[n] => isRead'[n] /\ n \in flipped[q]
      BY <3>1 DEF IInv, TypeOK
    <3> QED BY <2>1, <3>1, <3>2
  <2>6. ASSUME NEW q \in Client,
               \/ Load(q) \/ (\E n \in Note : Visit(q, n)) \/ ScanEnds(q) \/ Deadlock(q)
               \/ Fail(q) \/ \E c \in Calls : Begin(q, c)
        PROVE  Personal
    BY <2>2, <2>6 DEF Load, Visit, ScanEnds, Deadlock, Fail, Begin, Abort, rows, walk
  <2>7. ASSUME (\E n \in Note : Arrive(n)) \/ Terminating \/ UNCHANGED vars PROVE Personal
    BY <2>2, <2>7 DEF Arrive, Terminating, vars, rows, walk
  <2> HIDE DEF Personal
  <2> QED BY <2>3, <2>4, <2>5, <2>6, <2>7 DEF Next, Handle
<1> QED BY <1>1, InitIInv, StepIInv, PTL DEF Spec, OnlyTheRecipient
-----------------------------------------------------------------------------
\* The place of n in the order of S.
Rank(S, n) == Cardinality({m \in S : Before(m, n)})

LEMMA BeforeIsTotal ==
    ASSUME TypeOK, NEW m \in Note, NEW n \in Note
    PROVE  /\ ~Before(n, n)
           /\ m # n => Before(m, n) \/ Before(n, m)
           /\ \A x \in Note : Before(x, m) /\ Before(m, n) => Before(x, n)
<1>1. m \in Nat /\ n \in Nat /\ \A x \in Note : x \in Nat
  BY ConstantsAssumption
<1>2. stamp[m] \in Nat /\ stamp[n] \in Nat /\ \A x \in Note : stamp[x] \in Nat
  BY ConstantsAssumption DEF TypeOK
<1> QED BY <1>1, <1>2 DEF Before

LEMMA RankGrows ==
    ASSUME TypeOK, NEW S \in SUBSET Note, IsFiniteSet(S), NEW m \in S, NEW n \in S,
           Before(m, n)
    PROVE  Rank(S, m) < Rank(S, n)
<1> DEFINE A == {x \in S : Before(x, m)}
           B == {x \in S : Before(x, n)}
<1>1. m \in B /\ A \subseteq B \ {m}
  BY BeforeIsTotal
<1>2. IsFiniteSet(B) /\ Cardinality(B) \in Nat
  BY FS_Subset, FS_CardinalityType
<1>3. IsFiniteSet(B \ {m}) /\ Cardinality(B \ {m}) = Cardinality(B) - 1
  BY <1>1, <1>2, FS_RemoveElement
<1>4. IsFiniteSet(A) /\ Cardinality(A) <= Cardinality(B \ {m}) /\ Cardinality(A) \in Nat
  BY <1>1, <1>3, FS_Subset, FS_CardinalityType
<1> QED BY <1>2, <1>3, <1>4 DEF Rank

\* Ranks number the rows: a page that ends before some row is full.
LEMMA FullPage ==
    ASSUME TypeOK, NEW S \in SUBSET Note, IsFiniteSet(S),
           NEW off \in Nat, NEW limit \in Nat \ {0},
           NEW n \in S, off + limit <= Rank(S, n)
    PROVE  Cardinality(PageOf(S, off, limit)) = limit
<1> DEFINE size == Cardinality(S)
           r == [m \in S |-> Rank(S, m)]
           page == PageOf(S, off, limit)
           places == off..(off + limit - 1)
<1>1. size \in Nat
  BY FS_CardinalityType
<1>2. ASSUME NEW m \in S PROVE Rank(S, m) \in 0..(size - 1)
  <2> DEFINE A == {x \in S : Before(x, m)}
  <2>1. A \subseteq S \ {m}
    BY BeforeIsTotal
  <2>2. IsFiniteSet(S \ {m}) /\ Cardinality(S \ {m}) = size - 1
    BY FS_RemoveElement
  <2>3. IsFiniteSet(A) /\ Cardinality(A) <= size - 1 /\ Cardinality(A) \in Nat
    BY <2>1, <2>2, FS_Subset, FS_CardinalityType
  <2> QED BY <1>1, <2>3 DEF Rank
<1>3. ASSUME NEW a \in S, NEW b \in S, Rank(S, a) = Rank(S, b) PROVE a = b
  <2> SUFFICES ASSUME a # b PROVE FALSE
    OBVIOUS
  <2>1. Before(a, b) \/ Before(b, a)
    BY BeforeIsTotal
  <2>2. Rank(S, a) \in Nat /\ Rank(S, b) \in Nat
    BY <1>1, <1>2
  <2> QED BY <1>3, <2>1, <2>2, RankGrows
<1>4. r \in Injection(S, 0..(size - 1))
  <2>1. r \in [S -> 0..(size - 1)] /\ \A a, b \in S : r[a] = r[b] => a = b
    BY <1>2, <1>3
  <2> HIDE DEF r
  <2> QED BY <2>1 DEF Injection, IsInjective
<1>5. IsFiniteSet(0..(size - 1)) /\ Cardinality(0..(size - 1)) = size
  <2> HIDE DEF size
  <2>1. 0 \in Int /\ size - 1 \in Int
    BY <1>1
  <2>2. /\ IsFiniteSet(0..(size - 1))
        /\ Cardinality(0..(size - 1)) = IF 0 > size - 1 THEN 0 ELSE size - 1 - 0 + 1
    BY <2>1, FS_Interval
  <2> QED BY <1>1, <2>2
<1>6. r \in Surjection(S, 0..(size - 1))
  <2> HIDE DEF r
  <2> QED BY <1>4, <1>5, FS_Injection
<1>7. ASSUME NEW i \in places PROVE \E m \in page : Rank(S, m) = i
  <2>1. i \in 0..(size - 1)
    BY <1>1, <1>2
  <2>2. \A j \in 0..(size - 1) : \E m \in S : r[m] = j
    <3> HIDE DEF r
    <3> QED BY <1>6 DEF Surjection
  <2>3. PICK m \in S : r[m] = i
    BY <2>1, <2>2
  <2> QED BY <2>3 DEF PageOf, Rank
<1>8. \A m \in page : m \in S /\ Rank(S, m) \in places
  BY DEF PageOf, Rank
<1> DEFINE f == [m \in page |-> Rank(S, m)]
<1>9. f \in Bijection(page, places)
  <2>1. /\ f \in [page -> places]
        /\ \A a, b \in page : f[a] = f[b] => a = b
        /\ \A i \in places : \E m \in page : f[m] = i
    <3> HIDE DEF page, places
    <3> QED BY <1>3, <1>7, <1>8
  <2> HIDE DEF f, page, places
  <2> QED BY <2>1 DEF Bijection, Injection, Surjection, IsInjective
<1>10. IsFiniteSet(page) /\ ExistsBijection(page, places)
  <2>1. page \subseteq S
    BY DEF PageOf
  <2>2. IsFiniteSet(page)
    BY <2>1, FS_Subset
  <2> HIDE DEF f, page, places
  <2> QED BY <1>9, <2>2 DEF ExistsBijection
<1>11. Cardinality(places) = Cardinality(page)
  <2> HIDE DEF page, places
  <2> QED BY <1>10, FS_Bijection
<1>12. Cardinality(places) = limit
  BY FS_Interval
<1> QED BY <1>11, <1>12

\* Nothing hides a row of the walk from it.
Excused(q) == call[q].unread /\ \E n \in Mine(q) : isRead[n] /\ n \notin earlier[q]

\* A walk that nothing disturbs has shown a row of its snapshot or finds it on a page
\* to come: offsets only grow as far as ranks do.
WalkInv(q) ==
    /\ pc[q] = "idle" => offset[q] = 0
    /\ \A n \in earlier[q] : isRead[n]
    /\ pc[q] \in {"count", "page"} =>
        \/ Excused(q)
        \/ \A n \in snapshot[q] \ shown[q] :
               n \in Listed(q) /\ offset[q] <= Rank(Listed(q), n)
    /\ answer[q] = "200" /\ call[q].kind = "list" =>
        Excused(q) \/ snapshot[q] \subseteq shown[q]

Walks == \A q \in Client : WalkInv(q)

\* What every step does to a walk of another request, and to one that stays where
\* it is.
LEMMA Undisturbed ==
    ASSUME IInv, IInv', NEW q \in Client, WalkInv(q),
           UNCHANGED <<call[q], snapshot[q], earlier[q], offset[q], shown[q]>>,
           stored \subseteq stored',
           \A n \in stored : stamp'[n] = stamp[n],
           \A n \in Note : isRead[n] => isRead'[n],
           pc'[q] = "idle" => pc[q] = "idle",
           pc'[q] \in {"count", "page"} => pc[q] \in {"count", "page"},
           answer'[q] = "200" => answer[q] = "200" \/ call[q].kind # "list"
    PROVE  WalkInv(q)'
<1>1. /\ stored \subseteq Note /\ stored' \subseteq Note /\ IsFiniteSet(stored')
      /\ earlier[q] \subseteq Note /\ snapshot[q] \subseteq Note
      /\ offset[q] \in Nat
  BY DEF IInv, TypeOK
<1>2. Mine(q) \subseteq Mine(q)' /\ Mine(q) \subseteq stored
  BY DEF Mine
<1>3. Excused(q) => Excused(q)'
  BY <1>1, <1>2 DEF Excused
<1>4. ASSUME ~Excused(q)', NEW n \in Listed(q)
      PROVE  n \in Listed(q)'
  <2>1. n \in Mine(q) /\ n \in Mine(q)' /\ (call[q].unread => ~isRead[n])
    BY <1>2, <1>4 DEF Listed, Unread
  <2>2. call[q].unread /\ isRead'[n] => n \in earlier[q]
    BY <1>4, <2>1 DEF Excused
  <2>3. n \notin earlier[q] \/ isRead[n]
    BY DEF WalkInv
  <2>4. call[q].unread => ~isRead'[n]
    BY <2>1, <2>2, <2>3
  <2> QED BY <2>1, <2>4 DEF Listed, Unread
<1>5. ASSUME ~Excused(q)', NEW n \in Listed(q), offset[q] <= Rank(Listed(q), n)
      PROVE  offset[q] <= Rank(Listed(q), n)'
  <2> DEFINE A == {m \in Listed(q) : Before(m, n)}
             B == {m \in Listed(q) : Before(m, n)}'
  <2>1. Listed(q) \subseteq stored /\ Listed(q)' \subseteq stored'
    BY DEF Listed, Unread, Mine
  <2>2. \A m \in Listed(q) : Before(m, n) => Before(m, n)'
    BY <1>5, <2>1 DEF Before
  <2>3. A \subseteq B
    BY <1>4, <1>5, <2>2
  <2>4. IsFiniteSet(B)
    BY <1>1, <2>1, FS_Subset
  <2>5. Cardinality(A) <= Cardinality(B) /\ Cardinality(A) \in Nat /\ Cardinality(B) \in Nat
    BY <2>3, <2>4, FS_Subset, FS_CardinalityType
  <2> QED BY <1>1, <1>5, <2>5 DEF Rank
<1>6. pc'[q] \in {"count", "page"} =>
        \/ Excused(q)'
        \/ \A n \in snapshot[q] \ shown[q] :
               n \in Listed(q)' /\ offset[q] <= Rank(Listed(q), n)'
  BY <1>3, <1>4, <1>5 DEF WalkInv
<1>7. answer'[q] = "200" /\ call[q].kind = "list" => Excused(q)' \/ snapshot[q] \subseteq shown[q]
  BY <1>3 DEF WalkInv
<1>8. \A n \in earlier[q] : isRead'[n]
  BY <1>1 DEF WalkInv
<1>9. pc'[q] = "idle" => offset[q] = 0
  BY DEF WalkInv
<1> QED BY <1>6, <1>7, <1>8, <1>9 DEF WalkInv

LEMMA BeginWalks ==
    ASSUME IInv, IInv', Walks, NEW q \in Client, NEW c \in Calls, Begin(q, c)
    PROVE  WalkInv(q)'
<1>1. /\ call'[q] = c /\ offset'[q] = 0 /\ shown'[q] = {} /\ UNCHANGED <<stored, stamp, isRead>>
      /\ snapshot'[q] = {n \in stored : Recipient[n] = c.actor
                                        /\ (c.unread \/ c.kind = "dismiss" => ~isRead[n])}
      /\ earlier'[q] = {n \in stored : isRead[n]}
      /\ pc'[q] = FirstStep(c.kind) /\ answer'[q] = "none"
  BY DEF Begin, Goto, rows, IInv, TypeOK, Progress, Walks, WalkInv
<1>2. pc'[q] # "idle"
  BY <1>1, CallFacts DEF FirstStep
<1>3. ASSUME pc'[q] \in {"count", "page"} PROVE c.kind = "list"
  BY <1>1, <1>3 DEF IInv, KindFits
<1>4. ASSUME NEW n \in snapshot'[q], pc'[q] \in {"count", "page"}
      PROVE  n \in Listed(q)' /\ 0 <= Rank(Listed(q), n)'
  <2>1. n \in Listed(q)'
    BY <1>1, <1>3, <1>4 DEF Listed, Unread, Mine
  <2>2. IsFiniteSet({m \in Listed(q) : Before(m, n)}')
    BY <1>1, FS_Subset DEF IInv, TypeOK, Listed, Unread, Mine
  <2> QED BY <2>1, <2>2, FS_CardinalityType DEF Rank
<1> QED BY <1>1, <1>2, <1>4 DEF WalkInv

LEMMA ReadPageWalks ==
    ASSUME IInv, IInv', Walks, NEW q \in Client, ReadPage(q)
    PROVE  WalkInv(q)'
<1> DEFINE limit == call[q].limit
           page == PageOf(Listed(q), offset[q], limit)
<1>1. /\ pc[q] = "page" /\ UNCHANGED <<stored, stamp, isRead, call, snapshot, earlier>>
      /\ shown'[q] = shown[q] \cup page /\ offset'[q] = offset[q] + limit
      /\ limit \in Nat \ {0} /\ offset[q] \in Nat
      /\ answer[q] = "none"
  BY CallFacts DEF ReadPage, rows, IInv, TypeOK, Progress
<1>2. \/ pc'[q] = "count" /\ answer'[q] = "none"
      \/ pc'[q] = "done" /\ Cardinality(page) # limit
  <2>1. CASE Cardinality(page) = limit \/ offset[q] + limit < total[q]
    BY <1>1, <2>1 DEF ReadPage, Goto, Respond, IInv, TypeOK
  <2>2. CASE ~(Cardinality(page) = limit \/ offset[q] + limit < total[q])
    BY <1>1, <2>2 DEF ReadPage, Goto, Respond, IInv, TypeOK
  <2> QED BY <2>1, <2>2
<1>3. Listed(q) \subseteq Note /\ IsFiniteSet(Listed(q))
  BY FS_Subset DEF Listed, Unread, Mine, IInv, TypeOK
<1>4. Listed(q)' = Listed(q) /\ Excused(q)' = Excused(q)
      /\ \A n : Rank(Listed(q), n)' = Rank(Listed(q), n)
  BY <1>1 DEF Listed, Unread, Mine, Excused, Rank, Before
<1>5. ASSUME ~Excused(q), NEW n \in snapshot[q] \ shown'[q]
      PROVE  n \in Listed(q) /\ offset'[q] <= Rank(Listed(q), n)
  <2>1. n \in Listed(q) /\ offset[q] <= Rank(Listed(q), n)
    BY <1>1, <1>5 DEF Walks, WalkInv
  <2>2. Rank(Listed(q), n) \in Nat
    <3>1. IsFiniteSet({m \in Listed(q) : Before(m, n)})
      BY <1>3, FS_Subset
    <3> QED BY <3>1, FS_CardinalityType DEF Rank
  <2>3. Rank(Listed(q), n) \notin offset[q]..(offset[q] + limit - 1)
    BY <1>1, <1>5, <2>1 DEF PageOf, Rank
  <2> QED BY <1>1, <2>1, <2>2, <2>3
<1>6. ASSUME ~Excused(q), pc'[q] = "done"
      PROVE  snapshot[q] \subseteq shown'[q]
  <2> SUFFICES ASSUME NEW n \in snapshot[q] \ shown'[q] PROVE FALSE
    OBVIOUS
  <2>1. n \in Listed(q) /\ offset[q] + limit <= Rank(Listed(q), n)
    BY <1>1, <1>5, <1>6
  <2>2. Cardinality(page) = limit
    BY <1>1, <1>3, <2>1, FullPage DEF IInv
  <2> QED BY <1>2, <1>6, <2>2
<1>7. \A n \in earlier[q] : isRead[n]
  BY DEF Walks, WalkInv
<1> QED BY <1>1, <1>2, <1>4, <1>5, <1>6, <1>7 DEF WalkInv

LEMMA StepWalks ==
    ASSUME IInv, IInv', Walks, [Next]_vars
    PROVE  Walks'
<1> SUFFICES ASSUME NEW q \in Client PROVE WalkInv(q)'
  BY DEF Walks
<1>1. WalkInv(q) /\ q \in Client
  BY DEF Walks
<1> USE DEF Goto, Respond, rows, walk
<1>2. ASSUME NEW r \in Client, NEW c \in Calls, Begin(r, c) PROVE WalkInv(q)'
  <2>1. CASE r = q
    BY <1>2, <2>1, BeginWalks
  <2>2. CASE r # q
    BY <1>1, <1>2, <2>2, Undisturbed DEF Begin, IInv, TypeOK
  <2> QED BY <2>1, <2>2
<1>3. ASSUME NEW r \in Client, ReadPage(r) PROVE WalkInv(q)'
  <2>1. CASE r = q
    BY <1>3, <2>1, ReadPageWalks
  <2>2. CASE r # q
    <3>1. /\ pc'[q] = pc[q] /\ answer'[q] = answer[q]
          /\ UNCHANGED <<rows, call, snapshot, earlier>>
          /\ UNCHANGED <<offset[q], shown[q]>>
      BY <1>3, <2>2 DEF ReadPage, IInv, TypeOK
    <3> QED BY <1>1, <3>1, Undisturbed
  <2> QED BY <2>1, <2>2
<1>4. ASSUME NEW r \in Client, CountRows(r) \/ CountUnread(r) PROVE WalkInv(q)'
  <2>1. /\ UNCHANGED <<rows, call, snapshot, earlier, offset, shown>>
        /\ pc'[q] = "idle" => pc[q] = "idle"
        /\ pc'[q] \in {"count", "page"} => pc[q] \in {"count", "page"}
        /\ answer'[q] = "200" => answer[q] = "200" \/ call[q].kind # "list"
    BY <1>4 DEF CountRows, CountUnread, IInv, TypeOK, KindFits
  <2> QED BY <1>1, <2>1, Undisturbed
<1>5. ASSUME NEW r \in Client, Load(r) PROVE WalkInv(q)'
  <2>1. /\ UNCHANGED <<rows, call, snapshot, earlier, offset, shown>>
        /\ pc'[q] = "idle" => pc[q] = "idle"
        /\ pc'[q] \in {"count", "page"} => pc[q] \in {"count", "page"}
        /\ answer'[q] = "200" => answer[q] = "200" \/ call[q].kind # "list"
    BY <1>5 DEF Load, IInv, TypeOK, KindFits
  <2> QED BY <1>1, <2>1, Undisturbed
<1>6. ASSUME NEW r \in Client, MarkRead(r) PROVE WalkInv(q)'
  <2>1. \A n \in Note : isRead[n] => isRead'[n]
    BY <1>6 DEF MarkRead, IInv, TypeOK
  <2> QED BY <1>1, <1>6, <2>1, Undisturbed DEF MarkRead, IInv, TypeOK, KindFits
<1>7. ASSUME NEW r \in Client, NEW n \in Note, Visit(r, n) PROVE WalkInv(q)'
  BY <1>1, <1>7, Undisturbed DEF Visit, IInv, TypeOK
<1>8. ASSUME NEW r \in Client, ScanEnds(r) PROVE WalkInv(q)'
  BY <1>1, <1>8, Undisturbed DEF ScanEnds, IInv, TypeOK
<1>9. ASSUME NEW r \in Client, CommitDismiss(r) PROVE WalkInv(q)'
  <2>1. \A n \in Note : isRead[n] => isRead'[n]
    BY <1>9 DEF CommitDismiss
  <2> QED BY <1>1, <1>9, <2>1, Undisturbed DEF CommitDismiss, IInv, TypeOK, KindFits
<1>10. ASSUME NEW r \in Client, Deadlock(r) \/ Fail(r) PROVE WalkInv(q)'
  BY <1>1, <1>10, Undisturbed DEF Deadlock, Fail, Abort, IInv, TypeOK
<1>11. ASSUME NEW n \in Note, Arrive(n) PROVE WalkInv(q)'
  <2>1. PICK t \in 0..MaxStamp : stamp' = [stamp EXCEPT ![n] = t]
    BY <1>11 DEF Arrive
  <2>2. \A m \in stored : stamp'[m] = stamp[m]
    BY <1>11, <2>1 DEF Arrive, IInv, TypeOK
  <2> QED BY <1>1, <1>11, <2>2, Undisturbed DEF Arrive
<1>12. CASE UNCHANGED vars
  BY <1>1, <1>12, Undisturbed DEF vars
<1> QED BY <1>2, <1>3, <1>4, <1>5, <1>6, <1>7, <1>8, <1>9, <1>10, <1>11, <1>12
        DEF Next, Handle, Terminating

\* A client that walks through the pages to the end has been shown every row it could
\* have meant, unless one was read under it in the unread tab.
THEOREM WalksAreComplete == Spec => []PagesMissNothing
<1>1. Init => Walks
  <2> SUFFICES ASSUME Init, NEW q \in Client PROVE WalkInv(q)
    BY DEF Walks
  <2> QED BY DEF Init, WalkInv
<1>2. IInv /\ Walks /\ [Next]_vars => IInv' /\ Walks'
  BY StepIInv, StepWalks
<1>3. Walks => PagesMissNothing
  BY DEF Walks, WalkInv, Excused, PagesMissNothing
<1> QED BY <1>1, <1>2, <1>3, InitIInv, PTL DEF Spec
=============================================================================
