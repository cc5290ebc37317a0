------------------------------ MODULE SeedProofs ------------------------------
(***************************************************************************)
(* What the plan of the demo data promises for every draw, what its        *)
(* backfill then writes, and the invariants of the runs themselves.        *)
(***************************************************************************)
EXTENDS SeedRun, FiniteSetTheorems, SequenceTheorems, TLAPS

LEMMA OpenPlanFields ==
    ASSUME NEW c \in Nat
    PROVE  /\ OpenPlan(c) \in Plan
           /\ OpenPlan(c).status = "open" /\ OpenPlan(c).created = c
           /\ OpenPlan(c).review = Never /\ OpenPlan(c).reassign = Never
           /\ OpenPlan(c).closed = Never /\ OpenPlan(c).reviewer = NoReviewer
           /\ OpenPlan(c).reassignee = NoReviewer /\ OpenPlan(c).closer = NoReviewer
BY DEF OpenPlan, Plan, PlanStatus, Never

\* The two ways in which _fill_workflow extends a plan.
Review(c, review, v, a, w) ==
    [OpenPlan(c) EXCEPT !.status = "in_review", !.review = review, !.reviewer = v,
                        !.reassign = a, !.reassignee = w]

Close(q, closed, v) == [q EXCEPT !.status = "closed", !.closed = closed, !.closer = v]

LEMMA ReviewedFields ==
    ASSUME NEW c \in Nat, NEW review \in Nat, NEW v \in Reviewer, NEW a \in Nat,
           NEW w \in Reviewer \cup {NoReviewer}
    PROVE  LET q == Review(c, review, v, a, w)
           IN  /\ q \in Plan
               /\ q.status = "in_review" /\ q.created = c /\ q.review = review
               /\ q.reassign = a /\ q.closed = Never /\ q.reviewer = v
               /\ q.reassignee = w /\ q.closer = NoReviewer
<1> DEFINE q == Review(c, review, v, a, w)
<1>1. q \in Plan
  BY DEF Review, OpenPlan, Plan, PlanStatus, Never
<1>2. /\ q.status = "in_review" /\ q.created = c /\ q.review = review
      /\ q.reassign = a /\ q.closed = Never /\ q.reviewer = v
      /\ q.reassignee = w /\ q.closer = NoReviewer
  BY DEF Review, OpenPlan
<1> QED BY <1>1, <1>2

LEMMA ClosedFields ==
    ASSUME NEW q \in Plan, NEW closed \in Nat, NEW v \in Reviewer
    PROVE  LET p == Close(q, closed, v)
           IN  /\ p \in Plan
               /\ p.status = "closed" /\ p.created = q.created /\ p.review = q.review
               /\ p.reassign = q.reassign /\ p.closed = closed /\ p.reviewer = q.reviewer
               /\ p.reassignee = q.reassignee /\ p.closer = v
BY DEF Close, Plan, PlanStatus

\* "Every timestamp is strictly increasing and clamped below now"; what does not fit
\* is left out and the status demoted to match, whatever is drawn (_fill_workflow).
THEOREM PlansAreTruthful ==
    ASSUME NEW wanted \in PlanStatus, NEW c \in 1..(Now - 1), NEW d \in Draw
    PROVE  Truthful(FillWorkflow(wanted, c, d))
<1> DEFINE p == FillWorkflow(wanted, c, d)
           review == c + d.review
           moved == d.moves /\ review + d.reassign < Now
           closed == review + (IF moved THEN d.reassign ELSE 0) + d.close
           a == IF moved THEN review + d.reassign ELSE Never
           w == IF moved THEN d.other ELSE NoReviewer
           v == IF moved THEN d.other ELSE d.reviewer
           reviewed == Review(c, review, d.reviewer, a, w)
<1> SUFFICES Truthful(p)
  OBVIOUS
<1>1. /\ Now \in Nat \ {0} /\ NoReviewer \notin Reviewer
      /\ d.review \in Nat \ {0} /\ d.reassign \in Nat \ {0} /\ d.close \in Nat \ {0}
      /\ d.moves \in BOOLEAN /\ d.reviewer \in Reviewer /\ d.other \in Reviewer
      /\ c \in Nat /\ 0 < c /\ c < Now
  BY PlanAssumption DEF Draw
<1>2. CASE wanted = "open" \/ review >= Now
  <2>1. p = OpenPlan(c)
    BY <1>2 DEF FillWorkflow
  <2> QED BY <1>1, <2>1, OpenPlanFields DEF Truthful, Never
<1>3. CASE ~(wanted = "open" \/ review >= Now)
  <2>1. /\ review \in Nat /\ c < review /\ review < Now
        /\ closed \in Nat /\ review < closed
        /\ moved => /\ review + d.reassign < closed
                    /\ review < review + d.reassign /\ review + d.reassign < Now
                    /\ review + d.reassign \in Nat
    BY <1>1, <1>3
  <2>2. a \in Nat /\ w \in Reviewer \cup {NoReviewer}
    BY <1>1, <2>1 DEF Never
  <2>3. /\ reviewed \in Plan
        /\ reviewed.status = "in_review" /\ reviewed.created = c /\ reviewed.review = review
        /\ reviewed.reassign = a /\ reviewed.closed = Never /\ reviewed.reviewer = d.reviewer
        /\ reviewed.reassignee = w /\ reviewed.closer = NoReviewer
    <3>1. c \in Nat /\ review \in Nat /\ d.reviewer \in Reviewer
      BY <1>1, <2>1
    <3> HIDE DEF p, review, moved, closed, a, w, v
    <3> QED BY <2>2, <3>1, ReviewedFields
  <2>4. CASE wanted = "in_review" \/ closed >= Now
    <3>1. p = reviewed
      BY <1>3, <2>4 DEF FillWorkflow, Review
    <3> HIDE DEF p, reviewed, review, moved, closed
    <3>2. /\ a = Never <=> ~moved
          /\ w = NoReviewer <=> ~moved
          /\ moved => a = review + d.reassign
      BY <1>1, <2>1 DEF Never
    <3> HIDE DEF a, w
    <3> QED BY <1>1, <2>1, <2>3, <3>1, <3>2 DEF Truthful, Never
  <2>5. CASE ~(wanted = "in_review" \/ closed >= Now)
    <3>1. p = Close(reviewed, closed, v)
      BY <1>3, <2>5 DEF FillWorkflow, Review, Close
    <3>2. closed < Now
      BY <1>1, <2>1, <2>5
    <3> HIDE DEF p, reviewed, review, moved, closed
    <3>3. v \in Reviewer
      BY <1>1
    <3>4. /\ p \in Plan
          /\ p.status = "closed" /\ p.created = c /\ p.review = review
          /\ p.reassign = a /\ p.closed = closed /\ p.reviewer = d.reviewer
          /\ p.reassignee = w /\ p.closer = v
      <4> HIDE DEF a, w, v
      <4> QED BY <2>1, <2>3, <3>1, <3>3, ClosedFields
    <3>5. /\ a = Never <=> ~moved
          /\ w = NoReviewer <=> ~moved
          /\ moved => a = review + d.reassign
          /\ v = IF w # NoReviewer THEN w ELSE d.reviewer
      BY <1>1, <2>1 DEF Never
    <3> HIDE DEF a, w, v
    <3> QED BY <1>1, <2>1, <3>2, <3>4, <3>5 DEF Truthful, Never, FinalAssignee
  <2> QED BY <2>4, <2>5
<1> QED BY <1>2, <1>3
-----------------------------------------------------------------------------
\* updated_at is the last planned instant, and lies before Now.
LEMMA UpdatedAtFacts ==
    ASSUME NEW p, Truthful(p)
    PROVE  /\ UpdatedAt(p) \in {p.created} \cup EventTimes(p)
           /\ \A u \in {p.created} \cup EventTimes(p) : u <= UpdatedAt(p)
           /\ UpdatedAt(p) \in Nat /\ p.created <= UpdatedAt(p) /\ UpdatedAt(p) < Now
<1> DEFINE S == {p.created} \cup EventTimes(p)
           last == IF p.closed # Never THEN p.closed
                   ELSE IF p.reassign # Never THEN p.reassign
                   ELSE IF p.review # Never THEN p.review ELSE p.created
<1>1. /\ p.created \in Nat /\ p.review \in Nat /\ p.reassign \in Nat /\ p.closed \in Nat
      /\ Now \in Nat
  BY PlanAssumption DEF Truthful, Plan
<1>2. last \in S /\ \A u \in S : u <= last /\ u \in Nat /\ u < Now
  BY <1>1 DEF Truthful, EventTimes, Never
<1>3. UpdatedAt(p) \in S /\ \A u \in S : u <= UpdatedAt(p)
  BY <1>2 DEF UpdatedAt
<1> QED BY <1>2, <1>3

\* A row that a run has left of a plan: a timeline row only for a transition that is
\* planned, and known from the last response.
Follows(inc, p, steps) ==
    /\ inc \in Incident
    /\ inc.reviewed # Never => "in_review" \in steps /\ p.review # Never
    /\ inc.closed # Never => "closed" \in steps /\ p.closed # Never

LEMMA ElementOf ==
    ASSUME NEW S, NEW s \in Seq(S), NEW k \in DOMAIN s
    PROVE  k \in 1..Len(s) /\ k \in Nat /\ s[k] \in S
OBVIOUS

LEMMA StampFields ==
    ASSUME NEW inc \in Incident, NEW p, NEW steps, NEW n
    PROVE  LET s == Stamp(inc, p, steps, n)
           IN  /\ s.created = p.created /\ s.updated = UpdatedAt(p)
               /\ s.reviewed = IF "in_review" \in steps /\ p.review # Never
                               THEN p.review ELSE inc.reviewed
               /\ s.closed = IF "closed" \in steps /\ p.closed # Never
                             THEN p.closed ELSE inc.closed
               /\ DOMAIN s.notes = DOMAIN inc.notes
               /\ \A k \in DOMAIN inc.notes :
                    s.notes[k].at = IF k <= n THEN NoteTime(p, inc.notes[k].kind)
                                    ELSE inc.notes[k].at
<1> DEFINE s == Stamp(inc, p, steps, n)
<1>1. /\ s.created = p.created /\ s.updated = UpdatedAt(p)
      /\ s.reviewed = IF "in_review" \in steps /\ p.review # Never
                      THEN p.review ELSE inc.reviewed
      /\ s.closed = IF "closed" \in steps /\ p.closed # Never THEN p.closed ELSE inc.closed
  BY DEF Stamp, Incident
<1>2. s.notes = [k \in DOMAIN inc.notes |->
                    IF k <= n THEN [inc.notes[k] EXCEPT !.at = NoteTime(p, inc.notes[k].kind)]
                    ELSE inc.notes[k]]
  BY DEF Stamp, Incident
<1>3. \A k \in DOMAIN inc.notes : inc.notes[k] \in [kind : NoteKind, at : Nat]
  <2>1. inc.notes \in Seq([kind : NoteKind, at : Nat])
    BY DEF Incident
  <2> QED BY <2>1, ElementOf
<1>4. ASSUME NEW k \in DOMAIN inc.notes
      PROVE  s.notes[k].at = IF k <= n THEN NoteTime(p, inc.notes[k].kind)
                             ELSE inc.notes[k].at
  <2> HIDE DEF s
  <2> QED BY <1>2, <1>3
<1>5. DOMAIN s.notes = DOMAIN inc.notes
  <2> HIDE DEF s
  <2> QED BY <1>2
<1> QED BY <1>1, <1>4, <1>5

\* Every truthful plan that was carried out passes the backfill's checks, whichever
\* draws made it: _verify never refuses a run that met nothing unexpected.
THEOREM StampedHistoryVerifies ==
    ASSUME NEW p, Truthful(p), NEW inc, NEW steps, Follows(inc, p, steps),
           NEW n \in Nat, Len(inc.notes) <= n, NEW now \in Nat, Now <= now
    PROVE  Verified(Stamp(inc, p, steps, n), now)
<1> DEFINE s == Stamp(inc, p, steps, n)
<1>1. /\ s.created = p.created /\ s.updated = UpdatedAt(p)
      /\ s.reviewed = IF "in_review" \in steps /\ p.review # Never
                      THEN p.review ELSE inc.reviewed
      /\ s.closed = IF "closed" \in steps /\ p.closed # Never THEN p.closed ELSE inc.closed
      /\ DOMAIN s.notes = DOMAIN inc.notes
      /\ \A k \in DOMAIN inc.notes :
            s.notes[k].at = IF k <= n THEN NoteTime(p, inc.notes[k].kind) ELSE inc.notes[k].at
  BY StampFields DEF Follows
<1>2. /\ p.created \in Nat /\ p.review \in Nat /\ p.reassign \in Nat /\ p.closed \in Nat
      /\ UpdatedAt(p) \in Nat /\ Now \in Nat
      /\ p.created <= UpdatedAt(p) /\ UpdatedAt(p) < Now
      /\ \A u \in EventTimes(p) : p.created <= u /\ u <= UpdatedAt(p)
  BY PlanAssumption, UpdatedAtFacts DEF Truthful, Plan, EventTimes, Never
<1>3. s.reviewed \in {Never, p.review} /\ s.closed \in {Never, p.closed}
  BY <1>1 DEF Follows
<1>4. ASSUME NEW k \in DOMAIN inc.notes
      PROVE  p.created <= s.notes[k].at /\ s.notes[k].at <= UpdatedAt(p)
  <2>1. k \in 1..Len(inc.notes) /\ inc.notes[k] \in [kind : NoteKind, at : Nat]
    <3>1. inc.notes \in Seq([kind : NoteKind, at : Nat])
      BY DEF Follows, Incident
    <3> QED BY <3>1, ElementOf
  <2>2. Len(inc.notes) \in Nat
    BY DEF Follows, Incident
  <2>3. s.notes[k].at = NoteTime(p, inc.notes[k].kind)
    BY <1>1, <2>1, <2>2
  <2>4. NoteTime(p, inc.notes[k].kind) \in EventTimes(p) \cup {UpdatedAt(p)}
    BY <2>1 DEF NoteTime, NoteKind, EventTimes
  <2> QED BY <1>2, <2>3, <2>4
<1>5. \A t \in {s.reviewed, s.closed} \ {Never} : t \in EventTimes(p)
  BY <1>3 DEF EventTimes
<1>6. s.reviewed # Never /\ s.closed # Never => s.reviewed # s.closed
  BY <1>2, <1>3 DEF Truthful
<1> HIDE DEF s
<1> SUFFICES Verified(s, now)
  BY DEF s
<1>7. s.created <= s.updated /\ s.created <= now
  BY <1>1, <1>2
<1> QED BY <1>1, <1>2, <1>4, <1>5, <1>6, <1>7 DEF Verified, Timely, Within

\* A notification that the backfill did not read, dated when it was written, makes the
\* checks fail: the pass is rolled back, never committed half historical.
THEOREM LateArrivalIsRefused ==
    ASSUME NEW p, Truthful(p), NEW inc \in Incident, NEW steps, NEW n \in Nat,
           NEW k \in DOMAIN inc.notes, n < k, Now <= inc.notes[k].at, NEW now
    PROVE  ~Verified(Stamp(inc, p, steps, n), now)
<1> DEFINE s == Stamp(inc, p, steps, n)
<1>1. k \in Nat
  <2>1. inc.notes \in Seq([kind : NoteKind, at : Nat])
    BY DEF Incident
  <2> QED BY <2>1
<1>2. s.updated = UpdatedAt(p) /\ k \in DOMAIN s.notes /\ s.notes[k].at = inc.notes[k].at
  <2>1. /\ s.updated = UpdatedAt(p) /\ DOMAIN s.notes = DOMAIN inc.notes
        /\ s.notes[k].at = IF k <= n THEN NoteTime(p, inc.notes[k].kind) ELSE inc.notes[k].at
    BY StampFields
  <2> QED BY <1>1, <2>1
<1>3. /\ UpdatedAt(p) \in Nat /\ Now \in Nat /\ UpdatedAt(p) < Now
      /\ inc.notes[k].at \in Nat
  <2>1. inc.notes[k] \in [kind : NoteKind, at : Nat]
    <3>1. inc.notes \in Seq([kind : NoteKind, at : Nat])
      BY DEF Incident
    <3> QED BY <3>1, ElementOf
  <2> QED BY <2>1, PlanAssumption, UpdatedAtFacts
<1> HIDE DEF s
<1>4. ~Verified(s, now)
  BY <1>2, <1>3 DEF Verified, Within
<1> QED BY <1>4 DEF s

\* The badge never disappears, and ageing never asks for more rows than the page has
\* (age_notifications).
THEOREM BadgeSurvives ==
    ASSUME NEW n \in Nat
    PROVE  KeepUnread(n) \in 0..n /\ (n > 0 => KeepUnread(n) > 0)
BY DEF KeepUnread
-----------------------------------------------------------------------------
(***************************************************************************)
(* The run.  First what a request may do to the identities: the tenant,    *)
(* the accounts and the users rows.                                        *)
(***************************************************************************)
Clocks == {c \in Nat : Now <= c}

Db == [tenant : Nat, folded : BOOLEAN, account : [Mailbox -> Nat], row : [Mailbox -> Nat],
       category : BOOLEAN, incidents : Seq(Incident), stamped : BOOLEAN, nextId : Nat \ {0},
       clock : Clocks]

Requests == [op : {"register", "password", "create", "delete", "invite", "category", "file",
                   "claim", "close", "assign"},
             by : Nat, mail : Mailbox, n : Nat, who : Reviewer \cup {NoReviewer},
             stage : {"sent", "begun", "made", "adopted"}, at : Nat]

\* A row has its account, unless it is the administrator's of an organisation that no
\* run was told of.
Kept(d, last, m) == d.account[m] = d.row[m] \/ (m = Admin /\ d.row[m] # last)

\* Identifiers are given out once, rows keep their accounts, and only a tenant has rows.
Sound(d, last) ==
    /\ d \in Db
    /\ d.tenant < d.nextId
    /\ last \in Nat /\ last < d.nextId
    /\ \A m, w \in Mailbox : m # w /\ d.account[m] # 0 => d.account[m] # d.account[w]
    /\ \A m \in Mailbox :
        /\ d.account[m] < d.nextId /\ d.row[m] < d.nextId
        /\ d.row[m] # 0 => Kept(d, last, m) /\ d.tenant # 0

\* The mailbox that may get an account.
Newcomer(q) == IF q.op = "register" THEN Admin ELSE q.mail

\* What a request may change: a tenant where there was none, an account where there was
\* none or the one to delete, a row for the tenant that asks or that registers.
Effect(d, e, q) ==
    /\ e \in Db /\ d.nextId <= e.nextId
    /\ \/ e.tenant = d.tenant
       \/ q.op = "register" /\ d.tenant = 0 /\ e.tenant = d.nextId /\ e.tenant < e.nextId
    /\ \A m \in Mailbox :
        \/ e.account[m] = d.account[m]
        \/ /\ m = Newcomer(q) /\ d.account[m] = 0 /\ e.account[m] = d.nextId
           /\ d.nextId < e.nextId
        \/ q.op = "delete" /\ d.account[m] = q.n /\ e.account[m] = 0
    /\ \A m \in Mailbox :
        \/ e.row[m] = d.row[m]
        \/ /\ e.row[m] = e.account[m] /\ e.row[m] # 0
           /\ e.row[m] = d.nextId \/ (e.row[m] = d.account[m] /\ q.op = "invite")
           /\ \/ q.op = "register" /\ d.tenant = 0 /\ e.tenant # 0
              \/ q.op = "invite" /\ q.by = d.tenant /\ m = q.mail /\ d.row[m] = 0

\* Requests about incidents leave the identities alone.
Keeps(d, e) ==
    /\ e \in Db /\ d.nextId = e.nextId /\ e.tenant = d.tenant
    /\ e.account = d.account /\ e.row = d.row

LEMMA KeepsIsAnEffect ==
    ASSUME NEW d \in Db, NEW e, Keeps(d, e), NEW q
    PROVE  Effect(d, e, q)
BY DEF Keeps, Effect, Db

LEMMA RegisterEffect ==
    ASSUME NEW d \in Db, NEW q, q.op = "register"
    PROVE  Effect(d, RegisterOrganization(d).db, q)
<1> DEFINE e == [d EXCEPT !.tenant = d.nextId, !.account[Admin] = d.nextId,
                          !.row[Admin] = d.nextId, !.nextId = @ + 1]
<1>1. CASE d.tenant # 0 \/ d.folded \/ d.account[Admin] # 0
  BY <1>1, KeepsIsAnEffect DEF RegisterOrganization, Result, Keeps
<1>2. CASE ~(d.tenant # 0 \/ d.folded \/ d.account[Admin] # 0)
  <2> DEFINE A == [d.account EXCEPT ![Admin] = d.nextId]
             R == [d.row EXCEPT ![Admin] = d.nextId]
             next == d.nextId + 1
  <2>0. /\ A \in [Mailbox -> Nat] /\ R \in [Mailbox -> Nat] /\ d.nextId \in Nat
        /\ next \in Nat \ {0}
    <3>1. /\ d.account \in [Mailbox -> Nat] /\ d.row \in [Mailbox -> Nat]
          /\ d.nextId \in Nat \ {0}
      BY DEF Db
    <3>2. A \in [Mailbox -> Nat] /\ R \in [Mailbox -> Nat]
      BY <3>1
    <3>3. next \in Nat \ {0}
      BY <3>1
    <3> QED BY <3>1, <3>2, <3>3
  <2>1. /\ e \in Db /\ e.tenant = d.nextId /\ e.nextId = next
        /\ e.account = A /\ e.row = R
    <3>1. e = [d EXCEPT !.tenant = d.nextId, !.account = A, !.row = R,
                        !.nextId = next]
      OBVIOUS
    <3> HIDE DEF A, R, next, e
    <3> QED BY <2>0, <3>1 DEF Db
  <2>2. RegisterOrganization(d).db = e
    BY <1>2 DEF RegisterOrganization, Result
  <2> HIDE DEF e
  <2> QED BY <1>2, <2>1, <2>2 DEF Effect, Db, Mailbox, Newcomer
<1> QED BY <1>1, <1>2

\* An account, and nothing else.
LEMMA AccountEffect ==
    ASSUME NEW d \in Db, NEW m \in Mailbox, d.account[m] = 0, NEW q, m = Newcomer(q)
    PROVE  Effect(d, [d EXCEPT !.account[m] = d.nextId, !.nextId = @ + 1], q)
<1> DEFINE e == [d EXCEPT !.account[m] = d.nextId, !.nextId = @ + 1]
<1> DEFINE A == [d.account EXCEPT ![m] = d.nextId]
           next == d.nextId + 1
<1>1. /\ e \in Db /\ e.tenant = d.tenant /\ e.nextId = next /\ e.row = d.row
      /\ e.account = A
  <2>1. A \in [Mailbox -> Nat] /\ next \in Nat \ {0}
    BY DEF Db
  <2>2. e = [d EXCEPT !.account = A, !.nextId = next]
    OBVIOUS
  <2> HIDE DEF A, next, e
  <2> QED BY <2>1, <2>2 DEF Db
<1> HIDE DEF e
<1>2. Effect(d, e, q)
  BY <1>1 DEF Effect, Db
<1> QED BY <1>2 DEF e

LEMMA DeleteEffect ==
    ASSUME NEW d \in Db, NEW q, q.op = "delete", q.n \in Nat
    PROVE  Effect(d, DeleteUser(d, q.n).db, q)
<1> DEFINE e == [d EXCEPT !.account = [m \in Mailbox |-> IF @[m] = q.n THEN 0 ELSE @[m]]]
<1>1. /\ e \in Db /\ e.tenant = d.tenant /\ e.nextId = d.nextId /\ e.row = d.row
      /\ e.account = [m \in Mailbox |-> IF d.account[m] = q.n THEN 0 ELSE d.account[m]]
  BY DEF Db
<1>2. DeleteUser(d, q.n).db = d \/ DeleteUser(d, q.n).db = e
  BY DEF DeleteUser, Result
<1>3. Effect(d, d, q)
  BY KeepsIsAnEffect DEF Keeps
<1> HIDE DEF e
<1>4. Effect(d, e, q)
  BY <1>1 DEF Effect, Db
<1> QED BY <1>2, <1>3, <1>4

LEMMA InviteEffect ==
    ASSUME NEW d \in Db, NEW q, q.op = "invite", q.mail \in Mailbox, q.by = d.tenant
    PROVE  Effect(d, InviteUser(d, q.mail).db, q)
<1> DEFINE m == q.mail
           id == IF d.account[m] # 0 THEN d.account[m] ELSE d.nextId
           e == [d EXCEPT !.account[m] = id, !.row[m] = id,
                          !.nextId = IF id = @ THEN @ + 1 ELSE @]
           A == [d.account EXCEPT ![m] = id]
           R == [d.row EXCEPT ![m] = id]
           next == IF id = d.nextId THEN d.nextId + 1 ELSE d.nextId
<1>1. e \in Db /\ e.tenant = d.tenant /\ e.nextId = next /\ e.account = A /\ e.row = R
  <2>1. A \in [Mailbox -> Nat] /\ R \in [Mailbox -> Nat] /\ next \in Nat \ {0}
    BY DEF Db
  <2>2. e = [d EXCEPT !.account = A, !.row = R, !.nextId = next]
    OBVIOUS
  <2> HIDE DEF A, R, next, e
  <2> QED BY <2>1, <2>2 DEF Db
<1>2. InviteUser(d, q.mail).db = d \/ (InviteUser(d, q.mail).db = e /\ d.row[m] = 0)
  BY DEF InviteUser, Result
<1>3. Effect(d, d, q)
  BY KeepsIsAnEffect DEF Keeps
<1> HIDE DEF e
<1>4. ASSUME d.row[m] = 0 PROVE Effect(d, e, q)
  BY <1>1, <1>4 DEF Effect, Db, Newcomer
<1> QED BY <1>2, <1>3, <1>4

LEMMA IncidentWrite ==
    ASSUME NEW d \in Db, NEW n, NEW inc, n \in DOMAIN d.incidents => inc \in Incident
    PROVE  Keeps(d, [d EXCEPT !.incidents[n] = inc])
<1> DEFINE s == d.incidents
           e == [d EXCEPT !.incidents[n] = inc]
<1>1. s \in Seq(Incident)
  BY DEF Db
<1>2. [s EXCEPT ![n] = inc] \in Seq(Incident)
  <2>1. CASE n \in DOMAIN s
    BY <1>1, <2>1, ExceptSeq
  <2>2. CASE n \notin DOMAIN s
    <3>1. [s EXCEPT ![n] = inc] = s
      BY <1>1, <2>2
    <3> QED BY <1>1, <3>1
  <2> QED BY <2>1, <2>2
<1>3. /\ e.incidents = [s EXCEPT ![n] = inc] /\ e.tenant = d.tenant
      /\ e.account = d.account /\ e.row = d.row /\ e.nextId = d.nextId
      /\ e.category = d.category /\ e.stamped = d.stamped
      /\ e \in Db
  BY <1>2 DEF Db
<1> QED BY <1>3 DEF Keeps

LEMMA WrittenType ==
    ASSUME NEW inc \in Incident, NEW kind \in NoteKind, NEW at \in Nat
    PROVE  Written(inc, kind, at) \in Incident
<1>1. [kind |-> kind, at |-> at] \in [kind : NoteKind, at : Nat]
  OBVIOUS
<1>2. Append(inc.notes, [kind |-> kind, at |-> at]) \in Seq([kind : NoteKind, at : Nat])
  BY <1>1 DEF Incident
<1> QED BY <1>2 DEF Written, Incident

LEMMA ClockType ==
    ASSUME NEW d \in Db
    PROVE  d.clock \in Nat /\ Now \in Nat /\ Now <= d.clock
BY PlanAssumption DEF Db, Clocks

LEMMA MoveKeeps ==
    ASSUME NEW d \in Db, NEW n, NEW to \in {"in_review", "closed"},
           NEW who \in Reviewer \cup {NoReviewer}
    PROVE  Keeps(d, MoveIncident(d, n, to, who).db)
<1> DEFINE inc == d.incidents[n]
           x == Written(inc, to, d.clock)
           a == [x EXCEPT !.status = to, !.reviewed = d.clock,
                          !.assignee = IF @ = NoReviewer THEN who ELSE @]
           b == [x EXCEPT !.status = to, !.closed = d.clock]
<1>1. n \in DOMAIN d.incidents => x \in Incident
  <2>1. n \in DOMAIN d.incidents => inc \in Incident
    BY DEF Db
  <2> QED BY <2>1, ClockType, WrittenType DEF NoteKind
<1>2. n \in DOMAIN d.incidents => a \in Incident /\ b \in Incident
  <2> HIDE DEF x
  <2> QED BY <1>1, ClockType DEF Incident, PlanStatus
<1>3. /\ Keeps(d, [d EXCEPT !.incidents[n] = a]) /\ Keeps(d, [d EXCEPT !.incidents[n] = b])
      /\ Keeps(d, d)
  <2> HIDE DEF a, b
  <2> QED BY <1>2, IncidentWrite DEF Keeps
<1>4. \/ MoveIncident(d, n, to, who).db = d
      \/ MoveIncident(d, n, to, who).db = [d EXCEPT !.incidents[n] = a]
      \/ MoveIncident(d, n, to, who).db = [d EXCEPT !.incidents[n] = b]
  BY DEF MoveIncident, Result
<1> HIDE DEF a, b
<1> QED BY <1>3, <1>4

LEMMA AssignKeeps ==
    ASSUME NEW d \in Db, NEW n, NEW who \in Reviewer \cup {NoReviewer}, NEW at \in Nat
    PROVE  Keeps(d, Assigned(d, n, who, at))
<1> DEFINE a == [Written(d.incidents[n], "reassigned", at) EXCEPT !.assignee = who]
<1>1. n \in DOMAIN d.incidents => a \in Incident
  <2>1. n \in DOMAIN d.incidents => Written(d.incidents[n], "reassigned", at) \in Incident
    BY WrittenType DEF Db, NoteKind
  <2> QED BY <2>1 DEF Incident
<1>2. Keeps(d, [d EXCEPT !.incidents[n] = a])
  <2> HIDE DEF a
  <2> QED BY <1>1, IncidentWrite
<1>3. Assigned(d, n, who, at) = [d EXCEPT !.incidents[n] = a]
  BY DEF Assigned
<1> HIDE DEF a
<1> QED BY <1>2, <1>3

LEMMA FileKeeps ==
    ASSUME NEW d \in Db
    PROVE  Keeps(d, FileIncident(d).db) /\ Keeps(d, CreateCategory(d).db)
<1> DEFINE inc == [status |-> "open", assignee |-> NoReviewer, created |-> d.clock,
                   updated |-> d.clock, reviewed |-> Never, closed |-> Never, notes |-> << >>]
<1>1. inc \in Incident
  BY ClockType DEF Incident, PlanStatus, Never
<1>2. Append(d.incidents, inc) \in Seq(Incident)
  <2> HIDE DEF inc
  <2> QED BY <1>1 DEF Db
<1>3. FileIncident(d).db = [d EXCEPT !.incidents = Append(d.incidents, inc)]
  BY DEF FileIncident, Result
<1>4. Keeps(d, FileIncident(d).db)
  <2> HIDE DEF inc
  <2> QED BY <1>2, <1>3 DEF Keeps, Db
<1>5. Keeps(d, CreateCategory(d).db)
  BY DEF CreateCategory, Result, Keeps, Db
<1> QED BY <1>4, <1>5

LEMMA ServeEffect ==
    ASSUME NEW d \in Db, NEW q \in Requests
    PROVE  Effect(d, Serve(d, q).db, q)
<1>1. /\ q.mail \in Mailbox /\ q.n \in Nat /\ q.who \in Reviewer \cup {NoReviewer}
      /\ q.op \in {"register", "password", "create", "delete", "invite", "category", "file",
                   "claim", "close", "assign"}
  BY DEF Requests
<1>2. Keeps(d, d)
  BY DEF Keeps
<1>3. CASE q.op = "register"
  BY <1>3, RegisterEffect DEF Serve
<1>4. CASE q.op = "create"
  <2>1. Serve(d, q) = CreateUser(d, q.mail)
    BY <1>4 DEF Serve
  <2>2. CASE d.account[q.mail] # 0
    BY <1>2, <2>1, <2>2, KeepsIsAnEffect DEF CreateUser, Result
  <2>3. CASE d.account[q.mail] = 0
    <3> DEFINE m == q.mail
               e == [d EXCEPT !.account[m] = d.nextId, !.nextId = @ + 1]
    <3>1. Serve(d, q).db = e
      BY <2>1, <2>3 DEF CreateUser, Result
    <3>2. Effect(d, e, q)
      <4> HIDE DEF m
      <4>1. m = Newcomer(q)
        BY <1>4 DEF Newcomer, m
      <4> QED BY <1>1, <2>3, <4>1, AccountEffect DEF m
    <3> QED BY <3>1, <3>2
  <2> QED BY <2>2, <2>3
<1>5. CASE q.op = "delete"
  BY <1>1, <1>5, DeleteEffect DEF Serve
<1>6. CASE q.op = "password"
  BY <1>2, <1>6, KeepsIsAnEffect DEF Serve, SetPassword, Result
<1>7. CASE q.op \notin {"register", "create", "delete", "password"} /\ d.tenant # q.by
  BY <1>2, <1>7, KeepsIsAnEffect DEF Serve, Result
<1>8. CASE q.op = "invite" /\ d.tenant = q.by
  BY <1>1, <1>8, InviteEffect DEF Serve
<1>9. CASE q.op \in {"category", "file", "claim", "close", "assign"} /\ d.tenant = q.by
  <2>1. Keeps(d, Serve(d, q).db)
    <3>1. CASE q.op = "category" \/ q.op = "file"
      BY <1>9, <3>1, FileKeeps DEF Serve
    <3>2. CASE q.op = "claim" \/ q.op = "close"
      BY <1>1, <1>9, <3>2, MoveKeeps DEF Serve
    <3>3. CASE q.op = "assign"
      <4>1. \/ Serve(d, q).db = d
            \/ Serve(d, q).db = Assigned(d, q.n, q.who, d.clock)
        BY <1>9, <3>3 DEF Serve, AssignIncident, Result
      <4> QED BY <1>1, <1>2, <4>1, AssignKeeps, ClockType
    <3> QED BY <1>9, <3>1, <3>2, <3>3
  <2> QED BY <2>1, KeepsIsAnEffect
<1> QED BY <1>1, <1>3, <1>4, <1>5, <1>6, <1>7, <1>8, <1>9
-----------------------------------------------------------------------------
(***************************************************************************)
(* What holds of the requests under way.  Those that may delete an account *)
(* never meet a row that must keep it: nobody has a row under the id that  *)
(* they name, and no request that could give it one is under way.          *)
(***************************************************************************)
Deleter(q) == q.op = "delete" \/ q.stage = "made"
Live(d, q) == q.op = "invite" /\ q.by = d.tenant

\* A request by itself: what a deleter names is no row to keep, what an invite of the
\* tenant needs is there.
Fits(d, last, q) ==
    /\ q \in Requests
    /\ q.by < d.nextId
    /\ q.op = "register" => q.mail = Admin
    /\ q.op = "invite" => q.by # 0
    /\ q.stage # "sent" => q.at \in Clocks
    /\ q.stage = "made" => q.n # last
    /\ Deleter(q) => /\ q.n # 0 /\ q.n < d.nextId
                     /\ \A m \in Mailbox : d.row[m] # q.n \/ (m = Admin /\ q.n # last)
    /\ Live(d, q) => /\ d.account[q.mail] # 0 /\ q.stage # "made"
                     /\ q.stage = "adopted" => q.n = d.account[q.mail]

\* A request beside another: no account is deleted that an invite relies on, and nobody
\* has heard of the tenant that a registration is about to commit.
Apart(d, q, w) ==
    /\ Deleter(q) /\ Live(d, w) => d.account[w.mail] # q.n
    /\ q.stage = "made" => w.by # q.n

\* The identities, and the requests that are late.
Harmless(d, last, l) ==
    /\ Sound(d, last)
    /\ \A q \in l : Fits(d, last, q)
    /\ \A q, w \in l : Apart(d, q, w)

\* A request that the script may send now.
Allowed(q) ==
    /\ Fits(db, told, q) /\ q.stage = "sent"
    /\ \A w \in late \cup {q} : Apart(db, q, w) /\ Apart(db, w, q)

LEMMA DbFacts ==
    ASSUME NEW d \in Db
    PROVE  /\ d.tenant \in Nat /\ d.nextId \in Nat /\ d.nextId # 0
           /\ \A m \in Mailbox : d.account[m] \in Nat /\ d.row[m] \in Nat
BY DEF Db

LEMMA RequestFacts ==
    ASSUME NEW q \in Requests
    PROVE  /\ q.by \in Nat /\ q.n \in Nat /\ q.mail \in Mailbox
           /\ q.who \in Reviewer \cup {NoReviewer} /\ q.at \in Nat
BY DEF Requests

\* What the server does with such a request leaves the identities sound ...
LEMMA SoundAfter ==
    ASSUME NEW d, NEW last, Sound(d, last), NEW q, Fits(d, last, q), NEW e, Effect(d, e, q)
    PROVE  Sound(e, last)
<1>1. /\ d \in Db /\ e \in Db /\ q \in Requests
  BY DEF Sound, Effect, Fits
<1>2. /\ d.nextId \in Nat /\ e.nextId \in Nat /\ d.tenant \in Nat /\ e.tenant \in Nat
      /\ d.nextId <= e.nextId /\ q.n \in Nat
      /\ \A m \in Mailbox : /\ d.account[m] \in Nat /\ d.row[m] \in Nat
                            /\ e.account[m] \in Nat /\ e.row[m] \in Nat
  BY <1>1, DbFacts, RequestFacts DEF Effect
<1>3. e.tenant < e.nextId /\ last \in Nat /\ last < e.nextId
  BY <1>2 DEF Sound, Effect
<1>4. ASSUME NEW m \in Mailbox, NEW w \in Mailbox, m # w, e.account[m] # 0
      PROVE  e.account[m] # e.account[w]
  <2>1. /\ d.account[m] < d.nextId /\ d.account[w] < d.nextId
        /\ d.account[m] # 0 => d.account[m] # d.account[w]
        /\ d.account[w] # 0 => d.account[w] # d.account[m]
    BY <1>4 DEF Sound
  <2> QED BY <1>2, <1>4, <2>1 DEF Effect
<1>5. ASSUME NEW m \in Mailbox PROVE e.account[m] < e.nextId /\ e.row[m] < e.nextId
  <2>1. e.account[m] < e.nextId
    BY <1>2 DEF Sound, Effect
  <2> QED BY <1>2, <2>1 DEF Sound, Effect
<1>6. ASSUME NEW m \in Mailbox, e.row[m] # 0 PROVE Kept(e, last, m) /\ e.tenant # 0
  <2>1. CASE e.row[m] = d.row[m]
    <3>1. Kept(d, last, m) /\ d.tenant # 0
      BY <1>6, <2>1 DEF Sound
    <3>2. e.tenant # 0
      BY <3>1 DEF Effect
    <3>3. q.op = "delete" => q.n # d.row[m] \/ (m = Admin /\ q.n # last)
      BY DEF Fits, Deleter
    <3>4. d.account[m] = d.row[m] => d.account[m] # 0
      BY <1>6, <2>1
    <3> QED BY <2>1, <3>1, <3>2, <3>3, <3>4 DEF Effect, Kept
  <2>2. CASE e.row[m] # d.row[m]
    <3>1. e.row[m] = e.account[m]
          /\ \/ q.op = "register" /\ d.tenant = 0 /\ e.tenant # 0
             \/ q.op = "invite" /\ q.by = d.tenant
      BY <2>2 DEF Effect
    <3>2. e.tenant # 0
      BY <3>1 DEF Fits, Effect
    <3> QED BY <3>1, <3>2 DEF Kept
  <2> QED BY <2>1, <2>2
<1> QED BY <1>1, <1>3, <1>4, <1>5, <1>6 DEF Sound

\* ... every other request what it was ...
LEMMA FitsAfter ==
    ASSUME NEW d, NEW last, Sound(d, last), NEW q, Fits(d, last, q), NEW e, Effect(d, e, q),
           NEW x, Fits(d, last, x), Apart(d, q, x), Apart(d, x, q)
    PROVE  Fits(e, last, x)
<1>1. /\ d \in Db /\ e \in Db /\ q \in Requests /\ x \in Requests
  BY DEF Sound, Effect, Fits
<1>2. /\ d.nextId \in Nat /\ e.nextId \in Nat /\ d.tenant \in Nat /\ e.tenant \in Nat
      /\ d.nextId <= e.nextId /\ q.n \in Nat /\ x.n \in Nat /\ x.by \in Nat
      /\ x.by < d.nextId /\ x.mail \in Mailbox /\ q.mail \in Mailbox
      /\ \A m \in Mailbox : /\ d.account[m] \in Nat /\ d.row[m] \in Nat
                            /\ e.account[m] \in Nat /\ e.row[m] \in Nat
  BY <1>1, DbFacts, RequestFacts DEF Effect, Fits
<1>3. ASSUME Deleter(x), NEW m \in Mailbox
      PROVE  e.row[m] # x.n \/ (m = Admin /\ x.n # last)
  <2>1. d.row[m] # x.n \/ (m = Admin /\ x.n # last)
    BY <1>3 DEF Fits
  <2>2. CASE e.row[m] = d.row[m]
    BY <2>1, <2>2
  <2>3. CASE e.row[m] = d.nextId
    BY <1>2, <1>3, <2>3 DEF Fits
  <2>4. CASE q.op = "invite" /\ q.by = d.tenant /\ m = q.mail /\ e.row[m] = d.account[m]
    BY <1>3, <2>4 DEF Apart, Live
  <2>5. \/ e.row[m] = d.row[m] \/ e.row[m] = d.nextId
        \/ q.op = "invite" /\ q.by = d.tenant /\ m = q.mail /\ e.row[m] = d.account[m]
    BY DEF Effect
  <2> QED BY <2>2, <2>3, <2>4, <2>5
<1>4. ASSUME Live(e, x)
      PROVE  /\ e.account[x.mail] # 0 /\ x.stage # "made"
             /\ x.stage = "adopted" => x.n = e.account[x.mail]
  <2>1. Live(d, x)
    BY <1>2, <1>4 DEF Live, Effect
  <2>2. /\ d.account[x.mail] # 0 /\ x.stage # "made"
        /\ x.stage = "adopted" => x.n = d.account[x.mail]
    BY <2>1 DEF Fits
  <2>3. q.op = "delete" => d.account[x.mail] # q.n
    BY <2>1 DEF Apart, Deleter
  <2>4. e.account[x.mail] = d.account[x.mail]
    BY <1>2, <2>2, <2>3 DEF Effect
  <2> QED BY <2>2, <2>4
<1>5. x.by < e.nextId /\ (Deleter(x) => x.n # 0 /\ x.n < e.nextId)
  BY <1>2 DEF Fits
<1> QED BY <1>3, <1>4, <1>5 DEF Fits

\* ... and any two of them apart.
LEMMA ApartAfter ==
    ASSUME NEW d, NEW last, Sound(d, last), NEW q, NEW e, Effect(d, e, q),
           NEW x, Fits(d, last, x), NEW y, Fits(d, last, y), Apart(d, x, y)
    PROVE  Apart(e, x, y)
<1>1. /\ d \in Db /\ e \in Db /\ x \in Requests /\ y \in Requests
  BY DEF Sound, Effect, Fits
<1>2. /\ d.nextId \in Nat /\ e.nextId \in Nat /\ d.tenant \in Nat /\ e.tenant \in Nat
      /\ d.nextId <= e.nextId /\ x.n \in Nat /\ y.by \in Nat
      /\ y.by < d.nextId /\ y.mail \in Mailbox
      /\ \A m \in Mailbox : d.account[m] \in Nat /\ e.account[m] \in Nat
  BY <1>1, DbFacts, RequestFacts DEF Effect, Fits
<1>3. ASSUME Deleter(x), Live(e, y) PROVE e.account[y.mail] # x.n
  <2>1. Live(d, y)
    BY <1>2, <1>3 DEF Live, Effect
  <2>2. d.account[y.mail] # x.n /\ x.n # 0 /\ x.n < d.nextId
    BY <1>3, <2>1 DEF Apart, Fits
  <2> QED BY <1>2, <2>2 DEF Effect
<1> QED BY <1>3 DEF Apart

\* One attempt, or a request that lands in one step: what is left of late stays harmless.
LEMMA EffectIsHarmless ==
    ASSUME Harmless(db, told, late), NEW q, Allowed(q) \/ q \in late,
           NEW e, Effect(db, e, q), NEW l, l \subseteq late \cup {q}
    PROVE  Harmless(e, told, l)
<1>1. Sound(db, told) /\ Fits(db, told, q)
  BY DEF Allowed, Harmless
<1>2. \A x \in late \cup {q} : Fits(db, told, x) /\ Apart(db, q, x) /\ Apart(db, x, q)
  BY <1>1 DEF Allowed, Harmless
<1>3. \A x, y \in late \cup {q} : Apart(db, x, y)
  BY <1>2 DEF Harmless
<1>4. Sound(e, told)
  BY <1>1, SoundAfter
<1>5. ASSUME NEW x \in late \cup {q} PROVE Fits(e, told, x)
  BY <1>1, <1>2, FitsAfter
<1>6. ASSUME NEW x \in late \cup {q}, NEW y \in late \cup {q} PROVE Apart(e, x, y)
  BY <1>1, <1>2, <1>3, ApartAfter
<1> QED BY <1>4, <1>5, <1>6 DEF Harmless

\* One attempt of the script, whatever comes of it.
LEMMA ExchangeIsHarmless ==
    ASSUME Harmless(db, told, late), NEW q, Allowed(q), NEW a, Exchange(q, a)
    PROVE  /\ Harmless(db', told, late')
           /\ Effect(db, db', q)
           /\ late' = late \/ (UNCHANGED db /\ late' = late \cup {q})
<1>1. db \in Db /\ q \in Requests
  BY DEF Harmless, Sound, Allowed, Fits
<1>2. Effect(db, db', q)
  <2>1. Effect(db, Serve(db, q).db, q)
    BY <1>1, ServeEffect
  <2>2. Effect(db, db, q)
    BY <1>1, KeepsIsAnEffect DEF Keeps
  <2> QED BY <2>1, <2>2 DEF Exchange
<1>3. late' = late \/ (UNCHANGED db /\ late' = late \cup {q})
  BY DEF Exchange
<1>4. late' \subseteq late \cup {q}
  BY <1>3
<1> QED BY <1>2, <1>3, <1>4, EffectIsHarmless

\* A request that is replaced by what has become of it.
LEMMA ReplacedIsHarmless ==
    ASSUME Harmless(db, told, late), NEW q \in late, NEW e, Effect(db, e, q),
           NEW h, Fits(e, told, h), Apart(e, h, h),
           \A x \in late \ {q} : Apart(e, h, x) /\ Apart(e, x, h)
    PROVE  Harmless(e, told, (late \ {q}) \cup {h})
<1>1. Harmless(e, told, late)
  BY EffectIsHarmless
<1> QED BY <1>1 DEF Harmless

LEMMA BegunIsHarmless ==
    ASSUME Harmless(db, told, late), NEW q \in late, Begun(q)
    PROVE  /\ Effect(db, db', q) /\ Harmless(db', told, late')
           /\ \E h : /\ late' = (late \ {q}) \cup {h} /\ h.op = q.op /\ h.by = q.by /\ h.n = q.n
                     /\ ~Deleter(h)
<1>1. /\ db \in Db /\ q \in Requests /\ Fits(db, told, q) /\ db.clock \in Clocks
      /\ db.clock \in Nat
  BY DEF Harmless, Sound, Fits, Db, Clocks
<1>2. PICK h : h = [q EXCEPT !.stage = "begun", !.at = db.clock]
  OBVIOUS
<1>3. /\ h \in Requests /\ h.op = q.op /\ h.by = q.by /\ h.mail = q.mail /\ h.n = q.n
      /\ h.stage = "begun" /\ h.at = db.clock
  BY <1>1, <1>2 DEF Requests
<1>4. q.op \in {"register", "invite", "assign"} /\ q.stage = "sent"
  BY DEF Begun
<1>5. late' = (late \ {q}) \cup {h}
  BY <1>2 DEF Begun
<1>6. Keeps(db, db')
  <2> DEFINE next == db.clock + 1
  <2>1. db' = db \/ db' = [db EXCEPT !.clock = next]
    BY DEF Begun
  <2>2. next \in Clocks
    BY <1>1, PlanAssumption DEF Clocks
  <2> HIDE DEF next
  <2> QED BY <1>1, <2>1, <2>2 DEF Keeps, Db
<1>7. Effect(db, db', q)
  BY <1>1, <1>6, KeepsIsAnEffect
<1>8. /\ db'.tenant = db.tenant /\ db'.account = db.account /\ db'.row = db.row
      /\ db'.nextId = db.nextId
  BY <1>6 DEF Keeps
<1>9. ~Deleter(h)
  BY <1>3, <1>4 DEF Deleter
<1>10. Fits(db', told, h)
  BY <1>1, <1>3, <1>4, <1>8, <1>9 DEF Fits, Live
<1>11. Apart(db', h, h) /\ \A x \in late \ {q} : Apart(db', h, x)
  BY <1>3, <1>9 DEF Apart
<1>12. ASSUME NEW x \in late \ {q} PROVE Apart(db', x, h)
  <2>1. Apart(db, x, q)
    BY DEF Harmless
  <2> QED BY <1>3, <1>8, <2>1 DEF Apart, Live
<1>13. Harmless(db', told, late')
  BY <1>5, <1>7, <1>10, <1>11, <1>12, ReplacedIsHarmless
<1> QED BY <1>3, <1>5, <1>7, <1>9, <1>13

LEMMA MadeIsHarmless ==
    ASSUME Harmless(db, told, late), NEW q \in late, Made(q)
    PROVE  /\ Effect(db, db', q) /\ Harmless(db', told, late')
           /\ \E h : /\ late' = (late \ {q}) \cup {h} /\ h.op = q.op /\ h.by = q.by
                     /\ Deleter(h) => h.n = db.nextId
<1>1. /\ db \in Db /\ q \in Requests /\ Fits(db, told, q) /\ q.mail \in Mailbox
      /\ q.by \in Nat /\ q.by < db.nextId /\ db.nextId \in Nat /\ db.nextId # 0
      /\ told \in Nat /\ told < db.nextId /\ q.at \in Nat
      /\ \A m \in Mailbox : /\ db.account[m] \in Nat /\ db.account[m] < db.nextId
                            /\ db.row[m] \in Nat /\ db.row[m] < db.nextId
  BY DbFacts, RequestFacts DEF Harmless, Sound, Fits
<1>2. /\ q.stage = "begun" /\ q.op \in {"register", "invite"} /\ q.at \in Clocks
  BY <1>1 DEF Made, Fits
<1>3. q.op = "register" => q.mail = Admin
  BY <1>1 DEF Fits
<1>4. CASE db.account[q.mail] = 0 /\ db' = CreateUser(db, q.mail).db
           /\ late' = (late \ {q}) \cup {[q EXCEPT !.stage = "made", !.n = db.nextId]}
  <2>1. PICK h : h = [q EXCEPT !.stage = "made", !.n = db.nextId]
    OBVIOUS
  <2>2. /\ h \in Requests /\ h.op = q.op /\ h.by = q.by /\ h.mail = q.mail
        /\ h.n = db.nextId /\ h.stage = "made" /\ h.at = q.at
    BY <1>1, <2>1 DEF Requests
  <2>3. late' = (late \ {q}) \cup {h}
    BY <1>4, <2>1
  <2>4. ~Live(db, q)
    BY <1>1, <1>4 DEF Fits
  <2>5. PICK e : e = db'
    OBVIOUS
  <2>6. e = [db EXCEPT !.account[q.mail] = db.nextId, !.nextId = @ + 1]
    BY <1>4, <2>5 DEF CreateUser, Result
  <2>7. Effect(db, e, q)
    <3>1. q.mail = Newcomer(q)
      BY <1>3 DEF Newcomer
    <3> QED BY <1>1, <1>4, <2>6, <3>1, AccountEffect
  <2>8. e.tenant = db.tenant /\ e.row = db.row /\ e.nextId = db.nextId + 1
    BY <1>1, <2>6 DEF Db
  <2>9. ~Live(e, h)
    BY <2>2, <2>4, <2>8 DEF Live
  <2>10. Fits(e, told, h)
    BY <1>1, <1>2, <1>3, <2>2, <2>8, <2>9 DEF Fits, Deleter
  <2>11. Apart(e, h, h)
    BY <1>1, <2>2, <2>9 DEF Apart
  <2>12. ASSUME NEW x \in late \ {q} PROVE Apart(e, h, x) /\ Apart(e, x, h)
    <3>1. Fits(db, told, x) /\ Apart(db, x, q)
      BY DEF Harmless
    <3>2. x \in Requests /\ x.by \in Nat /\ x.by < db.nextId /\ x.n \in Nat /\ x.mail \in Mailbox
      BY <3>1, RequestFacts DEF Fits
    <3>3. Live(e, x) => e.account[x.mail] = db.account[x.mail]
      <4>1. Live(e, x) => db.account[x.mail] # 0
        BY <2>8, <3>1 DEF Live, Fits
      <4> QED BY <1>1, <1>2, <2>7, <3>2, <4>1 DEF Effect
    <3>4. Apart(e, h, x)
      BY <1>1, <2>2, <3>2, <3>3 DEF Apart
    <3>5. Apart(e, x, h)
      BY <2>2, <2>9, <3>1 DEF Apart
    <3> QED BY <3>4, <3>5
  <2>13. Harmless(e, told, late')
    BY <2>3, <2>7, <2>10, <2>11, <2>12, ReplacedIsHarmless
  <2> QED BY <2>2, <2>3, <2>5, <2>7, <2>13
<1>5. CASE q.op = "invite" /\ db.account[q.mail] # 0 /\ db' = db
           /\ late' = (late \ {q}) \cup {[q EXCEPT !.stage = "adopted", !.n = db.account[q.mail]]}
  <2>1. PICK h : h = [q EXCEPT !.stage = "adopted", !.n = db.account[q.mail]]
    OBVIOUS
  <2>2. /\ h \in Requests /\ h.op = q.op /\ h.by = q.by /\ h.mail = q.mail
        /\ h.n = db.account[q.mail] /\ h.stage = "adopted" /\ h.at = q.at
    BY <1>1, <2>1 DEF Requests
  <2>3. late' = (late \ {q}) \cup {h}
    BY <1>5, <2>1
  <2>4. Effect(db, db, q)
    BY <1>1, KeepsIsAnEffect DEF Keeps
  <2>5. ~Deleter(h)
    BY <1>5, <2>2 DEF Deleter
  <2>6. Fits(db, told, h)
    BY <1>1, <1>2, <1>5, <2>2, <2>5 DEF Fits, Live
  <2>7. Apart(db, h, h) /\ \A x \in late \ {q} : Apart(db, h, x)
    BY <2>2, <2>5 DEF Apart
  <2>8. ASSUME NEW x \in late \ {q} PROVE Apart(db, x, h)
    <3>1. Apart(db, x, q)
      BY DEF Harmless
    <3> QED BY <2>2, <3>1 DEF Apart, Live
  <2>9. Harmless(db, told, late')
    BY <2>3, <2>4, <2>6, <2>7, <2>8, ReplacedIsHarmless
  <2> QED BY <1>5, <2>2, <2>3, <2>4, <2>5, <2>9
<1> QED BY <1>4, <1>5 DEF Made

LEMMA CompensatedIsHarmless ==
    ASSUME Harmless(db, told, late), NEW q \in late, Compensated(q)
    PROVE  /\ Effect(db, db', q) /\ Harmless(db', told, late')
           /\ \E h : /\ late' = (late \ {q}) \cup {h} /\ h.op = "delete" /\ h.n = q.n
                     /\ Deleter(q)
<1>1. /\ db \in Db /\ q \in Requests /\ Fits(db, told, q) /\ q.n \in Nat /\ db' = db
      /\ Deleter(q) /\ q.stage = "made"
  BY RequestFacts DEF Harmless, Sound, Fits, Compensated, Deleter
<1>2. PICK h : h = Request("delete", 0, Admin, q.n, NoReviewer)
  OBVIOUS
<1>3. h \in Requests /\ h.op = "delete" /\ h.by = 0 /\ h.n = q.n /\ h.stage = "sent"
  BY <1>1, <1>2, PlanAssumption DEF Request, Requests, Mailbox, Never
<1>4. late' = (late \ {q}) \cup {h}
  BY <1>2 DEF Compensated
<1>5. Effect(db, db, q)
  BY <1>1, KeepsIsAnEffect DEF Keeps
<1>6. Fits(db, told, h)
  <2>1. 0 < db.nextId
    BY <1>1 DEF Db
  <2> QED BY <1>1, <1>3, <2>1 DEF Fits, Deleter, Live
<1>7. Apart(db, h, h)
  BY <1>3 DEF Apart, Live
<1>8. ASSUME NEW x \in late \ {q} PROVE Apart(db, h, x) /\ Apart(db, x, h)
  <2>1. Apart(db, q, x) /\ Fits(db, told, x)
    BY DEF Harmless
  <2> QED BY <1>1, <1>3, <2>1 DEF Apart, Fits, Deleter, Live
<1>9. Harmless(db, told, late')
  BY <1>4, <1>5, <1>6, <1>7, <1>8, ReplacedIsHarmless
<1> QED BY <1>1, <1>3, <1>4, <1>5, <1>9

\* A late transaction commits, other than a registration.
LEMMA CommittedIsHarmless ==
    ASSUME Harmless(db, told, late), NEW q \in late, Committed(q), q.op # "register"
    PROVE  Effect(db, db', q) /\ Harmless(db', told, late') /\ late' \subseteq late
<1>1. /\ db \in Db /\ q \in Requests /\ Fits(db, told, q) /\ q.mail \in Mailbox /\ q.n \in Nat
      /\ q.who \in Reviewer \cup {NoReviewer} /\ q.at \in Nat
  BY RequestFacts DEF Harmless, Sound, Fits
<1>2. late' \subseteq late
  BY DEF Committed
<1>3. CASE q.op = "invite" /\ db.tenant = q.by /\ q.stage \in {"made", "adopted"}
           /\ db.row[q.mail] = 0
           /\ db' = [db EXCEPT !.row[q.mail] = q.n]
  <2>1. /\ q.n = db.account[q.mail] /\ q.n # 0
    BY <1>1, <1>3 DEF Fits, Live
  <2>2. PICK R : R = [db.row EXCEPT ![q.mail] = q.n]
    OBVIOUS
  <2>3. R \in [Mailbox -> Nat] /\ R[q.mail] = q.n
        /\ \A m \in Mailbox : m # q.mail => R[m] = db.row[m]
    BY <1>1, <2>2 DEF Db
  <2>4. PICK e : e = [db EXCEPT !.row = R]
    OBVIOUS
  <2>5. db' = e
    BY <1>3, <2>2, <2>4
  <2>6. /\ e \in Db /\ e.row = R /\ e.account = db.account /\ e.tenant = db.tenant
        /\ e.nextId = db.nextId
    BY <1>1, <2>3, <2>4 DEF Db
  <2>7. db.nextId <= e.nextId
    BY <1>1, <2>6, DbFacts
  <2>8. Effect(db, e, q)
    BY <1>1, <1>3, <2>1, <2>3, <2>6, <2>7 DEF Effect
  <2> QED BY <1>2, <2>5, <2>8, EffectIsHarmless
<1>4. CASE q.op = "assign" /\ db' = Assigned(db, q.n, q.who, q.at)
  <2>1. Effect(db, db', q)
    BY <1>1, <1>4, AssignKeeps, KeepsIsAnEffect
  <2> QED BY <1>2, <2>1, EffectIsHarmless
<1> QED BY <1>3, <1>4 DEF Committed

\* A late registration commits: no run knows of its organisation.
LEMMA RegisteredIsHarmless ==
    ASSUME Harmless(db, told, late), NEW q \in late, Committed(q), q.op = "register"
    PROVE  /\ Harmless(db', told, late') /\ late' \subseteq late
           /\ q \in Requests /\ q.n # 0 /\ q.n # told /\ q.n < db.nextId /\ db.tenant = 0
           /\ db'.tenant = q.n /\ db'.account = db.account /\ db'.nextId = db.nextId
           /\ db'.row[Admin] = q.n /\ \A m \in Mailbox : m # Admin => db'.row[m] = 0
           /\ \A w \in late : w.by # q.n
           /\ db' = [db EXCEPT !.tenant = q.n, !.row[Admin] = q.n] /\ db' \in Db
<1>1. /\ db \in Db /\ q \in Requests /\ Fits(db, told, q) /\ q.n \in Nat /\ Deleter(q)
      /\ q.stage = "made" /\ db.tenant = 0 /\ Admin \in Mailbox
      /\ late' = late \ {q} /\ db' = [db EXCEPT !.tenant = q.n, !.row[Admin] = q.n]
  BY RequestFacts DEF Harmless, Sound, Fits, Committed, Deleter, Mailbox
<1>2. q.n # 0 /\ q.n < db.nextId /\ q.n # told
  BY <1>1 DEF Fits
<1>3. \A m \in Mailbox : db.row[m] = 0
  BY <1>1 DEF Harmless, Sound
<1>4. \A w \in late : w.by # q.n
  BY <1>1 DEF Harmless, Apart
<1>5. PICK R : R = [db.row EXCEPT ![Admin] = q.n]
  OBVIOUS
<1>6. R \in [Mailbox -> Nat] /\ R[Admin] = q.n /\ \A m \in Mailbox : m # Admin => R[m] = 0
  BY <1>1, <1>3, <1>5 DEF Db
<1>7. PICK e : e = [db EXCEPT !.tenant = q.n, !.row = R]
  OBVIOUS
<1>8. db' = e
  BY <1>1, <1>5, <1>7
<1>9. /\ e \in Db /\ e.row = R /\ e.account = db.account /\ e.tenant = q.n
      /\ e.nextId = db.nextId
  BY <1>1, <1>6, <1>7 DEF Db
<1>10. Sound(e, told)
  BY <1>1, <1>2, <1>6, <1>9 DEF Harmless, Sound, Kept
<1>11. ASSUME NEW x \in late PROVE Fits(e, told, x)
  <2>1. Fits(db, told, x)
    BY DEF Harmless
  <2>2. ~Live(e, x)
    BY <1>4, <1>9 DEF Live
  <2> QED BY <1>2, <1>6, <1>9, <2>1, <2>2 DEF Fits
<1>12. ASSUME NEW x \in late, NEW y \in late PROVE Apart(e, x, y)
  <2>1. ~Live(e, y)
    BY <1>4, <1>9 DEF Live
  <2>2. Apart(db, x, y)
    BY DEF Harmless
  <2> QED BY <2>1, <2>2 DEF Apart
<1>13. Harmless(db', told, late')
  BY <1>1, <1>8, <1>10, <1>11, <1>12 DEF Harmless
<1> QED BY <1>1, <1>2, <1>4, <1>6, <1>8, <1>9, <1>13
-----------------------------------------------------------------------------
(***************************************************************************)
(* What holds of the script.  The accounts it lists to be purged have no   *)
(* rows once the rows are purged, but for the administrator's of an        *)
(* organisation that no run was told of, and they get none.                *)
(***************************************************************************)
Deleters == {q \in late : Deleter(q)}
Invites == {q \in late : q.op = "invite"}

ListedIsClear ==
    /\ \A m \in Mailbox : db.row[m] \notin listed \/ (m = Admin /\ db.row[Admin] # told)
    /\ \A i \in Invites : i.by # db.tenant

Seeding == {"password", "create", "invite", "category", "incidents"}

ScriptIsCareful ==
    /\ pc \in Phases
    /\ ids \in [Mailbox -> Nat] /\ \A m \in Mailbox : ids[m] < db.nextId
    /\ listed \subseteq Nat \ {0} /\ \A id \in listed : id < db.nextId
    /\ ids[Admin] \in {0, told}
    /\ pc \in Seeding => ids[Admin] # 0
    /\ user \in Nat \ {0}
    /\ pc \in {"preflight", "names", "rows", "accounts", "register", "password"} => user = 1
    /\ pc \in {"create", "invite"} => user <= Len(Users)
    /\ pc = "invite" /\ ids[Admin] = db.tenant =>
          /\ db.account[Users[user]] # 0
          /\ \A q \in Deleters : db.account[Users[user]] # q.n
    /\ pc = "rows" => doomed = db.tenant \/ (doomed = 0 /\ ListedIsClear)
    /\ pc = "accounts" => ListedIsClear

RunInv == Harmless(db, told, late) /\ ScriptIsCareful

LEMMA RunFacts ==
    ASSUME RunInv
    PROVE  /\ db \in Db /\ Sound(db, told) /\ late \subseteq Requests /\ told \in Nat
           /\ db.nextId \in Nat /\ db.nextId # 0 /\ db.tenant \in Nat /\ 0 < db.nextId
           /\ db.tenant < db.nextId /\ told < db.nextId
           /\ \A m \in Mailbox : /\ db.account[m] \in Nat /\ db.row[m] \in Nat
                                 /\ db.account[m] < db.nextId /\ db.row[m] < db.nextId
           /\ \A q \in late : /\ q.by \in Nat /\ q.n \in Nat /\ q.mail \in Mailbox
                              /\ q.by < db.nextId /\ Fits(db, told, q)
<1>1. db \in Db /\ Sound(db, told) /\ late \subseteq Requests /\ \A q \in late : Fits(db, told, q)
  BY DEF RunInv, Harmless, Sound, Fits
<1>2. db.nextId \in Nat /\ db.nextId # 0 /\ 0 < db.nextId
  BY <1>1 DEF Db
<1> QED BY <1>1, <1>2, DbFacts, RequestFacts DEF Sound, Fits

\* While the script stays in its phase, nothing that the server does disturbs it.
LEMMA CarefulUnderEffect ==
    ASSUME RunInv, NEW q, Effect(db, db', q), Allowed(q) \/ q \in late,
           \A h \in late' :
               /\ \/ h.op = "invite" => pc = "invite"
                  \/ \E w \in late : w.op = "invite" /\ w.by = h.by
               /\ \/ Deleter(h) => pc = "accounts" \/ h.n = db.nextId
                  \/ \E w \in late : Deleter(w) /\ w.n = h.n,
           q \notin late => /\ q.op = "invite" => pc = "invite"
                            /\ q.op = "delete" => pc = "accounts",
           UNCHANGED <<pc, ids, listed, doomed, user, told>>
    PROVE  ScriptIsCareful'
<1>1. /\ db' \in Db /\ db'.nextId \in Nat /\ db'.tenant \in Nat /\ db.nextId <= db'.nextId
      /\ \A m \in Mailbox : db'.account[m] \in Nat /\ db'.row[m] \in Nat
  BY DbFacts DEF Effect
<1>2. /\ q.by \in Nat /\ q.n \in Nat /\ q.mail \in Mailbox /\ q.by < db.nextId
      /\ Fits(db, told, q)
  BY RequestFacts DEF RunInv, Harmless, Allowed, Fits
<1>3. q.op = "invite" => q.by # 0
  BY <1>2 DEF Fits
<1>4. /\ db.nextId \in Nat /\ db.tenant \in Nat /\ told \in Nat
      /\ \A m \in Mailbox : /\ db.account[m] \in Nat /\ db.account[m] < db.nextId
                            /\ db.row[m] \in Nat
      /\ \A h \in late : h.n \in Nat /\ h.by \in Nat /\ h.by < db.nextId
  BY RunFacts
<1>5. ASSUME pc = "invite", ids[Admin] = db'.tenant
      PROVE  /\ db'.account[Users[user]] # 0
             /\ \A d \in Deleters' : db'.account[Users[user]] # d.n
  <2>1. ids[Admin] = db.tenant
    <3>1. ids[Admin] \in Nat /\ ids[Admin] < db.nextId
      BY DEF RunInv, ScriptIsCareful, Mailbox
    <3> QED BY <1>1, <1>4, <1>5, <3>1 DEF Effect
  <2>2. Users[user] \in Mailbox
    BY <1>5, RunAssumption DEF RunInv, ScriptIsCareful
  <2>3. /\ db.account[Users[user]] # 0
        /\ \A d \in Deleters : db.account[Users[user]] # d.n
    BY <1>5, <2>1 DEF RunInv, ScriptIsCareful
  <2>4. q.op = "delete" => q \in Deleters
    BY <1>5 DEF Deleters, Deleter
  <2>5. db'.account[Users[user]] = db.account[Users[user]]
    BY <2>2, <2>3, <2>4 DEF Effect
  <2>6. ASSUME NEW d \in Deleters' PROVE db.account[Users[user]] # d.n
    <3>1. d \in late' /\ Deleter(d)
      BY DEF Deleters
    <3>2. d.n = db.nextId \/ \E w \in Deleters : w.n = d.n
      BY <1>5, <3>1 DEF Deleters
    <3> QED BY <1>4, <2>2, <2>3, <3>2
  <2> QED BY <2>3, <2>5, <2>6
<1>6. \A id \in listed : id \in Nat /\ id # 0 /\ id < db.nextId
  BY DEF RunInv, ScriptIsCareful
<1>7. pc # "invite" => \A i \in Invites' : \E w \in Invites : w.by = i.by
  BY DEF Invites
<1>8. ASSUME ListedIsClear, pc \in {"rows", "accounts"}
      PROVE  ListedIsClear'
  <2>1. ASSUME NEW m \in Mailbox
        PROVE  db'.row[m] \notin listed \/ (m = Admin /\ db'.row[Admin] # told)
    <3>1. db.row[m] \notin listed \/ (m = Admin /\ db.row[Admin] # told)
      BY <1>8 DEF ListedIsClear
    <3>2. q.op = "invite" => q.by # db.tenant
      BY <1>8 DEF ListedIsClear, Invites
    <3>3. db'.row[m] = db.row[m] \/ db'.row[m] = db.nextId
      BY <3>2 DEF Effect
    <3> QED BY <1>4, <1>6, <3>1, <3>3
  <2>2. ASSUME NEW i \in Invites' PROVE i.by # db'.tenant
    <3>1. PICK w \in Invites : w.by = i.by
      BY <1>7, <1>8
    <3>2. w.by \in Nat /\ w.by < db.nextId /\ w.by # db.tenant
      BY <1>4, <1>8 DEF ListedIsClear, Invites
    <3> QED BY <1>1, <1>4, <3>1, <3>2 DEF Effect
  <2> QED BY <2>1, <2>2 DEF ListedIsClear
<1>9. ASSUME pc = "rows", doomed = db.tenant, doomed # db'.tenant
      PROVE  doomed = 0 /\ ListedIsClear'
  <2>1. db.tenant = 0 /\ db'.tenant = db.nextId
    BY <1>1, <1>9 DEF Effect
  <2>2. ASSUME NEW m \in Mailbox PROVE db'.row[m] \notin listed
    <3>1. db.row[m] = 0
      BY <2>1, RunFacts DEF Sound
    <3>2. db'.row[m] = 0 \/ db'.row[m] = db.nextId
      BY <1>3, <2>1, <3>1 DEF Effect
    <3> QED BY <1>4, <1>6, <3>2
  <2>3. ASSUME NEW i \in Invites' PROVE i.by # db'.tenant
    <3>1. PICK w \in Invites : w.by = i.by
      BY <1>7, <1>9
    <3>2. w.by \in Nat /\ w.by < db.nextId
      BY <1>4 DEF Invites
    <3> QED BY <1>4, <2>1, <3>1, <3>2
  <2> QED BY <1>9, <2>1, <2>2, <2>3 DEF ListedIsClear
<1>10. /\ \A m \in Mailbox : ids[m] < db'.nextId
       /\ \A id \in listed : id < db'.nextId
  <2>1. \A m \in Mailbox : ids[m] \in Nat /\ ids[m] < db.nextId
    BY DEF RunInv, ScriptIsCareful
  <2> QED BY <1>1, <1>4, <1>6, <2>1
<1>11. ScriptIsCareful
  BY DEF RunInv
<1> QED BY <1>5, <1>8, <1>9, <1>10, <1>11 DEF ScriptIsCareful

\* A phase without conditions of its own.
LEMMA CarefulElsewhere ==
    ASSUME RunInv, db'.nextId \in Nat, db.nextId <= db'.nextId,
           UNCHANGED <<ids, listed, user, told>>,
           pc' \in Phases \ {"create", "invite", "rows", "accounts"},
           pc' \in Seeding => pc \in Seeding,
           pc' \in {"preflight", "names", "register", "password"} =>
               pc \in {"preflight", "names", "rows", "accounts", "register", "password"}
    PROVE  ScriptIsCareful'
<1>1. db.nextId \in Nat
  BY RunFacts
<1>2. \A m \in Mailbox : ids[m] < db'.nextId /\ ids[m] \in Nat
  BY <1>1 DEF RunInv, ScriptIsCareful
<1>3. \A id \in listed : id < db'.nextId /\ id \in Nat
  BY <1>1 DEF RunInv, ScriptIsCareful
<1> QED BY <1>2, <1>3 DEF RunInv, ScriptIsCareful, ListedIsClear

\* Nothing of the server moves.
LEMMA HarmlessStays ==
    ASSUME RunInv, UNCHANGED <<db, late, told>>
    PROVE  Harmless(db, told, late)'
<1>1. Harmless(db, told, late)
  BY DEF RunInv
<1>2. db' = db /\ late' = late /\ told' = told
  OBVIOUS
<1>3. Harmless(db', told', late')
  BY <1>1, <1>2
<1> QED BY <1>3

LEMMA StartRunCareful ==
    ASSUME RunInv, NEW m \in Modes, StartRun(m)
    PROVE  RunInv'
<1>1. /\ UNCHANGED <<db, late, told>> /\ pc' = "preflight" /\ listed' = {} /\ user' = 1
      /\ ids' = [w \in Mailbox |-> 0]
  BY DEF StartRun, NoMailboxes
<1>2. db.nextId \in Nat \ {0} /\ Admin \in Mailbox
  BY RunFacts DEF Mailbox
<1>3. ScriptIsCareful'
  BY <1>1, <1>2 DEF ScriptIsCareful, Phases, Seeding
<1>4. Harmless(db, told, late)'
  BY <1>1, HarmlessStays
<1> QED BY <1>3, <1>4 DEF RunInv

\* The phases that only read.
LEMMA ReadingCareful ==
    ASSUME RunInv,
           \/ Preflight \/ FindTenant \/ Purged \/ Gathered \/ AgeNotifications
           \/ ReadNotifications \/ Verify \/ GiveUp \/ Crash
    PROVE  RunInv'
<1> USE DEF Goto, Exit, StartSeeding, server, between, accounts, tasks
<1>1. UNCHANGED <<db, late, told>>
  BY DEF Preflight, FindTenant, Purged, Gathered, AgeNotifications, ReadNotifications,
         Verify, GiveUp, Crash
<1>2. db.nextId \in Nat /\ db' = db
  BY <1>1, RunFacts
<1>3. Harmless(db, told, late)'
  BY <1>1, HarmlessStays
<1>4. CASE Preflight
  <2>1. /\ listed' = Accounts(db) /\ UNCHANGED <<ids, user, told>> /\ pc = "preflight"
        /\ pc' \in {"ended", "names", "register"}
    BY <1>4 DEF Preflight
  <2>2. Accounts(db) \subseteq Nat \ {0} /\ \A id \in Accounts(db) : id < db.nextId
    BY RunFacts DEF Accounts
  <2>3. ScriptIsCareful'
    BY <1>2, <2>1, <2>2 DEF RunInv, ScriptIsCareful, Phases, Seeding
  <2> QED BY <1>3, <2>3 DEF RunInv
<1>5. CASE FindTenant
  <2>1. /\ doomed' = db.tenant /\ UNCHANGED <<ids, user, listed, told>> /\ pc = "names"
        /\ pc' \in {"ended", "rows", "register"}
    BY <1>5 DEF FindTenant
  <2>2. ScriptIsCareful'
    BY <1>2, <2>1 DEF RunInv, ScriptIsCareful, Phases, Seeding
  <2> QED BY <1>3, <2>2 DEF RunInv
<1>6. CASE Purged \/ Gathered \/ AgeNotifications \/ ReadNotifications \/ Verify \/ GiveUp
           \/ Crash
  <2>1. /\ UNCHANGED <<ids, listed, user, told>>
        /\ pc' \in {"ended", "register", "age", "notes", "backfill", "verify"}
        /\ pc' = "register" => pc = "accounts"
    BY <1>6 DEF Purged, Gathered, AgeNotifications, ReadNotifications, Verify, GiveUp, Crash
  <2>2. ScriptIsCareful'
    BY <1>2, <2>1, CarefulElsewhere DEF Phases, Seeding
  <2> QED BY <1>3, <2>2 DEF RunInv
<1> QED BY <1>4, <1>5, <1>6, <1>3 DEF RunInv

\* An organisation that is gone, with whatever else the operator emptied.
LEMMA ForgottenIsHarmless ==
    ASSUME RunInv, NEW e \in Db, e.tenant = 0, e.account = db.account, e.nextId = db.nextId,
           \A m \in Mailbox : e.row[m] = 0
    PROVE  Harmless(e, told, late)
<1>1. Sound(db, told) /\ db.nextId \in Nat /\ 0 < db.nextId
  BY RunFacts
<1>2. Sound(e, told)
  BY <1>1 DEF Sound
<1>3. \A x : x.op = "invite" /\ x \in late => ~Live(e, x)
  BY RunFacts DEF Live, Fits
<1>4. \A x \in late : ~Live(e, x)
  BY <1>3 DEF Live
<1>5. \A x \in late : Fits(e, told, x)
  <2> SUFFICES ASSUME NEW x \in late PROVE Fits(e, told, x)
    OBVIOUS
  <2>1. Fits(db, told, x)
    BY RunFacts
  <2> QED BY <1>4, <2>1 DEF Fits
<1>6. \A x, y \in late : Apart(e, x, y)
  <2> SUFFICES ASSUME NEW x \in late, NEW y \in late PROVE Apart(e, x, y)
    OBVIOUS
  <2>1. Apart(db, x, y)
    BY DEF RunInv, Harmless
  <2> QED BY <1>4, <2>1 DEF Apart
<1> QED BY <1>2, <1>5, <1>6 DEF Harmless

\* The purge of the rows leaves a tenant none, and nobody under way a tenant.
LEMMA PurgeRowsCareful ==
    ASSUME RunInv, PurgeRows
    PROVE  RunInv'
<1>1. /\ pc = "rows" /\ pc' = "accounts" /\ UNCHANGED <<late, listed, ids, user, told>>
  BY DEF PurgeRows, Goto, accounts
<1>2. /\ db \in Db /\ db.nextId \in Nat /\ db.tenant \in Nat
  BY RunFacts
<1>3. CASE doomed # 0 /\ db.tenant = doomed
  <2> DEFINE e == [db EXCEPT !.tenant = 0, !.row = NoMailboxes, !.category = FALSE,
                             !.incidents = << >>, !.stamped = FALSE]
  <2>1. db' = e
    BY <1>3 DEF PurgeRows
  <2>2. /\ e \in Db /\ e.tenant = 0 /\ e.row = [m \in Mailbox |-> 0]
        /\ e.account = db.account /\ e.nextId = db.nextId
    <3>1. << >> \in Seq(Incident) /\ NoMailboxes \in [Mailbox -> Nat]
      BY DEF NoMailboxes
    <3> QED BY <1>2, <3>1 DEF Db, NoMailboxes
  <2> HIDE DEF e
  <2>3. Harmless(e, told, late)
    BY <2>2, ForgottenIsHarmless
  <2>4. Harmless(db, told, late)'
    BY <1>1, <2>1, <2>3
  <2>5. ListedIsClear'
    <3>1. \A i \in Invites : i.by # 0
      BY RunFacts DEF Invites, Fits
    <3>2. 0 \notin listed
      BY DEF RunInv, ScriptIsCareful
    <3> QED BY <1>1, <2>1, <2>2, <3>1, <3>2 DEF ListedIsClear, Invites
  <2>6. ScriptIsCareful'
    BY <1>1, <2>1, <2>2, <2>5 DEF RunInv, ScriptIsCareful, Phases, Seeding
  <2> QED BY <2>4, <2>6 DEF RunInv
<1>4. CASE ~(doomed # 0 /\ db.tenant = doomed)
  <2>1. db' = db
    BY <1>4 DEF PurgeRows
  <2>2. ListedIsClear
    <3>1. CASE db.tenant = 0
      <4>1. \A m \in Mailbox : db.row[m] = 0
        BY <3>1, RunFacts DEF Sound
      <4>2. \A i \in Invites : i.by # 0
        BY RunFacts DEF Invites, Fits
      <4> QED BY <3>1, <4>1, <4>2 DEF RunInv, ScriptIsCareful, ListedIsClear
    <3>2. CASE db.tenant # 0
      BY <1>1, <1>4, <3>2 DEF RunInv, ScriptIsCareful
    <3> QED BY <3>1, <3>2
  <2>3. Harmless(db, told, late)' /\ ListedIsClear'
    BY <1>1, <2>1, <2>2, HarmlessStays DEF ListedIsClear, Invites
  <2>4. ScriptIsCareful'
    BY <1>1, <1>2, <2>1, <2>3 DEF RunInv, ScriptIsCareful, Phases, Seeding
  <2> QED BY <2>3, <2>4 DEF RunInv
<1> QED BY <1>3, <1>4

\* A registration that lands while a purge is looking at the organisation's place.
LEMMA RegisteredCareful ==
    ASSUME RunInv, NEW q \in late, Committed(q), q.op = "register",
           UNCHANGED <<pc, ids, listed, doomed, user, told>>
    PROVE  RunInv'
<1>1. /\ Harmless(db', told, late') /\ late' \subseteq late
      /\ q.n # told /\ q.n # 0 /\ db.tenant = 0 /\ db'.tenant = q.n
      /\ db'.account = db.account /\ db'.nextId = db.nextId /\ db'.row[Admin] = q.n
      /\ \A m \in Mailbox : m # Admin => db'.row[m] = 0
      /\ \A w \in late : w.by # q.n
  BY RegisteredIsHarmless DEF RunInv
<1>2. ListedIsClear'
  <2>1. 0 \notin listed
    BY DEF RunInv, ScriptIsCareful
  <2>2. \A m \in Mailbox : db'.row[m] \notin listed \/ (m = Admin /\ db'.row[Admin] # told)
    BY <1>1, <2>1
  <2> QED BY <1>1, <2>2 DEF ListedIsClear, Invites
<1>3. ids[Admin] # db'.tenant
  BY <1>1 DEF RunInv, ScriptIsCareful
<1>4. pc = "rows" => doomed = 0
  BY <1>1 DEF RunInv, ScriptIsCareful
<1>5. ScriptIsCareful'
  BY <1>1, <1>2, <1>3, <1>4 DEF RunInv, ScriptIsCareful
<1> QED BY <1>1, <1>5 DEF RunInv

LEMMA LandCareful ==
    ASSUME RunInv, NEW q \in late, Land(q)
    PROVE  RunInv'
<1>1. UNCHANGED <<pc, ids, listed, doomed, user, told>> /\ Harmless(db, told, late)
  BY DEF Land, accounts, RunInv
<1>2. db \in Db /\ q \in Requests
  BY RunFacts
<1>3. CASE Committed(q) /\ q.op = "register"
  BY <1>1, <1>3, RegisteredCareful
<1>4. CASE ~(Committed(q) /\ q.op = "register")
  <2>1. /\ Effect(db, db', q) /\ Harmless(db', told, late')
        /\ \/ late' \subseteq late
           \/ \E h : /\ late' = (late \ {q}) \cup {h}
                     /\ h.op = "invite" => q.op = "invite" /\ h.by = q.by
                     /\ Deleter(h) => h.n = db.nextId \/ (Deleter(q) /\ h.n = q.n)
    <3>1. CASE Dropped(q) \/ Served(q)
      <4>1. Effect(db, db, q)
        BY <1>2, KeepsIsAnEffect DEF Keeps
      <4>2. Effect(db, db', q) /\ late' \subseteq late
        BY <1>2, <3>1, <4>1, ServeEffect DEF Dropped, Served
      <4> QED BY <1>1, <4>2, EffectIsHarmless
    <3>2. CASE Begun(q)
      BY <1>1, <3>2, BegunIsHarmless
    <3>3. CASE Made(q)
      BY <1>1, <3>3, MadeIsHarmless
    <3>4. CASE Committed(q)
      BY <1>1, <1>4, <3>4, CommittedIsHarmless
    <3>5. CASE Compensated(q)
      BY <1>1, <3>5, CompensatedIsHarmless
    <3> QED BY <3>1, <3>2, <3>3, <3>4, <3>5 DEF Land
  <2>2. \A h \in late' :
               /\ \/ h.op = "invite" => pc = "invite"
                  \/ \E w \in late : w.op = "invite" /\ w.by = h.by
               /\ \/ Deleter(h) => pc = "accounts" \/ h.n = db.nextId
                  \/ \E w \in late : Deleter(w) /\ w.n = h.n
    BY <2>1
  <2>3. ScriptIsCareful'
    BY <1>1, <2>1, <2>2, CarefulUnderEffect
  <2> QED BY <1>1, <2>1, <2>3 DEF RunInv
<1> QED BY <1>3, <1>4
-----------------------------------------------------------------------------
\* An attempt of the script that does not lead to the next phase.
LEMMA AttemptCareful ==
    ASSUME RunInv, NEW q, Allowed(q), NEW a, Exchange(q, a),
           q.op = "invite" => pc = "invite", q.op = "delete" => pc = "accounts"
    PROVE  /\ Harmless(db', told, late') /\ Effect(db, db', q)
           /\ db'.nextId \in Nat /\ db.nextId \in Nat /\ db.nextId <= db'.nextId
           /\ UNCHANGED <<pc, ids, listed, doomed, user, told>> => ScriptIsCareful'
           /\ pc # "accounts" => Deleters' = Deleters
<1>1. /\ Harmless(db', told, late') /\ Effect(db, db', q)
      /\ late' = late \/ (UNCHANGED db /\ late' = late \cup {q})
  BY ExchangeIsHarmless DEF RunInv
<1>2. db'.nextId \in Nat /\ db.nextId \in Nat /\ db.nextId <= db'.nextId
  BY <1>1, RunFacts, DbFacts DEF Effect
<1>3. q.stage = "sent" /\ (Deleter(q) => pc = "accounts")
  BY DEF Allowed, Deleter
<1>4. \A h \in late' : h \in late \/ h = q
  BY <1>1
<1>5. \A h \in late' :
               /\ \/ h.op = "invite" => pc = "invite"
                  \/ \E w \in late : w.op = "invite" /\ w.by = h.by
               /\ \/ Deleter(h) => pc = "accounts" \/ h.n = db.nextId
                  \/ \E w \in late : Deleter(w) /\ w.n = h.n
  BY <1>3, <1>4
<1>6. UNCHANGED <<pc, ids, listed, doomed, user, told>> => ScriptIsCareful'
  BY <1>1, <1>5, CarefulUnderEffect
<1>7. pc # "accounts" => Deleters' = Deleters
  BY <1>1, <1>3, <1>4 DEF Deleters
<1> QED BY <1>1, <1>2, <1>6, <1>7

\* The request of the script, and that nothing else is to be shown of it.
LEMMA RequestType ==
    ASSUME RunInv, NEW op \in {"register", "password", "create", "category", "file", "claim",
                               "close", "assign"},
           NEW by \in {0, ids[Admin]}, NEW mail \in Mailbox, op = "register" => mail = Admin,
           NEW n \in Nat, NEW who \in Reviewer \cup {NoReviewer}
    PROVE  Allowed(Request(op, by, mail, n, who)) /\ Request(op, by, mail, n, who).op = op
<1>1. PICK q : q = Request(op, by, mail, n, who)
  OBVIOUS
<1>2. ids[Admin] \in {0, told} /\ Admin \in Mailbox
  BY DEF RunInv, ScriptIsCareful, Mailbox
<1>3. by \in Nat /\ by < db.nextId /\ by \in {0, told}
  BY <1>2, RunFacts
<1>4. /\ q \in Requests /\ q.op = op /\ q.by = by /\ q.mail = mail /\ q.stage = "sent"
  BY <1>1, <1>3 DEF Request, Requests, Never
<1>5. ~Deleter(q) /\ ~Live(db, q)
  BY <1>4 DEF Deleter, Live
<1>6. Fits(db, told, q)
  BY <1>3, <1>4, <1>5 DEF Fits
<1>7. \A w : Apart(db, q, w)
  BY <1>4, <1>5 DEF Apart
<1>8. ASSUME NEW w \in late PROVE Apart(db, w, q)
  <2>1. Fits(db, told, w)
    BY RunFacts
  <2>2. w.stage = "made" => w.n # told /\ w.n # 0
    BY <2>1 DEF Fits, Deleter
  <2> QED BY <1>3, <1>4, <1>5, <2>2 DEF Apart
<1> QED BY <1>1, <1>4, <1>6, <1>7, <1>8 DEF Allowed

\* The purge's request: nobody has, or could yet get, a row under that id.
LEMMA PurgeRequest ==
    ASSUME RunInv, pc = "accounts", NEW id \in listed,
           NEW q, q = Request("delete", 0, Admin, id, NoReviewer)
    PROVE  Allowed(q) /\ q.op = "delete" /\ q.by = 0 /\ q.n = id
<1>1. /\ id \in Nat /\ id # 0 /\ id < db.nextId /\ db.nextId \in Nat /\ ListedIsClear
  BY RunFacts DEF RunInv, ScriptIsCareful
<1>2. /\ q \in Requests /\ q.op = "delete" /\ q.n = id /\ q.by = 0 /\ q.stage = "sent"
  BY <1>1, PlanAssumption DEF Requests, Request, Mailbox, Never
<1>3. \A m \in Mailbox : db.row[m] # id \/ (m = Admin /\ id # told)
  BY <1>1 DEF ListedIsClear
<1>4. ~Live(db, q) /\ \A w \in late : ~Live(db, w)
  BY <1>1, <1>2 DEF ListedIsClear, Invites, Live
<1>5. Fits(db, told, q)
  BY <1>1, <1>2, <1>3, <1>4, RunFacts DEF Fits
<1>6. \A w \in late \cup {q} : Apart(db, q, w)
  BY <1>2, <1>4 DEF Apart
<1>7. ASSUME NEW w \in late PROVE Apart(db, w, q)
  <2>1. w.stage = "made" => w.n # 0
    BY RunFacts DEF Fits, Deleter
  <2> QED BY <1>2, <1>4, <2>1 DEF Apart
<1> QED BY <1>2, <1>5, <1>6, <1>7 DEF Allowed

LEMMA PurgeAccountCareful ==
    ASSUME RunInv, NEW id \in listed, PurgeAccount(id)
    PROVE  RunInv'
<1>0. PICK q : q = Request("delete", 0, Admin, id, NoReviewer)
  OBVIOUS
<1>1. /\ pc = "accounts" /\ UNCHANGED <<ids, user, doomed, told>> /\ listed' \subseteq listed
      /\ pc' \in {"accounts", "ended"}
      /\ \E a : Exchange(q, a)
  BY <1>0 DEF PurgeAccount, Advance, Goto, Exit
<1>2. Allowed(q) /\ q.op = "delete" /\ q.by = 0 /\ q.n = id
  BY <1>0, <1>1, PurgeRequest
<1>3. /\ Harmless(db', told, late') /\ Effect(db, db', q)
      /\ db'.nextId \in Nat /\ db.nextId \in Nat /\ db.nextId <= db'.nextId
  BY <1>1, <1>2, AttemptCareful
<1>4. ListedIsClear'
  <2>1. Invites' = Invites
    <3>1. late' = late \/ late' = late \cup {q}
      BY <1>1, <1>2, ExchangeIsHarmless DEF RunInv
    <3> QED BY <1>2, <3>1 DEF Invites
  <2>2. db'.tenant = db.tenant /\ \A m \in Mailbox : db'.row[m] = db.row[m]
    BY <1>2, <1>3 DEF Effect
  <2>3. Admin \in Mailbox
    BY DEF Mailbox
  <2> QED BY <1>1, <2>1, <2>2, <2>3 DEF RunInv, ScriptIsCareful, ListedIsClear
<1>5. /\ \A m \in Mailbox : ids[m] < db'.nextId
      /\ \A w \in listed' : w < db'.nextId
  <2>1. /\ \A m \in Mailbox : ids[m] \in Nat /\ ids[m] < db.nextId
        /\ \A w \in listed : w \in Nat /\ w < db.nextId
    BY DEF RunInv, ScriptIsCareful
  <2> QED BY <1>1, <1>3, <2>1
<1>6. ScriptIsCareful'
  BY <1>1, <1>4, <1>5 DEF RunInv, ScriptIsCareful, Phases, Seeding
<1> QED BY <1>1, <1>3, <1>6 DEF RunInv

\* What the script and its lists need when only the identities moved on.
LEMMA OnwardFacts ==
    ASSUME RunInv, db'.nextId \in Nat, db.nextId <= db'.nextId
    PROVE  /\ \A m \in Mailbox : ids[m] \in Nat /\ ids[m] < db'.nextId
           /\ \A id \in listed : id < db'.nextId
<1>1. db.nextId \in Nat
  BY RunFacts
<1>2. /\ \A m \in Mailbox : ids[m] \in Nat /\ ids[m] < db.nextId
      /\ \A id \in listed : id \in Nat /\ id < db.nextId
  BY DEF RunInv, ScriptIsCareful
<1> QED BY <1>1, <1>2

\* An organisation that a run has just been told of.
LEMMA ToldIsHarmless ==
    ASSUME Harmless(db, told, late), NEW e, NEW new, NEW l, l \subseteq late,
           Harmless(e, told, l), new = db.nextId, new < e.nextId,
           \A m \in Mailbox : e.row[m] # 0 => m = Admin /\ e.account[m] = e.row[m]
    PROVE  Harmless(e, new, l)
<1>1. db \in Db /\ Sound(e, told) /\ new \in Nat
  BY DbFacts DEF Harmless, Sound
<1>2. Sound(e, new)
  BY <1>1 DEF Sound, Kept
<1>3. \A x \in l : Fits(e, new, x)
  <2> SUFFICES ASSUME NEW x \in l PROVE Fits(e, new, x)
    OBVIOUS
  <2>1. Fits(e, told, x) /\ Fits(db, told, x)
    BY DEF Harmless
  <2>2. x.n \in Nat /\ (Deleter(x) => x.n # new)
    BY <1>1, <2>1, RequestFacts DEF Fits
  <2>3. x.stage = "made" => Deleter(x)
    BY DEF Deleter
  <2> QED BY <2>1, <2>2, <2>3 DEF Fits
<1> QED BY <1>2, <1>3 DEF Harmless

LEMMA RegisterCareful ==
    ASSUME RunInv, Register
    PROVE  RunInv'
<1> DEFINE q == Request("register", 0, Admin, 0, NoReviewer)
<1>1. Allowed(q) /\ q.op = "register"
  BY RequestType, PlanAssumption DEF Mailbox
<1>2. PICK a \in {Lost, Reply(q)} :
        /\ Exchange(q, a)
        /\ Advance(a, a.code = 201, "password")
        /\ ids' = [ids EXCEPT ![Admin] = a.n]
        /\ told' = IF a.code = 201 THEN a.n ELSE told
  BY DEF Register
<1> HIDE DEF q
<1>3. pc = "register" /\ UNCHANGED <<doomed, listed, user>>
  BY DEF Register
<1>4. /\ Harmless(db', told, late')
      /\ db'.nextId \in Nat /\ db.nextId \in Nat /\ db.nextId <= db'.nextId
  BY <1>1, <1>2, AttemptCareful
<1>5. /\ a.n \in Nat /\ a.n < db'.nextId
      /\ a.code = 201 => a.n # 0 /\ Harmless(db', a.n, late')
      /\ a.code # 201 => a.n = 0
  <2>1. CASE a = Lost
    BY <1>4, <2>1 DEF Lost, Harmless, Sound, Db
  <2>2. CASE a = Reply(q) /\ a # Lost
    <3>1. db' = RegisterOrganization(db).db /\ a.n = RegisterOrganization(db).n
          /\ a.code = RegisterOrganization(db).code /\ late' = late
      BY <1>1, <1>2, <2>2 DEF Exchange, Reply, Serve
    <3>2. db.nextId \in Nat \ {0} /\ db \in Db
      BY RunFacts
    <3>3. CASE db.tenant # 0 \/ db.folded \/ db.account[Admin] # 0
      BY <1>4, <3>1, <3>2, <3>3 DEF RegisterOrganization, Result, Db
    <3>4. CASE ~(db.tenant # 0 \/ db.folded \/ db.account[Admin] # 0)
      <4> DEFINE A == [db.account EXCEPT ![Admin] = db.nextId]
                 R == [db.row EXCEPT ![Admin] = db.nextId]
                 next == db.nextId + 1
      <4>1. /\ a.n = db.nextId /\ a.code = 201
            /\ db' = [db EXCEPT !.tenant = db.nextId, !.account = A, !.row = R, !.nextId = next]
        BY <3>1, <3>2, <3>4 DEF RegisterOrganization, Result
      <4>2. db'.nextId = next /\ db'.account = A /\ db'.row = R
        <5> HIDE DEF A, R, next
        <5> QED BY <3>2, <4>1 DEF Db
      <4>3. \A m \in Mailbox : db.row[m] = 0
        BY <3>4, RunFacts DEF Sound
      <4>4. /\ A[Admin] = db.nextId /\ R[Admin] = db.nextId
            /\ \A m \in Mailbox : m # Admin => R[m] = 0
        BY <3>2, <4>3 DEF Db, Mailbox
      <4>5. PICK e : e = db'
        OBVIOUS
      <4>6. \A m \in Mailbox : e.row[m] # 0 => m = Admin /\ e.account[m] = e.row[m]
        <5> HIDE DEF A, R, next
        <5> QED BY <4>2, <4>4, <4>5
      <4>7. Harmless(e, told, late) /\ db.nextId < e.nextId
        BY <1>4, <3>1, <3>2, <4>2, <4>5
      <4>8. Harmless(e, db.nextId, late)
        BY <4>6, <4>7, ToldIsHarmless DEF RunInv
      <4> QED BY <3>1, <3>2, <4>1, <4>2, <4>5, <4>8
    <3> QED BY <3>3, <3>4
  <2> QED BY <1>2, <2>1, <2>2
<1>6. pc' \in {"register", "password", "ended"} /\ (pc' = "password" => a.code = 201)
  BY <1>2, <1>3 DEF Advance, Goto, Exit
<1>7. ids' \in [Mailbox -> Nat] /\ \A m \in Mailbox : ids'[m] < db'.nextId
  <2>1. ids \in [Mailbox -> Nat] /\ \A m \in Mailbox : ids[m] < db'.nextId
    BY <1>4, OnwardFacts DEF RunInv, ScriptIsCareful
  <2>2. a.n \in Nat /\ a.n < db'.nextId /\ ids' = [ids EXCEPT ![Admin] = a.n]
    BY <1>2, <1>5
  <2> QED BY <2>1, <2>2
<1>8. ids'[Admin] = a.n
  BY <1>2 DEF RunInv, ScriptIsCareful, Mailbox
<1>9. ScriptIsCareful'
  <2>1. ids'[Admin] \in {0, told'}
    BY <1>2, <1>5, <1>8
  <2>2. /\ listed' \subseteq Nat \ {0} /\ \A id \in listed' : id < db'.nextId
        /\ user' = 1
    BY <1>3, <1>4, OnwardFacts DEF RunInv, ScriptIsCareful
  <2> QED BY <1>5, <1>6, <1>7, <1>8, <2>1, <2>2 DEF ScriptIsCareful, Phases, Seeding
<1>10. Harmless(db', told', late')
  BY <1>2, <1>4, <1>5
<1> QED BY <1>9, <1>10 DEF RunInv

LEMMA GiveAdminPasswordCareful ==
    ASSUME RunInv, GiveAdminPassword
    PROVE  RunInv'
<1>0. PICK q : q = Request("password", 0, Admin, ids[Admin], NoReviewer)
  OBVIOUS
<1>1. Allowed(q) /\ q.op = "password"
  <2>1. Admin \in Mailbox /\ ids[Admin] \in Nat /\ NoReviewer \in Reviewer \cup {NoReviewer}
    BY DEF Mailbox, RunInv, ScriptIsCareful
  <2> QED BY <1>0, <2>1, RequestType
<1>2. PICK a \in {Lost, Reply(q)} :
        /\ Exchange(q, a)
        /\ Advance(a, a.code = 200, IF Users = << >> THEN "category" ELSE "create")
  BY <1>0 DEF GiveAdminPassword
<1>3. pc = "password" /\ UNCHANGED <<doomed, listed, ids, user, told>>
  BY DEF GiveAdminPassword, accounts
<1>4. /\ Harmless(db', told, late')
      /\ db'.nextId \in Nat /\ db.nextId <= db'.nextId
  BY <1>1, <1>2, AttemptCareful
<1>5. pc' \in {"password", "category", "create", "ended"} /\ (pc' = "create" => Users # << >>)
  BY <1>2, <1>3 DEF Advance, Goto, Exit
<1>6. user = 1 /\ user' = 1 /\ (Users # << >> => 1 <= Len(Users)) /\ ids[Admin] # 0
  BY <1>3, RunAssumption DEF RunInv, ScriptIsCareful, Seeding
<1>7. ScriptIsCareful'
  BY <1>3, <1>4, <1>5, <1>6, OnwardFacts DEF RunInv, ScriptIsCareful, Phases, Seeding
<1> QED BY <1>3, <1>4, <1>7 DEF RunInv

LEMMA UserFacts ==
    ASSUME RunInv, pc \in {"create", "invite"}
    PROVE  /\ user \in DOMAIN Users /\ Users[user] \in Mailbox /\ Users[user] # Admin
           /\ ids[Admin] # 0 /\ ids[Admin] \in Nat /\ ids[Admin] < db.nextId
BY RunAssumption DEF RunInv, ScriptIsCareful, Seeding, Mailbox

LEMMA CreateAccountCareful ==
    ASSUME RunInv, CreateAccount
    PROVE  RunInv'
<1> DEFINE m == Users[user]
<1>0. pc = "create" /\ UNCHANGED <<doomed, listed, user, told>> /\ m \in Mailbox /\ m # Admin
      /\ ids[Admin] # 0
  BY UserFacts DEF CreateAccount
<1>11. PICK q : q = Request("create", 0, m, 0, NoReviewer)
  OBVIOUS
<1>1. Allowed(q) /\ q.op = "create"
  <2> HIDE DEF m
  <2> QED BY <1>0, <1>11, RequestType
<1>2. PICK a \in {Lost, Reply(q)} :
        /\ Exchange(q, a) /\ Advance(a, a.code = 200, "invite")
        /\ ids' = [ids EXCEPT ![m] = a.n]
  BY <1>11 DEF CreateAccount
<1>3. q.mail = m
  BY <1>11 DEF Request
<1>4. /\ Harmless(db', told, late') /\ Deleters' = Deleters
      /\ db'.nextId \in Nat /\ db.nextId \in Nat /\ db.nextId # 0 /\ db.nextId <= db'.nextId
  BY <1>0, <1>1, <1>2, AttemptCareful, RunFacts
<1>5. a.n \in Nat /\ a.n < db'.nextId
      /\ (a.code = 200 => db'.account[m] = db.nextId)
  <2>1. CASE a = Lost
    BY <1>4, <2>1 DEF Lost, Harmless, Sound, Db
  <2>2. CASE a = Reply(q) /\ a # Lost
    <3>1. db' = CreateUser(db, m).db /\ a.n = CreateUser(db, m).n
          /\ a.code = CreateUser(db, m).code
      BY <1>1, <1>2, <1>3, <2>2 DEF Exchange, Reply, Serve
    <3>2. db.nextId \in Nat \ {0} /\ db \in Db
      BY RunFacts
    <3>3. CASE db.account[m] # 0
      BY <3>1, <3>2, <3>3 DEF CreateUser, Result
    <3>4. CASE db.account[m] = 0
      <4>1. a.n = db.nextId /\ db'.nextId = db.nextId + 1
            /\ db'.account = [db.account EXCEPT ![m] = db.nextId]
        BY <3>1, <3>2, <3>4 DEF CreateUser, Result, Db
      <4>2. db.account \in [Mailbox -> Nat]
        BY <3>2 DEF Db
      <4> HIDE DEF m
      <4> QED BY <1>0, <3>2, <4>1, <4>2
    <3> QED BY <3>3, <3>4
  <2> QED BY <1>2, <2>1, <2>2
<1>6. pc' \in {"create", "invite", "ended"} /\ (pc' = "invite" => a.code = 200)
  BY <1>0, <1>2 DEF Advance, Goto, Exit
<1>7. /\ ids' \in [Mailbox -> Nat] /\ \A w \in Mailbox : ids'[w] < db'.nextId
      /\ ids'[Admin] = ids[Admin]
  <2> HIDE DEF m
  <2> QED BY <1>0, <1>2, <1>4, <1>5, OnwardFacts DEF RunInv, ScriptIsCareful, Mailbox
<1>8. ASSUME pc' = "invite" PROVE db'.account[m] # 0 /\ \A d \in Deleters : db'.account[m] # d.n
  <2>1. \A d \in Deleters : d.n < db.nextId /\ d.n \in Nat
    BY RunFacts DEF Deleters, Fits
  <2> QED BY <1>4, <1>5, <1>6, <1>8, <2>1
<1>9. ScriptIsCareful'
  <2>1. /\ listed' \subseteq Nat \ {0} /\ \A id \in listed' : id < db'.nextId
        /\ user' \in Nat \ {0} /\ user' <= Len(Users)
        /\ ids'[Admin] \in {0, told'}
    BY <1>0, <1>4, <1>7, OnwardFacts DEF RunInv, ScriptIsCareful
  <2> QED BY <1>0, <1>4, <1>6, <1>7, <1>8, <2>1 DEF ScriptIsCareful, Phases, Seeding
<1> QED BY <1>0, <1>4, <1>9 DEF RunInv

\* The invite: the account it needs is there to stay.
LEMMA InviteRequest ==
    ASSUME RunInv, pc = "invite",
           NEW q, q = Request("invite", ids[Admin], Users[user], 0, NoReviewer)
    PROVE  Allowed(q) /\ q.op = "invite"
<1> DEFINE m == Users[user]
<1>0. /\ m \in Mailbox /\ ids[Admin] # 0 /\ ids[Admin] \in Nat /\ ids[Admin] < db.nextId
      /\ ids[Admin] = told
  <2>1. ids[Admin] \in {0, told}
    BY DEF RunInv, ScriptIsCareful
  <2> QED BY <2>1, UserFacts
<1>1. ids[Admin] = db.tenant =>
        db.account[m] # 0 /\ \A d \in Deleters : db.account[m] # d.n
  BY DEF RunInv, ScriptIsCareful
<1>2. /\ q \in Requests /\ q.op = "invite" /\ q.by = ids[Admin] /\ q.mail = m
      /\ q.stage = "sent"
  <2> HIDE DEF m
  <2>1. q = Request("invite", ids[Admin], m, 0, NoReviewer)
    BY DEF m
  <2> QED BY <1>0, <2>1 DEF Request, Requests, Never
<1>3. ~Deleter(q)
  BY <1>2 DEF Deleter
<1> HIDE DEF m
<1>4. Fits(db, told, q)
  BY <1>0, <1>1, <1>2, <1>3 DEF Fits, Live
<1>5. \A w : Apart(db, q, w)
  BY <1>2, <1>3 DEF Apart
<1>6. ASSUME NEW w \in late PROVE Apart(db, w, q)
  <2>1. Fits(db, told, w)
    BY RunFacts
  <2>2. w.stage = "made" => w.n # told
    BY <2>1 DEF Fits
  <2>3. Deleter(w) => w \in Deleters
    BY DEF Deleters
  <2> QED BY <1>0, <1>1, <1>2, <2>2, <2>3 DEF Apart, Live
<1> QED BY <1>2, <1>4, <1>5, <1>6 DEF Allowed

LEMMA ProvisionCareful ==
    ASSUME RunInv, Provision
    PROVE  RunInv'
<1> DEFINE m == Users[user]
<1>0. pc = "invite" /\ UNCHANGED <<doomed, listed, ids, told>> /\ ids[Admin] # 0
      /\ user \in DOMAIN Users
  BY UserFacts DEF Provision
<1>11. PICK q : q = Request("invite", ids[Admin], m, 0, NoReviewer)
  OBVIOUS
<1>1. Allowed(q) /\ q.op = "invite"
  BY <1>0, <1>11, InviteRequest
<1>2. PICK a \in {Lost, Reply(q)} :
        /\ Exchange(q, a)
        /\ Advance(a, a.code = 201 /\ a.n = ids[m],
                   IF user = Len(Users) THEN "category" ELSE "create")
        /\ user' = IF a.code = 201 /\ user < Len(Users) THEN user + 1 ELSE user
  BY <1>11 DEF Provision
<1>4. /\ Harmless(db', told, late')
      /\ db'.nextId \in Nat /\ db.nextId \in Nat /\ db.nextId <= db'.nextId
      /\ UNCHANGED <<pc, ids, listed, doomed, user, told>> => ScriptIsCareful'
  BY <1>0, <1>1, <1>2, AttemptCareful
<1>5. /\ user \in Nat \ {0} /\ Len(Users) \in Nat /\ user <= Len(Users)
      /\ user' \in Nat \ {0} /\ user' <= Len(Users)
  BY <1>0, <1>2, RunAssumption
<1>6. CASE pc' = "invite"
  <2>1. a = Lost
    BY <1>0, <1>2, <1>6 DEF Advance, Goto, Exit
  <2>2. UNCHANGED <<pc, ids, listed, doomed, user, told>>
    BY <1>0, <1>2, <1>6, <2>1 DEF Lost
  <2> QED BY <1>0, <1>4, <2>2 DEF RunInv
<1>7. CASE pc' # "invite"
  <2>1. pc' \in {"category", "create", "ended"}
    BY <1>0, <1>2, <1>7 DEF Advance, Goto, Exit
  <2>2. ScriptIsCareful'
    BY <1>0, <1>4, <1>5, <2>1, OnwardFacts DEF RunInv, ScriptIsCareful, Phases, Seeding
  <2> QED BY <1>0, <1>4, <2>2 DEF RunInv
<1> QED BY <1>6, <1>7
-----------------------------------------------------------------------------
(***************************************************************************)
(* What a request may do to the incidents.                                 *)
(***************************************************************************)
IncidentOps == {"file", "claim", "close", "assign"}

\* An incident tells one history, as far as HistoryHolds asks for it.
Coherent(inc, now) ==
    /\ Timely(inc, now)
    /\ \A k \in DOMAIN inc.notes :
           \/ Within(inc, inc.notes[k].at)
           \/ inc.created <= inc.notes[k].at /\ Overtaken(inc, k)

AllCoherent(d) == \A k \in DOMAIN d.incidents : Coherent(d.incidents[k], d.clock)

\* Everything about it lies before Now, but for assignments: one more may be dated any
\* time from Now on.
Ripe(inc) ==
    /\ inc.created <= Now /\ inc.reviewed <= Now /\ inc.closed <= Now
    /\ \A k \in DOMAIN inc.notes : inc.notes[k].at > Now => inc.notes[k].kind = "reassigned"

\* No incident goes away or back.
Forward(s, r) ==
    /\ DOMAIN s \subseteq DOMAIN r
    /\ \A k \in DOMAIN s : /\ s[k].status # "open" => r[k].status # "open"
                           /\ s[k].status = "closed" => r[k].status = "closed"

\* A claim or a close that has been applied: it finds nothing to do.
Settled(s, q) ==
    /\ q.n \in DOMAIN s
    /\ q.op = "claim" => s[q.n].status # "open"
    /\ q.op = "close" => s[q.n].status = "closed"

Reassigned(inc, who, at) == [Written(inc, "reassigned", at) EXCEPT !.assignee = who]

LEMMA WriteIncident ==
    ASSUME NEW d \in Db, NEW n, NEW inc, n \in DOMAIN d.incidents => inc \in Incident
    PROVE  LET e == [d EXCEPT !.incidents[n] = inc]
           IN  /\ e.stamped = d.stamped /\ e.clock = d.clock
               /\ DOMAIN e.incidents = DOMAIN d.incidents
               /\ \A k \in DOMAIN d.incidents :
                     e.incidents[k] = IF k = n THEN inc ELSE d.incidents[k]
<1> DEFINE s == d.incidents
           e == [d EXCEPT !.incidents[n] = inc]
<1>1. s \in Seq(Incident)
  BY DEF Db
<1>2. e.incidents = [s EXCEPT ![n] = inc] /\ e.stamped = d.stamped /\ e.clock = d.clock
  BY DEF Db
<1>3. DOMAIN [s EXCEPT ![n] = inc] = DOMAIN s
      /\ \A k \in DOMAIN s : [s EXCEPT ![n] = inc][k] = IF k = n THEN inc ELSE s[k]
  BY <1>1
<1> QED BY <1>2, <1>3

LEMMA ReassignedFields ==
    ASSUME NEW inc \in Incident, NEW who \in Reviewer \cup {NoReviewer}, NEW at \in Nat
    PROVE  LET w == Reassigned(inc, who, at)
           IN  /\ w \in Incident
               /\ w.status = inc.status /\ w.assignee = who
               /\ w.created = inc.created /\ w.updated = at
               /\ w.reviewed = inc.reviewed /\ w.closed = inc.closed
               /\ w.notes = Append(inc.notes, [kind |-> "reassigned", at |-> at])
<1>1. PICK x : x = Written(inc, "reassigned", at)
  OBVIOUS
<1>2. x \in Incident
  BY <1>1, WrittenType DEF NoteKind
<1>3. /\ x.status = inc.status /\ x.created = inc.created /\ x.updated = at
      /\ x.reviewed = inc.reviewed /\ x.closed = inc.closed
      /\ x.notes = Append(inc.notes, [kind |-> "reassigned", at |-> at])
  BY <1>1 DEF Written, Incident
<1>4. Reassigned(inc, who, at) = [x EXCEPT !.assignee = who]
  BY <1>1 DEF Reassigned
<1> QED BY <1>2, <1>3, <1>4 DEF Incident

\* However late an assignment comes, and however early it began: the history is kept,
\* except for what it has overtaken.
LEMMA ReassignedStays ==
    ASSUME NEW inc \in Incident, NEW who \in Reviewer \cup {NoReviewer}, NEW at \in Clocks,
           NEW now \in Nat, Coherent(inc, now), Ripe(inc)
    PROVE  Coherent(Reassigned(inc, who, at), now) /\ Ripe(Reassigned(inc, who, at))
<1>1. at \in Nat /\ Now \in Nat /\ Now <= at
  BY PlanAssumption DEF Clocks
<1>2. PICK w : w = Reassigned(inc, who, at)
  OBVIOUS
<1>3. PICK note : note = [kind |-> "reassigned", at |-> at]
  OBVIOUS
<1>4. /\ w.created = inc.created /\ w.updated = at
      /\ w.reviewed = inc.reviewed /\ w.closed = inc.closed
      /\ w.notes = Append(inc.notes, note)
  <2>1. /\ w.created = inc.created /\ w.updated = at
        /\ w.reviewed = inc.reviewed /\ w.closed = inc.closed
        /\ w.notes = Append(inc.notes, [kind |-> "reassigned", at |-> at])
    BY <1>1, <1>2, ReassignedFields
  <2> QED BY <1>3, <2>1
<1>5. /\ inc.created \in Nat /\ inc.updated \in Nat
      /\ inc.reviewed \in Nat /\ inc.closed \in Nat
      /\ inc.notes \in Seq([kind : NoteKind, at : Nat])
      /\ note \in [kind : NoteKind, at : Nat] /\ note.at = at /\ note.kind = "reassigned"
  BY <1>1, <1>3 DEF Incident, NoteKind
<1>6. PICK last : last = Len(inc.notes) + 1
  OBVIOUS
<1>7. /\ DOMAIN w.notes = 1..last /\ last \in Nat /\ last \in DOMAIN w.notes
      /\ w.notes[last] = note
      /\ \A k \in DOMAIN w.notes : k # last =>
            k \in DOMAIN inc.notes /\ w.notes[k] = inc.notes[k] /\ k < last
  <2>1. PICK s : s = inc.notes
    OBVIOUS
  <2>2. s \in Seq([kind : NoteKind, at : Nat]) /\ w.notes = Append(s, note) /\ last = Len(s) + 1
    BY <1>4, <1>5, <1>6, <2>1
  <2>3. Len(s) \in Nat /\ DOMAIN s = 1..Len(s)
    BY <2>2
  <2>4. /\ DOMAIN Append(s, note) = 1..last /\ Append(s, note)[last] = note
        /\ \A k \in 1..Len(s) : Append(s, note)[k] = s[k]
    BY <1>5, <2>2
  <2> QED BY <2>1, <2>2, <2>3, <2>4
<1>8. ASSUME NEW k \in DOMAIN inc.notes
      PROVE  inc.notes[k].at \in Nat /\ inc.created <= inc.notes[k].at
  <2>1. inc.notes[k] \in [kind : NoteKind, at : Nat]
    BY <1>5, ElementOf
  <2> QED BY <2>1 DEF Coherent, Within
<1>9. inc.created <= Now /\ inc.reviewed <= Now /\ inc.closed <= Now
  BY DEF Ripe
<1>10. Timely(w, now)
  <2>1. \A t \in {inc.reviewed, inc.closed} \ {Never} : inc.created <= t
    BY DEF Coherent, Timely, Within
  <2>2. inc.created <= now /\ ((inc.reviewed # Never /\ inc.closed # Never)
                               => inc.reviewed # inc.closed)
    BY DEF Coherent, Timely
  <2>3. w.created <= w.updated
    BY <1>1, <1>4, <1>5, <1>9
  <2>4. \A t \in {w.reviewed, w.closed} \ {Never} : Within(w, t)
    BY <1>1, <1>4, <1>5, <1>9, <2>1 DEF Within
  <2> QED BY <1>4, <2>2, <2>3, <2>4 DEF Timely
<1>11. ASSUME NEW k \in DOMAIN w.notes
       PROVE  \/ Within(w, w.notes[k].at)
              \/ w.created <= w.notes[k].at /\ Overtaken(w, k)
  <2>1. CASE k = last
    BY <1>1, <1>4, <1>5, <1>7, <1>9, <2>1 DEF Within
  <2>2. CASE k # last /\ w.notes[k].at <= at
    <3>1. k \in DOMAIN inc.notes /\ w.notes[k] = inc.notes[k]
      BY <1>7, <2>2
    <3> QED BY <1>4, <1>8, <2>2, <3>1 DEF Within
  <2>3. CASE k # last /\ ~(w.notes[k].at <= at)
    <3>1. k \in DOMAIN inc.notes /\ w.notes[k] = inc.notes[k] /\ k < last
      BY <1>7, <2>3
    <3>2. w.notes[k].at \in Nat /\ w.created <= w.notes[k].at
      BY <1>4, <1>8, <3>1
    <3>3. at < w.notes[k].at /\ w.notes[k].at > Now
      BY <1>1, <2>3, <3>2
    <3>4. w.notes[k].kind = "reassigned"
      BY <3>1, <3>3 DEF Ripe
    <3>5. Overtaken(w, k)
      BY <1>4, <1>5, <1>7, <3>1, <3>3, <3>4 DEF Overtaken
    <3> QED BY <3>2, <3>5
  <2> QED BY <2>1, <2>2, <2>3
<1>12. Ripe(w)
  <2>1. ASSUME NEW k \in DOMAIN w.notes, w.notes[k].at > Now
        PROVE  w.notes[k].kind = "reassigned"
    <3>1. CASE k = last
      BY <1>5, <1>7, <3>1
    <3>2. CASE k # last
      BY <1>7, <2>1, <3>2 DEF Ripe
    <3> QED BY <3>1, <3>2
  <2> QED BY <1>4, <1>9, <2>1 DEF Ripe
<1> QED BY <1>2, <1>10, <1>11, <1>12 DEF Coherent

\* What becomes of an incident k.
Touched(d, e, q, k) ==
    \/ k \in DOMAIN d.incidents /\ e.incidents[k] = d.incidents[k]
    \/ k \notin DOMAIN d.incidents /\ Coherent(e.incidents[k], d.clock)
    \/ /\ k = q.n /\ q.op \in {"claim", "close"} /\ q.by = d.tenant
       /\ ~Settled(d.incidents, q)
    \/ /\ k = q.n /\ q.op = "assign" /\ q.by = d.tenant /\ k \in DOMAIN d.incidents
       /\ \E at \in Clocks : e.incidents[k] = Reassigned(d.incidents[k], q.who, at)

\* The consequences of a request for the incidents.
Outcome(d, e, q) ==
    /\ e.stamped = d.stamped /\ d.clock <= e.clock
    /\ q.op \notin IncidentOps \/ q.by # d.tenant => e.incidents = d.incidents
    /\ Forward(d.incidents, e.incidents)
    /\ \A k \in DOMAIN e.incidents : Touched(d, e, q, k)

LEMMA NoOutcome ==
    ASSUME NEW d \in Db, NEW e, e.stamped = d.stamped, e.incidents = d.incidents,
           e.clock = d.clock, NEW q
    PROVE  Outcome(d, e, q)
BY ClockType DEF Outcome, Forward, Touched

LEMMA FileOutcome ==
    ASSUME NEW d \in Db, NEW q, q.op = "file", q.by = d.tenant
    PROVE  /\ Outcome(d, FileIncident(d).db, q)
           /\ FileIncident(d).n \in DOMAIN FileIncident(d).db.incidents
           /\ FileIncident(d).n \in Nat
<1> DEFINE inc == [status |-> "open", assignee |-> NoReviewer, created |-> d.clock,
                   updated |-> d.clock, reviewed |-> Never, closed |-> Never, notes |-> << >>]
           s == d.incidents
           e == FileIncident(d).db
<1>1. s \in Seq(Incident)
  BY DEF Db
<1>2. /\ e.incidents = Append(s, inc) /\ e.stamped = d.stamped /\ e.clock = d.clock
      /\ FileIncident(d).n = Len(s) + 1
  BY DEF FileIncident, Result, Db
<1>3. d.clock \in Nat
  BY ClockType
<1>4. Coherent(inc, d.clock)
  BY <1>3 DEF Coherent, Timely, Within, Never
<1> HIDE DEF inc
<1>5. /\ DOMAIN s = 1..Len(s) /\ Len(s) \in Nat /\ DOMAIN Append(s, inc) = 1..(Len(s) + 1)
      /\ \A k \in DOMAIN s : Append(s, inc)[k] = s[k]
      /\ Append(s, inc)[Len(s) + 1] = inc
  BY <1>1
<1> HIDE DEF s, e
<1>6. Forward(s, e.incidents)
  BY <1>2, <1>5 DEF Forward
<1>7. \A k \in DOMAIN e.incidents : Touched(d, e, q, k)
  <2> SUFFICES ASSUME NEW k \in DOMAIN e.incidents PROVE Touched(d, e, q, k)
    OBVIOUS
  <2>1. CASE k \in DOMAIN s
    BY <1>2, <1>5, <2>1 DEF Touched, s
  <2>2. CASE k \notin DOMAIN s
    <3>1. k = Len(s) + 1
      BY <1>2, <1>5, <2>2
    <3> QED BY <1>2, <1>4, <1>5, <2>2, <3>1 DEF Touched, s
  <2> QED BY <2>1, <2>2
<1>8. Outcome(d, e, q)
  BY <1>2, <1>3, <1>6, <1>7 DEF Outcome, IncidentOps, s
<1> QED BY <1>2, <1>5, <1>8 DEF e

LEMMA MoveOutcome ==
    ASSUME NEW d \in Db, NEW q \in Requests, q.by = d.tenant,
           NEW to \in {"in_review", "closed"},
           q.op = (IF to = "in_review" THEN "claim" ELSE "close"),
           q.n \in DOMAIN d.incidents
    PROVE  /\ Outcome(d, MoveIncident(d, q.n, to, q.who).db, q)
           /\ MoveIncident(d, q.n, to, q.who).n = q.n
           /\ MoveIncident(d, q.n, to, q.who).code = 200 =>
                 Settled(MoveIncident(d, q.n, to, q.who).db.incidents, q)
<1> DEFINE n == q.n
           inc == d.incidents[n]
           x == Written(inc, to, d.clock)
           a == [x EXCEPT !.status = to, !.reviewed = d.clock,
                          !.assignee = IF @ = NoReviewer THEN q.who ELSE @]
           b == [x EXCEPT !.status = to, !.closed = d.clock]
           move == MoveIncident(d, n, to, q.who)
<1>1. inc \in Incident /\ q.who \in Reviewer \cup {NoReviewer} /\ d.clock \in Nat
  BY ClockType DEF Db, Requests
<1>2. x \in Incident
  BY <1>1, WrittenType DEF NoteKind
<1>3. x.assignee = inc.assignee
  BY <1>1 DEF Written, Incident
<1>4. a \in Incident /\ a.status = to /\ b \in Incident /\ b.status = to
  <2> HIDE DEF x, inc
  <2> QED BY <1>1, <1>2, <1>3 DEF Incident, PlanStatus
<1>5. move.n = n
  BY DEF MoveIncident, Result
<1>6. CASE inc.status = "open" /\ to = "in_review"
  <2>1. move = Result([d EXCEPT !.incidents[n] = a], 200, n)
    BY <1>6 DEF MoveIncident
  <2>2. move.db = [d EXCEPT !.incidents[n] = a]
    BY <2>1 DEF Result
  <2> HIDE DEF a, move
  <2>3. /\ move.db.stamped = d.stamped /\ DOMAIN move.db.incidents = DOMAIN d.incidents
        /\ move.db.clock = d.clock
        /\ \A k \in DOMAIN d.incidents :
              move.db.incidents[k] = IF k = n THEN a ELSE d.incidents[k]
    BY <1>4, <2>2, WriteIncident
  <2>4. Settled(move.db.incidents, q)
    BY <1>4, <1>6, <2>3 DEF Settled
  <2>5. Forward(d.incidents, move.db.incidents)
    BY <1>4, <1>6, <2>3 DEF Forward
  <2>6. ~Settled(d.incidents, q)
    BY <1>6 DEF Settled
  <2>7. \A k \in DOMAIN move.db.incidents : Touched(d, move.db, q, k)
    BY <1>6, <2>3, <2>6 DEF Touched
  <2>8. Outcome(d, move.db, q)
    BY <1>1, <1>6, <2>3, <2>5, <2>7 DEF Outcome, IncidentOps
  <2> QED BY <1>5, <2>4, <2>8 DEF move
<1>7. CASE inc.status = "in_review" /\ to = "closed"
  <2>1. move = Result([d EXCEPT !.incidents[n] = b], 200, n)
    BY <1>7 DEF MoveIncident
  <2>2. move.db = [d EXCEPT !.incidents[n] = b]
    BY <2>1 DEF Result
  <2> HIDE DEF b, move
  <2>3. /\ move.db.stamped = d.stamped /\ DOMAIN move.db.incidents = DOMAIN d.incidents
        /\ move.db.clock = d.clock
        /\ \A k \in DOMAIN d.incidents :
              move.db.incidents[k] = IF k = n THEN b ELSE d.incidents[k]
    BY <1>4, <2>2, WriteIncident
  <2>4. Settled(move.db.incidents, q)
    BY <1>4, <1>7, <2>3 DEF Settled
  <2>5. Forward(d.incidents, move.db.incidents)
    BY <1>4, <1>7, <2>3 DEF Forward
  <2>6. ~Settled(d.incidents, q)
    BY <1>7 DEF Settled
  <2>7. \A k \in DOMAIN move.db.incidents : Touched(d, move.db, q, k)
    BY <1>7, <2>3, <2>6 DEF Touched
  <2>8. Outcome(d, move.db, q)
    BY <1>1, <1>7, <2>3, <2>5, <2>7 DEF Outcome, IncidentOps
  <2> QED BY <1>5, <2>4, <2>8 DEF move
<1>8. CASE /\ ~(inc.status = "open" /\ to = "in_review")
           /\ ~(inc.status = "in_review" /\ to = "closed")
  <2>1. move.db = d /\ (move.code = 200 => inc.status = to)
    BY <1>8 DEF MoveIncident, Result
  <2>2. Outcome(d, move.db, q)
    BY <2>1, NoOutcome
  <2>3. move.code = 200 => Settled(move.db.incidents, q)
    BY <2>1 DEF Settled
  <2> QED BY <1>5, <2>2, <2>3
<1> QED BY <1>6, <1>7, <1>8

LEMMA AssignOutcome ==
    ASSUME NEW d \in Db, NEW q \in Requests, q.by = d.tenant, q.op = "assign",
           q.n \in DOMAIN d.incidents, NEW at \in Clocks
    PROVE  Outcome(d, Assigned(d, q.n, q.who, at), q)
<1>1. /\ d.incidents[q.n] \in Incident /\ q.who \in Reviewer \cup {NoReviewer}
      /\ at \in Nat /\ d.clock \in Nat
  BY ClockType DEF Db, Requests, Clocks
<1>2. PICK n : n = q.n
  OBVIOUS
<1>3. PICK inc : inc = Reassigned(d.incidents[n], q.who, at)
  OBVIOUS
<1>4. inc \in Incident /\ inc.status = d.incidents[n].status
  BY <1>1, <1>2, <1>3, ReassignedFields
<1>5. PICK e : e = Assigned(d, q.n, q.who, at)
  OBVIOUS
<1>6. e = [d EXCEPT !.incidents[n] = inc]
  BY <1>2, <1>3, <1>5 DEF Assigned, Reassigned
<1>7. /\ e.stamped = d.stamped /\ e.clock = d.clock
      /\ DOMAIN e.incidents = DOMAIN d.incidents
      /\ \A k \in DOMAIN d.incidents : e.incidents[k] = IF k = n THEN inc ELSE d.incidents[k]
  BY <1>4, <1>6, WriteIncident
<1>8. Forward(d.incidents, e.incidents)
  BY <1>4, <1>7 DEF Forward
<1>9. \A k \in DOMAIN e.incidents : Touched(d, e, q, k)
  BY <1>2, <1>3, <1>7 DEF Touched
<1>10. Outcome(d, e, q)
  BY <1>1, <1>7, <1>8, <1>9 DEF Outcome, IncidentOps
<1> QED BY <1>5, <1>10

LEMMA ServeOutcome ==
    ASSUME NEW d \in Db, NEW q \in Requests,
           q.op \in {"claim", "close", "assign"} /\ q.by = d.tenant => q.n \in DOMAIN d.incidents
    PROVE  /\ Outcome(d, Serve(d, q).db, q)
           /\ q.op \in {"claim", "close"} /\ Serve(d, q).code = 200 =>
                 Settled(Serve(d, q).db.incidents, q)
           /\ q.op \in {"claim", "close", "assign"} /\ Serve(d, q).code = 200 =>
                 Serve(d, q).n = q.n /\ q.by = d.tenant
           /\ q.op = "file" /\ Serve(d, q).code = 201 =>
                 Serve(d, q).n \in Nat /\ Serve(d, q).n \in DOMAIN Serve(d, q).db.incidents
<1>1. q.op \in {"register", "password", "create", "delete", "invite", "category", "file",
                "claim", "close", "assign"}
  BY DEF Requests
<1>2. CASE q.op \in {"register", "create", "delete", "password"}
  <2>1. /\ Serve(d, q).db.stamped = d.stamped /\ Serve(d, q).db.incidents = d.incidents
        /\ Serve(d, q).db.clock = d.clock
    <3>1. CASE q.op = "register"
      BY <3>1 DEF Serve, RegisterOrganization, Result, Db
    <3>2. CASE q.op = "create"
      BY <3>2 DEF Serve, CreateUser, Result, Db
    <3>3. CASE q.op = "delete"
      BY <3>3 DEF Serve, DeleteUser, Result, Db
    <3>4. CASE q.op = "password"
      BY <3>4 DEF Serve, SetPassword, Result
    <3> QED BY <1>2, <3>1, <3>2, <3>3, <3>4
  <2> QED BY <1>2, <2>1, NoOutcome
<1>3. CASE q.op \notin {"register", "create", "delete", "password"} /\ d.tenant # q.by
  <2>1. Serve(d, q).db = d /\ Serve(d, q).code = 401
    BY <1>3 DEF Serve, Result
  <2> QED BY <2>1, NoOutcome
<1>4. CASE q.op \in {"invite", "category"} /\ d.tenant = q.by
  <2>1. /\ Serve(d, q).db.stamped = d.stamped /\ Serve(d, q).db.incidents = d.incidents
        /\ Serve(d, q).db.clock = d.clock
    BY <1>4 DEF Serve, InviteUser, CreateCategory, Result, Db
  <2> QED BY <1>4, <2>1, NoOutcome
<1>5. CASE q.op = "file" /\ d.tenant = q.by
  <2>1. Serve(d, q) = FileIncident(d)
    BY <1>5 DEF Serve
  <2> QED BY <1>5, <2>1, FileOutcome
<1>6. CASE q.op = "claim" /\ d.tenant = q.by
  <2>1. Serve(d, q) = MoveIncident(d, q.n, "in_review", q.who)
    BY <1>6 DEF Serve
  <2> QED BY <1>6, <2>1, MoveOutcome
<1>7. CASE q.op = "close" /\ d.tenant = q.by
  <2>1. Serve(d, q) = MoveIncident(d, q.n, "closed", q.who)
    BY <1>7 DEF Serve
  <2> QED BY <1>7, <2>1, MoveOutcome
<1>8. CASE q.op = "assign" /\ d.tenant = q.by
  <2>1. /\ Serve(d, q).db = d \/ Serve(d, q).db = Assigned(d, q.n, q.who, d.clock)
        /\ Serve(d, q).n = q.n
    BY <1>8 DEF Serve, AssignIncident, Result
  <2>2. d.clock \in Clocks
    BY DEF Db
  <2>3. Outcome(d, d, q) /\ Outcome(d, Assigned(d, q.n, q.who, d.clock), q)
    BY <1>8, <2>2, NoOutcome, AssignOutcome
  <2> QED BY <1>8, <2>1, <2>3
<1> QED BY <1>1, <1>2, <1>3, <1>4, <1>5, <1>6, <1>7, <1>8
-----------------------------------------------------------------------------
(***************************************************************************)
(* The work of a run: when its tasks are done, no claim or close of it is  *)
(* left that could still have an effect.  An assignment may be left; it is *)
(* one of an incident that the backfill dates before Now.                  *)
(***************************************************************************)
Working == Seeding \cup {"age", "notes", "backfill"}

Applied(q) ==
    \/ Settled(db.incidents, q)
    \/ pc = "incidents" /\ \E t \in Task : job[t] = q.op /\ incident[t] = q.n

LateIsKnown ==
    \A q \in late : q.op \in IncidentOps =>
        q.by # 0 /\ (q.by = db.tenant /\ q.op # "file" => q.n \in DOMAIN db.incidents)

LateIsApplied ==
    pc \in Working \/ db.stamped =>
        \A q \in late : q.op \in {"claim", "close"} /\ q.by = db.tenant => Applied(q)

LateIsAimed ==
    pc \in Working =>
        \A q \in late : q.op = "assign" /\ q.by = db.tenant =>
            \E t \in Task : incident[t] = q.n /\ job[t] # "file"

WorkingFacts == pc \in Working => db.tenant = ids[Admin] /\ db.tenant # 0 /\ ~db.stamped

TasksKnow ==
    /\ plans \in PlanSets
    /\ job \in [Task -> Jobs] /\ incident \in [Task -> Nat]
    /\ pc = "incidents" => \A t \in Task : job[t] # "file" => incident[t] \in DOMAIN db.incidents
    /\ pc \in {"age", "notes", "backfill"} => \A t \in Task : incident[t] \in DOMAIN db.incidents
    /\ pc \in {"preflight", "names", "rows", "accounts", "register", "password", "create",
               "invite", "category"} => \A t \in Task : job[t] = "file"

History ==
    /\ db.tenant = 0 => ~db.stamped
    /\ db.stamped =>
        /\ AllCoherent(db)
        /\ \A q \in late : q.op = "assign" /\ q.by = db.tenant => Ripe(db.incidents[q.n])

WorkInv ==
    /\ LateIsKnown /\ LateIsApplied /\ LateIsAimed
    /\ WorkingFacts /\ TasksKnow /\ History

\* A request of one of the tasks, or one that has nothing to do with incidents.
Sent(q) ==
    q.op \in IncidentOps =>
        /\ pc = "incidents" /\ q.by # 0
        /\ q.op # "file" => /\ q.n \in DOMAIN db.incidents
                            /\ \E t \in Task : job[t] = q.op /\ incident[t] = q.n

\* Requests that are the same for the incidents.
Alike(q, h) == h.op = q.op /\ h.by = q.by /\ h.n = q.n

\* The requests under way are those that were, at one stage or another, or the one sent.
Remain(q) ==
    \A h \in late' : h.op \in IncidentOps =>
        \/ \E w \in late : Alike(w, h)
        \/ UNCHANGED db /\ Sent(q) /\ Alike(q, h)

LEMMA CoherentLater ==
    ASSUME NEW inc \in Incident, NEW c \in Nat, NEW now \in Nat, c <= now, Coherent(inc, c)
    PROVE  Coherent(inc, now)
<1>1. inc.created \in Nat
  BY DEF Incident
<1>2. inc.created <= now
  BY <1>1 DEF Coherent, Timely
<1> QED BY <1>2 DEF Coherent, Timely

LEMMA HistoryUnderOutcome ==
    ASSUME RunInv, WorkInv, NEW q, Effect(db, db', q), Outcome(db, db', q),
           (Allowed(q) /\ Sent(q)) \/ q \in late, Remain(q), db.stamped
    PROVE  /\ AllCoherent(db')
           /\ \A h \in late' : h.op = "assign" /\ h.by = db.tenant => Ripe(db'.incidents[h.n])
<1>1. /\ db \in Db /\ db' \in Db /\ db.clock <= db'.clock /\ db.clock \in Nat /\ db'.clock \in Nat
      /\ db.incidents \in Seq(Incident) /\ db'.incidents \in Seq(Incident)
  <2>1. db \in Db /\ db' \in Db /\ db.clock <= db'.clock
    BY RunFacts DEF Effect, Outcome
  <2> QED BY <2>1, ClockType DEF Db
<1>2. /\ \A k \in DOMAIN db.incidents : db.incidents[k] \in Incident
      /\ \A k \in DOMAIN db'.incidents : db'.incidents[k] \in Incident
  BY <1>1, ElementOf
<1>3. pc \notin Working /\ pc # "incidents"
  BY DEF WorkInv, WorkingFacts, Working, Seeding
<1>4. q.op \in IncidentOps => q \in late
  BY <1>3 DEF Sent
<1>5. q.op \in {"claim", "close"} /\ q.by = db.tenant => Settled(db.incidents, q)
  BY <1>3, <1>4 DEF WorkInv, LateIsApplied, Applied, IncidentOps
<1>6. AllCoherent(db)
  BY DEF WorkInv, History
<1>7. ASSUME q.op = "assign", q.by = db.tenant
      PROVE  Ripe(db.incidents[q.n]) /\ q.who \in Reviewer \cup {NoReviewer}
  <2>1. q \in late
    BY <1>4, <1>7 DEF IncidentOps
  <2>2. q.who \in Reviewer \cup {NoReviewer}
    BY <2>1, RunFacts, RequestFacts
  <2> QED BY <1>7, <2>1, <2>2 DEF WorkInv, History
<1>8. ASSUME NEW k \in DOMAIN db'.incidents
      PROVE  /\ Coherent(db'.incidents[k], db.clock)
             /\ k \in DOMAIN db.incidents /\ Ripe(db.incidents[k]) => Ripe(db'.incidents[k])
  <2>1. CASE k \in DOMAIN db.incidents /\ db'.incidents[k] = db.incidents[k]
    BY <1>6, <2>1 DEF AllCoherent
  <2>2. CASE k \notin DOMAIN db.incidents /\ Coherent(db'.incidents[k], db.clock)
    BY <2>2
  <2>3. CASE /\ k = q.n /\ q.op = "assign" /\ q.by = db.tenant /\ k \in DOMAIN db.incidents
             /\ \E at \in Clocks : db'.incidents[k] = Reassigned(db.incidents[k], q.who, at)
    <3>1. PICK at \in Clocks : db'.incidents[k] = Reassigned(db.incidents[k], q.who, at)
      BY <2>3
    <3>2. /\ db.incidents[k] \in Incident /\ Ripe(db.incidents[k])
          /\ q.who \in Reviewer \cup {NoReviewer} /\ Coherent(db.incidents[k], db.clock)
      BY <1>2, <1>6, <1>7, <2>3 DEF AllCoherent
    <3> QED BY <1>1, <3>1, <3>2, ReassignedStays
  <2> QED BY <1>5, <2>1, <2>2, <2>3 DEF Outcome, Touched
<1>9. AllCoherent(db')
  BY <1>1, <1>2, <1>8, CoherentLater DEF AllCoherent
<1>10. ASSUME NEW h \in late', h.op = "assign", h.by = db.tenant
       PROVE  Ripe(db'.incidents[h.n])
  <2>1. PICK w \in late : Alike(w, h)
    BY <1>3, <1>10 DEF Remain, Sent, Alike, IncidentOps
  <2>2. /\ w.n = h.n /\ w.n \in DOMAIN db.incidents /\ Ripe(db.incidents[w.n])
    BY <1>10, <2>1 DEF Alike, WorkInv, History, LateIsKnown, IncidentOps
  <2>3. w.n \in DOMAIN db'.incidents
    BY <2>2 DEF Outcome, Forward
  <2> QED BY <1>8, <2>2, <2>3
<1> QED BY <1>9, <1>10

LEMMA WorkUnderOutcome ==
    ASSUME RunInv, WorkInv, NEW q, Effect(db, db', q), Outcome(db, db', q),
           (Allowed(q) /\ Sent(q)) \/ q \in late, Remain(q)
    PROVE  /\ LateIsKnown' /\ History'
           /\ db'.stamped = db.stamped
           /\ db.tenant # 0 => db'.tenant = db.tenant
           /\ pc \in Working \/ db.stamped =>
                 \A h \in late' : h.op \in {"claim", "close"} /\ h.by = db'.tenant =>
                    Settled(db'.incidents, h)
                    \/ (pc = "incidents" /\ \E t \in Task : job[t] = h.op /\ incident[t] = h.n)
           /\ pc \in Working =>
                 \A h \in late' : h.op = "assign" /\ h.by = db'.tenant =>
                    \E t \in Task : incident[t] = h.n /\ job[t] # "file"
           /\ DOMAIN db.incidents \subseteq DOMAIN db'.incidents
           /\ UNCHANGED <<pc, ids, plans, job, incident>> =>
                 LateIsApplied' /\ LateIsAimed' /\ WorkingFacts' /\ TasksKnow'
<1>1. /\ db.tenant \in Nat /\ db'.tenant \in Nat /\ db.nextId \in Nat /\ db'.nextId \in Nat
      /\ db.nextId # 0 /\ db'.stamped = db.stamped
      /\ DOMAIN db.incidents \subseteq DOMAIN db'.incidents
  BY RunFacts, DbFacts DEF Effect, Outcome, Forward
<1>2. \A h \in late : h.by \in Nat /\ h.by < db.nextId
  BY RunFacts
<1>3. db.tenant # 0 => db'.tenant = db.tenant
  BY <1>1 DEF Effect
<1>4. \A h \in late : h.by = db'.tenant => h.by = db.tenant
  BY <1>1, <1>2 DEF Effect
<1>5. LateIsKnown'
  <2> SUFFICES ASSUME NEW h \in late', h.op \in IncidentOps
               PROVE  /\ h.by # 0
                      /\ h.by = db'.tenant /\ h.op # "file" => h.n \in DOMAIN db'.incidents
    BY DEF LateIsKnown
  <2>1. ASSUME NEW w \in late, Alike(w, h)
        PROVE  /\ h.by # 0
               /\ h.by = db'.tenant /\ h.op # "file" => h.n \in DOMAIN db'.incidents
    BY <1>1, <1>4, <2>1 DEF WorkInv, LateIsKnown, Alike
  <2>2. CASE UNCHANGED db /\ Sent(q) /\ Alike(q, h)
    BY <1>1, <2>2 DEF Sent, Alike
  <2> QED BY <2>1, <2>2 DEF Remain
<1>6. ASSUME pc \in Working \/ db.stamped, NEW h \in late', h.op \in {"claim", "close"},
             h.by = db'.tenant
      PROVE  Settled(db'.incidents, h)
             \/ (pc = "incidents" /\ \E t \in Task : job[t] = h.op /\ incident[t] = h.n)
  <2>1. ASSUME NEW w \in late, Alike(w, h)
        PROVE  Settled(db'.incidents, h)
               \/ (pc = "incidents" /\ \E t \in Task : job[t] = h.op /\ incident[t] = h.n)
    <3>1. Applied(w)
      BY <1>4, <1>6, <2>1 DEF WorkInv, LateIsApplied, Alike
    <3>2. Settled(db.incidents, w) => Settled(db'.incidents, h)
      BY <1>1, <2>1 DEF Settled, Outcome, Forward, Alike
    <3> QED BY <2>1, <3>1, <3>2 DEF Applied, Alike
  <2>2. CASE Sent(q) /\ Alike(q, h)
    BY <1>6, <2>2 DEF Sent, IncidentOps, Alike
  <2> QED BY <1>6, <2>1, <2>2 DEF Remain, IncidentOps
<1>7. History'
  <2>1. db'.tenant = 0 => ~db'.stamped
    BY <1>1, <1>3 DEF WorkInv, History
  <2>2. ASSUME db.stamped
        PROVE  /\ AllCoherent(db')
               /\ \A h \in late' : h.op = "assign" /\ h.by = db'.tenant => Ripe(db'.incidents[h.n])
    <3>1. db'.tenant = db.tenant
      BY <1>3, <2>2 DEF WorkInv, History
    <3> QED BY <2>2, <3>1, HistoryUnderOutcome
  <2> QED BY <1>1, <2>1, <2>2 DEF History, AllCoherent
<1>8. ASSUME pc \in Working, NEW h \in late', h.op = "assign", h.by = db'.tenant
      PROVE  \E t \in Task : incident[t] = h.n /\ job[t] # "file"
  <2>1. ASSUME NEW w \in late, Alike(w, h)
        PROVE  \E t \in Task : incident[t] = h.n /\ job[t] # "file"
    BY <1>4, <1>8, <2>1 DEF WorkInv, LateIsAimed, Alike
  <2>2. CASE Sent(q) /\ Alike(q, h)
    BY <1>8, <2>2 DEF Sent, IncidentOps, Alike
  <2> QED BY <1>8, <2>1, <2>2 DEF Remain, IncidentOps
<1>9. ASSUME UNCHANGED <<pc, ids, plans, job, incident>>
      PROVE  LateIsApplied' /\ LateIsAimed' /\ WorkingFacts' /\ TasksKnow'
  <2>1. LateIsApplied'
    BY <1>1, <1>6, <1>9 DEF LateIsApplied, Applied
  <2>2. WorkingFacts'
    BY <1>1, <1>3, <1>9 DEF WorkInv, WorkingFacts
  <2>3. TasksKnow'
    BY <1>1, <1>9 DEF WorkInv, TasksKnow
  <2>4. LateIsAimed'
    BY <1>8, <1>9 DEF LateIsAimed
  <2> QED BY <2>1, <2>2, <2>3, <2>4
<1> QED BY <1>1, <1>3, <1>5, <1>6, <1>7, <1>8, <1>9

\* A registration that commits late finds nobody at work.
LEMMA RegisteredWorks ==
    ASSUME RunInv, WorkInv, NEW q \in late, Committed(q), q.op = "register",
           UNCHANGED <<pc, ids, plans, job, incident>>
    PROVE  WorkInv'
<1>1. /\ late' \subseteq late /\ db.tenant = 0 /\ db'.tenant = q.n /\ q.n # 0
      /\ \A w \in late : w.by # q.n
      /\ db' = [db EXCEPT !.tenant = q.n, !.row[Admin] = q.n]
  BY RegisteredIsHarmless DEF RunInv
<1>2. db'.incidents = db.incidents /\ db'.stamped = db.stamped
  BY <1>1, RunFacts DEF Db
<1>3. pc \notin Working /\ ~db.stamped
  BY <1>1 DEF WorkInv, WorkingFacts, History
<1>4. LateIsKnown'
  BY <1>1 DEF WorkInv, LateIsKnown
<1>5. LateIsApplied' /\ LateIsAimed' /\ WorkingFacts' /\ History'
  BY <1>1, <1>2, <1>3 DEF LateIsApplied, LateIsAimed, WorkingFacts, History
<1>6. TasksKnow'
  BY <1>2 DEF WorkInv, TasksKnow
<1> QED BY <1>4, <1>5, <1>6 DEF WorkInv

\* Any other request that lands late, with its effect and what remains of it.
LEMMA LandOutcome ==
    ASSUME RunInv, WorkInv, NEW q \in late, Land(q), ~(Committed(q) /\ q.op = "register")
    PROVE  Effect(db, db', q) /\ Outcome(db, db', q) /\ Remain(q)
<1>1. /\ db \in Db /\ q \in Requests /\ Fits(db, told, q) /\ Harmless(db, told, late)
      /\ q.op \in {"claim", "close", "assign"} /\ q.by = db.tenant => q.n \in DOMAIN db.incidents
  BY RunFacts DEF RunInv, WorkInv, LateIsKnown, IncidentOps
<1>2. Outcome(db, db, q) /\ Effect(db, db, q)
  BY <1>1, NoOutcome, KeepsIsAnEffect DEF Keeps
<1>3. CASE Dropped(q)
  BY <1>2, <1>3 DEF Dropped, Remain, Alike
<1>4. CASE Served(q)
  BY <1>1, <1>4, ServeOutcome, ServeEffect DEF Served, Remain, Alike
<1>5. CASE Begun(q)
  <2>1. Effect(db, db', q)
    BY <1>1, <1>5, BegunIsHarmless
  <2>2. Remain(q)
    BY <1>1, <1>5, BegunIsHarmless DEF Remain, Alike
  <2>3. Outcome(db, db', q)
    <3> DEFINE next == db.clock + 1
    <3>1. db.clock \in Nat /\ next \in Nat /\ db.clock <= next
      BY <1>1, ClockType
    <3>2. db' = db \/ db' = [db EXCEPT !.clock = next]
      BY <1>5 DEF Begun
    <3> HIDE DEF next
    <3>3. /\ db'.stamped = db.stamped /\ db'.incidents = db.incidents /\ db.clock <= db'.clock
      BY <1>1, <3>1, <3>2 DEF Db
    <3> QED BY <3>3 DEF Outcome, Forward, Touched
  <2> QED BY <2>1, <2>2, <2>3
<1>6. CASE Made(q)
  <2>1. Effect(db, db', q)
    BY <1>1, <1>6, MadeIsHarmless
  <2>2. Remain(q)
    <3>1. PICK h : late' = (late \ {q}) \cup {h} /\ h.op = q.op
      BY <1>1, <1>6, MadeIsHarmless
    <3>2. q.op \notin IncidentOps
      BY <1>6 DEF Made, IncidentOps
    <3> QED BY <3>1, <3>2 DEF Remain, Alike
  <2>3. /\ db'.stamped = db.stamped /\ db'.incidents = db.incidents
        /\ db'.clock = db.clock
    BY <1>1, <1>6 DEF Made, CreateUser, Result, Db
  <2> QED BY <1>1, <2>1, <2>2, <2>3, NoOutcome
<1>7. CASE Committed(q)
  <2>0. q.op # "register"
    BY <1>7
  <2>1. Effect(db, db', q) /\ late' \subseteq late
    BY <1>1, <1>7, <2>0, CommittedIsHarmless
  <2>2. Remain(q)
    BY <2>1 DEF Remain, Alike
  <2>3. Outcome(db, db', q)
    <3>1. CASE q.op = "invite"
      <4>1. /\ db'.stamped = db.stamped /\ db'.incidents = db.incidents
            /\ db'.clock = db.clock
        BY <1>1, <1>7, <3>1 DEF Committed, Db
      <4> QED BY <1>1, <4>1, NoOutcome
    <3>2. CASE q.op = "assign"
      <4>1. /\ q.stage = "begun" /\ db.tenant = q.by /\ db' = Assigned(db, q.n, q.who, q.at)
        BY <1>7, <3>2 DEF Committed
      <4>2. q.at \in Clocks
        BY <1>1, <4>1 DEF Fits
      <4> QED BY <1>1, <3>2, <4>1, <4>2, AssignOutcome
    <3> QED BY <1>7, <2>0, <3>1, <3>2 DEF Committed
  <2> QED BY <2>1, <2>2, <2>3
<1>8. CASE Compensated(q)
  <2>1. db' = db /\ \E h : late' = (late \ {q}) \cup {h} /\ h.op = "delete"
    BY <1>1, <1>8, CompensatedIsHarmless DEF Compensated
  <2>2. Remain(q)
    BY <2>1 DEF Remain, Alike, IncidentOps
  <2> QED BY <1>2, <2>1, <2>2
<1> QED BY <1>3, <1>4, <1>5, <1>6, <1>7, <1>8 DEF Land

LEMMA LandWorks ==
    ASSUME RunInv, WorkInv, NEW q \in late, Land(q)
    PROVE  WorkInv'
<1>1. UNCHANGED <<pc, ids, plans, job, incident>>
  BY DEF Land, accounts, between, tasks
<1>2. CASE Committed(q) /\ q.op = "register"
  BY <1>1, <1>2, RegisteredWorks
<1>3. CASE ~(Committed(q) /\ q.op = "register")
  <2>1. Effect(db, db', q) /\ Outcome(db, db', q) /\ Remain(q)
    BY <1>3, LandOutcome
  <2> QED BY <1>1, <2>1, WorkUnderOutcome DEF WorkInv
<1> QED BY <1>2, <1>3

\* An attempt of the script, as far as incidents are concerned.
LEMMA AttemptWorks ==
    ASSUME RunInv, WorkInv, NEW q, Allowed(q), Sent(q), NEW a, Exchange(q, a)
    PROVE  /\ LateIsKnown' /\ History'
           /\ db'.stamped = db.stamped
           /\ db.tenant # 0 => db'.tenant = db.tenant
           /\ pc \in Working \/ db.stamped =>
                 \A h \in late' : h.op \in {"claim", "close"} /\ h.by = db'.tenant =>
                    Settled(db'.incidents, h)
                    \/ (pc = "incidents" /\ \E t \in Task : job[t] = h.op /\ incident[t] = h.n)
           /\ pc \in Working =>
                 \A h \in late' : h.op = "assign" /\ h.by = db'.tenant =>
                    \E t \in Task : incident[t] = h.n /\ job[t] # "file"
           /\ DOMAIN db.incidents \subseteq DOMAIN db'.incidents
           /\ UNCHANGED <<pc, ids, plans, job, incident>> =>
                 LateIsApplied' /\ LateIsAimed' /\ WorkingFacts' /\ TasksKnow'
<1>1. db \in Db /\ q \in Requests
  BY RunFacts DEF Allowed, Fits
<1>2. /\ Effect(db, db', q)
      /\ late' = late \/ (UNCHANGED db /\ late' = late \cup {q})
  BY ExchangeIsHarmless DEF RunInv
<1>3. Outcome(db, db', q)
  <2>1. Outcome(db, db, q)
    BY <1>1, NoOutcome
  <2>2. Outcome(db, Serve(db, q).db, q)
    BY <1>1, ServeOutcome DEF Sent, IncidentOps
  <2> QED BY <2>1, <2>2 DEF Exchange
<1>4. Remain(q)
  BY <1>2 DEF Remain, Alike
<1> QED BY <1>2, <1>3, <1>4, WorkUnderOutcome
-----------------------------------------------------------------------------
LEMMA UpdatedAtType ==
    ASSUME NEW p \in Plan
    PROVE  UpdatedAt(p) \in Nat
<1> DEFINE S == {p.created} \cup EventTimes(p)
           early == IF p.created <= p.review THEN p.review ELSE p.created
           later == IF p.reassign <= p.closed THEN p.closed ELSE p.reassign
           last == IF early <= later THEN later ELSE early
<1>1. /\ p.created \in Nat /\ p.review \in Nat /\ p.reassign \in Nat /\ p.closed \in Nat
  BY DEF Plan
<1>2. last \in S /\ \A u \in S : u <= last /\ u \in Nat
  BY <1>1 DEF EventTimes, Never
<1>3. UpdatedAt(p) \in S
  BY <1>2 DEF UpdatedAt
<1> QED BY <1>2, <1>3

LEMMA StampType ==
    ASSUME NEW inc \in Incident, NEW p \in Plan, NEW steps, NEW n
    PROVE  /\ Stamp(inc, p, steps, n) \in Incident
           /\ Stamp(inc, p, steps, n).status = inc.status
           /\ Stamp(inc, p, steps, n).updated = UpdatedAt(p)
<1> DEFINE N == [kind : NoteKind, at : Nat]
           notes == [k \in DOMAIN inc.notes |->
                      IF k <= n THEN [inc.notes[k] EXCEPT !.at = NoteTime(p, inc.notes[k].kind)]
                      ELSE inc.notes[k]]
           reviewed == IF "in_review" \in steps /\ p.review # Never THEN p.review ELSE inc.reviewed
           closed == IF "closed" \in steps /\ p.closed # Never THEN p.closed ELSE inc.closed
<1>1. /\ inc.notes \in Seq(N) /\ UpdatedAt(p) \in Nat
      /\ p.created \in Nat /\ p.review \in Nat /\ p.reassign \in Nat /\ p.closed \in Nat
  BY UpdatedAtType DEF Incident, Plan
<1>2. \A kind \in NoteKind : NoteTime(p, kind) \in Nat
  BY <1>1 DEF NoteTime, NoteKind
<1>3. ASSUME NEW k \in DOMAIN inc.notes PROVE notes[k] \in N
  <2>1. inc.notes[k] \in N
    BY <1>1, ElementOf
  <2> QED BY <1>2, <2>1
<1>4. notes \in Seq(N)
  <2>1. DOMAIN inc.notes = 1..Len(inc.notes) /\ Len(inc.notes) \in Nat
    BY <1>1
  <2>2. notes \in [1..Len(inc.notes) -> N]
    BY <1>3, <2>1
  <2> HIDE DEF notes, N
  <2> QED BY <2>1, <2>2
<1>5. Stamp(inc, p, steps, n) = [inc EXCEPT !.created = p.created, !.updated = UpdatedAt(p),
                                    !.reviewed = reviewed, !.closed = closed, !.notes = notes]
  BY DEF Stamp, Incident
<1>6. reviewed \in Nat /\ closed \in Nat
  BY <1>1 DEF Incident
<1> HIDE DEF notes, reviewed, closed
<1> QED BY <1>1, <1>4, <1>5, <1>6 DEF Incident

LEMMA StampedFacts ==
    ASSUME RunInv, WorkInv
    PROVE  /\ Stamped(db) \in Seq(Incident)
           /\ DOMAIN Stamped(db) = DOMAIN db.incidents
           /\ \A k \in DOMAIN db.incidents :
                 /\ Stamped(db)[k] \in Incident
                 /\ Stamped(db)[k].status = db.incidents[k].status
                 /\ (\E t \in Task : incident[t] = k) => Stamped(db)[k].updated < Now
<1> DEFINE s == db.incidents
           Planned(k) == \E t \in Task : incident[t] = k
           one(k) == CHOOSE t \in Task : incident[t] = k
<1>1. s \in Seq(Incident)
  BY RunFacts DEF Db
<1>2. \A t \in Task : plans[t] \in Plan /\ UpdatedAt(plans[t]) < Now
  <2> SUFFICES ASSUME NEW t \in Task PROVE plans[t] \in Plan /\ UpdatedAt(plans[t]) < Now
    OBVIOUS
  <2>1. Truthful(plans[t])
    BY RunAssumption DEF WorkInv, TasksKnow
  <2>2. UpdatedAt(plans[t]) < Now
    BY <2>1, UpdatedAtFacts
  <2> QED BY <2>1, <2>2 DEF Truthful
<1>3. DOMAIN Stamped(db) = DOMAIN s
  BY DEF Stamped
<1>4. ASSUME NEW k \in DOMAIN s
      PROVE  /\ Stamped(db)[k] \in Incident /\ Stamped(db)[k].status = s[k].status
             /\ Planned(k) => Stamped(db)[k].updated < Now
  <2>1. s[k] \in Incident
    BY <1>1, ElementOf
  <2>2. CASE Planned(k)
    <3>1. one(k) \in Task
      BY <2>2
    <3>2. Stamped(db)[k] = Stamp(s[k], plans[one(k)], known[one(k)], seen[one(k)])
      BY <2>2 DEF Stamped
    <3> HIDE DEF one
    <3> QED BY <1>2, <2>1, <3>1, <3>2, StampType
  <2>3. CASE ~Planned(k)
    <3>1. Stamped(db)[k] = s[k]
      BY <2>3 DEF Stamped
    <3> QED BY <2>1, <2>3, <3>1
  <2> QED BY <2>2, <2>3
<1>5. Stamped(db) \in Seq(Incident)
  <2>1. DOMAIN s = 1..Len(s) /\ Len(s) \in Nat
    BY <1>1
  <2>2. Stamped(db) = [k \in 1..Len(s) |-> Stamped(db)[k]]
    BY <2>1 DEF Stamped
  <2>3. \A k \in 1..Len(s) : Stamped(db)[k] \in Incident
    BY <1>4, <2>1
  <2> QED BY <2>1, <2>2, <2>3
<1> QED BY <1>3, <1>4, <1>5

\* Incidents that pass the checks are coherent, and ripe if they are dated before Now.
LEMMA VerifiedIsRipe ==
    ASSUME NEW inc \in Incident, NEW now, Verified(inc, now)
    PROVE  Coherent(inc, now) /\ (inc.updated < Now => Ripe(inc))
<1>1. Coherent(inc, now)
  BY DEF Verified, Coherent
<1>2. ASSUME inc.updated < Now PROVE Ripe(inc)
  <2>1. /\ inc.created \in Nat /\ inc.updated \in Nat /\ inc.reviewed \in Nat
        /\ inc.closed \in Nat /\ Now \in Nat /\ inc.notes \in Seq([kind : NoteKind, at : Nat])
    BY PlanAssumption DEF Incident
  <2>2. inc.created <= inc.updated
    BY DEF Verified, Timely
  <2>3. \A t \in {inc.reviewed, inc.closed} \ {Never} : t <= inc.updated
    BY DEF Verified, Timely, Within
  <2>4. ASSUME NEW k \in DOMAIN inc.notes PROVE ~(inc.notes[k].at > Now)
    <3>1. inc.notes[k] \in [kind : NoteKind, at : Nat]
      BY <2>1, ElementOf
    <3>2. inc.notes[k].at <= inc.updated
      BY DEF Verified, Within
    <3> QED BY <1>2, <2>1, <3>1, <3>2
  <2>5. \A t \in {inc.reviewed, inc.closed} : t <= Now
    <3> SUFFICES ASSUME NEW t \in {inc.reviewed, inc.closed} PROVE t <= Now
      OBVIOUS
    <3>1. CASE t = Never
      BY <2>1, <3>1 DEF Never
    <3>2. CASE t # Never
      <4>1. t \in {inc.reviewed, inc.closed} \ {Never} /\ t \in Nat
        BY <2>1, <3>2
      <4>2. t <= inc.updated
        BY <2>3, <4>1
      <4> QED BY <1>2, <2>1, <4>1, <4>2
    <3> QED BY <3>1, <3>2
  <2> QED BY <1>2, <2>1, <2>2, <2>4, <2>5 DEF Ripe
<1> QED BY <1>1, <1>2

\* A change that leaves the identities alone.
LEMMA KeptIsHarmless ==
    ASSUME RunInv, NEW e, Keeps(db, e)
    PROVE  Harmless(e, told, late)
<1>1. /\ e \in Db /\ e.nextId = db.nextId /\ e.tenant = db.tenant
      /\ e.account = db.account /\ e.row = db.row /\ Harmless(db, told, late)
  BY DEF Keeps, RunInv
<1>2. Sound(e, told)
  BY <1>1 DEF Harmless, Sound, Kept
<1>3. \A x \in late : Fits(e, told, x)
  BY <1>1 DEF Harmless, Fits, Live
<1>4. \A x, y \in late : Apart(e, x, y)
  BY <1>1 DEF Harmless, Apart, Live
<1> QED BY <1>2, <1>3, <1>4 DEF Harmless

LEMMA BackfillHolds ==
    ASSUME RunInv, WorkInv, Backfill
    PROVE  RunInv' /\ WorkInv'
<1> DEFINE rewritten == Stamped(db)
           e == [db EXCEPT !.incidents = rewritten, !.stamped = TRUE]
<1>1. /\ pc = "backfill" /\ pc' \in {"verify", "ended"}
      /\ UNCHANGED <<late, ids, listed, user, told, plans, job, incident>>
  BY DEF Backfill, Goto, Exit, between, accounts, tasks
<1>2. /\ db \in Db /\ db.nextId \in Nat /\ db.tenant # 0
      /\ \A q \in late : q.op \in {"claim", "close"} /\ q.by = db.tenant => Settled(db.incidents, q)
      /\ \A q \in late : q.op = "assign" /\ q.by = db.tenant =>
            \E t \in Task : incident[t] = q.n
  BY <1>1, RunFacts
     DEF WorkInv, WorkingFacts, LateIsApplied, LateIsAimed, Applied, Working
<1>3. pc' \notin Working /\ pc' # "incidents" /\ pc' \notin {"age", "notes", "backfill"}
  BY <1>1 DEF Working, Seeding
<1>4. ASSUME db'.nextId = db.nextId PROVE ScriptIsCareful'
  <2>1. db'.nextId \in Nat /\ db.nextId <= db'.nextId
    BY <1>2, <1>4
  <2>2. /\ pc' \in Phases /\ pc' \notin Seeding
        /\ pc' \notin {"create", "invite", "rows", "accounts", "preflight", "names",
                       "register", "password"}
    BY <1>1 DEF Phases, Seeding
  <2> QED BY <1>1, <2>1, <2>2, CarefulElsewhere
<1>5. CASE db' = db
  <2>1. Harmless(db, told, late)' /\ ScriptIsCareful'
    BY <1>1, <1>4, <1>5, HarmlessStays
  <2>2. History' /\ LateIsKnown' /\ WorkingFacts' /\ LateIsAimed'
    BY <1>1, <1>3, <1>5 DEF WorkInv, History, LateIsKnown, LateIsAimed, WorkingFacts
  <2>3. LateIsApplied'
    BY <1>1, <1>2, <1>5 DEF LateIsApplied, Applied
  <2>4. TasksKnow'
    BY <1>1, <1>5 DEF WorkInv, TasksKnow
  <2> QED BY <2>1, <2>2, <2>3, <2>4 DEF RunInv, WorkInv
<1>6. CASE db' # db
  <2>1. db' = e /\ \A k \in DOMAIN rewritten : Verified(rewritten[k], db.clock)
    BY <1>6 DEF Backfill
  <2>2. /\ rewritten \in Seq(Incident) /\ DOMAIN rewritten = DOMAIN db.incidents
        /\ \A k \in DOMAIN db.incidents :
              /\ rewritten[k] \in Incident
              /\ rewritten[k].status = db.incidents[k].status
              /\ (\E t \in Task : incident[t] = k) => rewritten[k].updated < Now
    BY StampedFacts
  <2> HIDE DEF rewritten
  <2>3. /\ e \in Db /\ e.tenant = db.tenant /\ e.account = db.account /\ e.row = db.row
        /\ e.nextId = db.nextId /\ e.incidents = rewritten /\ e.stamped = TRUE
        /\ e.clock = db.clock
    BY <1>2, <2>2 DEF Db
  <2> HIDE DEF e
  <2>4. Harmless(db, told, late)'
    <3>1. Harmless(e, told, late)
      BY <2>3, KeptIsHarmless DEF Keeps
    <3> QED BY <1>1, <2>1, <3>1
  <2>5. ScriptIsCareful'
    BY <1>4, <2>1, <2>3
  <2>6. \A k \in DOMAIN rewritten :
            /\ Coherent(rewritten[k], db.clock)
            /\ (\E t \in Task : incident[t] = k) => Ripe(rewritten[k])
    BY <2>1, <2>2, VerifiedIsRipe
  <2>7. LateIsKnown' /\ WorkingFacts' /\ LateIsAimed'
    BY <1>1, <1>3, <2>1, <2>2, <2>3 DEF WorkInv, LateIsKnown, LateIsAimed, WorkingFacts
  <2>8. History'
    <3>1. \A q \in late : q.op = "assign" /\ q.by = db.tenant => Ripe(rewritten[q.n])
      BY <1>2, <2>2, <2>6 DEF WorkInv, LateIsKnown, IncidentOps
    <3> QED BY <1>1, <1>2, <2>1, <2>3, <2>6, <3>1 DEF History, AllCoherent
  <2>9. LateIsApplied'
    BY <1>1, <1>2, <2>1, <2>2, <2>3 DEF LateIsApplied, Applied, Settled
  <2>10. TasksKnow'
    BY <1>1, <2>1, <2>2, <2>3 DEF WorkInv, TasksKnow
  <2> QED BY <2>4, <2>5, <2>7, <2>8, <2>9, <2>10 DEF RunInv, WorkInv
<1> QED BY <1>5, <1>6
-----------------------------------------------------------------------------
\* The phases before the first task.
Early == {"preflight", "names", "rows", "accounts", "register", "password", "create", "invite",
          "category"}

Gathering == \A t \in Task : job[t] = "done"

\* A step that only takes the script to its next phase.
LEMMA MovesOn ==
    ASSUME WorkInv, UNCHANGED <<db, late, ids, plans, job, incident>>,
           pc' \in Working => pc \in Working,
           pc' \in Early => pc \in Early,
           pc' = "incidents" => pc = "incidents",
           pc' \in {"age", "notes", "backfill"} =>
               pc \in {"age", "notes", "backfill"} \/ (pc = "incidents" /\ Gathering)
    PROVE  WorkInv'
<1>1. LateIsKnown' /\ History' /\ WorkingFacts' /\ LateIsAimed'
  BY DEF WorkInv, LateIsKnown, History, AllCoherent, WorkingFacts, LateIsAimed
<1>2. LateIsApplied'
  <2> SUFFICES ASSUME pc' \in Working \/ db.stamped, NEW q \in late, q.op \in {"claim", "close"},
                      q.by = db.tenant
               PROVE  Applied(q)'
    BY DEF LateIsApplied
  <2>1. pc \in Working \/ db.stamped
    OBVIOUS
  <2>2. Applied(q)
    BY <2>1 DEF WorkInv, LateIsApplied
  <2>3. CASE Settled(db.incidents, q)
    BY <2>3 DEF Applied
  <2>4. CASE pc = "incidents" /\ \E t \in Task : job[t] = q.op /\ incident[t] = q.n
    <3>1. pc' \in Working
      BY <2>4 DEF WorkInv, WorkingFacts, Working, Seeding
    <3>2. pc' = "incidents"
      BY <2>4, <3>1 DEF Gathering, Working, Seeding, Early
    <3> QED BY <2>4, <3>2 DEF Applied
  <2> QED BY <2>2, <2>3, <2>4 DEF Applied
<1>3. TasksKnow'
  BY DEF WorkInv, TasksKnow, Gathering, Early
<1> QED BY <1>1, <1>2, <1>3 DEF WorkInv

LEMMA ReadingWorks ==
    ASSUME WorkInv,
           \/ Preflight \/ FindTenant \/ Purged \/ Gathered \/ AgeNotifications
           \/ ReadNotifications \/ Verify \/ GiveUp \/ Crash
    PROVE  WorkInv'
<1> USE DEF Goto, Exit, StartSeeding, server, between, accounts, tasks
<1>1. UNCHANGED <<db, late, ids, plans, job, incident>>
  BY DEF Preflight, FindTenant, Purged, Gathered, AgeNotifications, ReadNotifications,
         Verify, GiveUp, Crash
<1>2. /\ pc' \in Working => pc \in Working
      /\ pc' \in Early => pc \in Early
      /\ pc' = "incidents" => pc = "incidents"
      /\ pc' \in {"age", "notes", "backfill"} =>
            pc \in {"age", "notes", "backfill"} \/ (pc = "incidents" /\ Gathering)
  BY DEF Preflight, FindTenant, Purged, Gathered, AgeNotifications, ReadNotifications,
         Verify, GiveUp, Crash, Working, Seeding, Early, Gathering
<1> QED BY <1>1, <1>2, MovesOn

LEMMA StartRunWorks ==
    ASSUME WorkInv, NEW m \in Modes, StartRun(m)
    PROVE  WorkInv'
<1>1. /\ UNCHANGED <<db, late, plans>> /\ pc = "ended" /\ pc' = "preflight"
      /\ job' = [t \in Task |-> "file"] /\ incident' = [t \in Task |-> 0]
  BY DEF StartRun
<1>2. LateIsKnown' /\ History' /\ WorkingFacts' /\ LateIsAimed'
  BY <1>1 DEF WorkInv, LateIsKnown, History, AllCoherent, WorkingFacts, LateIsAimed, Working,
              Seeding
<1>3. LateIsApplied'
  BY <1>1 DEF WorkInv, LateIsApplied, Applied, Working, Seeding
<1>4. TasksKnow'
  BY <1>1 DEF WorkInv, TasksKnow, Jobs
<1> QED BY <1>2, <1>3, <1>4 DEF WorkInv

\* Without its tenant, a database has no history to hold.
LEMMA ForgottenWorks ==
    ASSUME WorkInv, db'.tenant = 0, db'.incidents = << >>, ~db'.stamped,
           UNCHANGED <<late, plans, job, incident>>,
           pc' \in {"accounts", "ended"}, pc' = "accounts" => pc = "rows"
    PROVE  WorkInv'
<1>1. LateIsKnown' /\ LateIsApplied' /\ WorkingFacts' /\ LateIsAimed'
  BY DEF WorkInv, LateIsKnown, LateIsApplied, WorkingFacts, LateIsAimed, Working, Seeding
<1>2. History'
  BY DEF History
<1>3. TasksKnow'
  BY DEF WorkInv, TasksKnow
<1> QED BY <1>1, <1>2, <1>3 DEF WorkInv

LEMMA PurgeRowsWorks ==
    ASSUME RunInv, WorkInv, PurgeRows
    PROVE  WorkInv'
<1>1. /\ pc = "rows" /\ pc' = "accounts" /\ UNCHANGED <<late, ids, plans, job, incident>>
  BY DEF PurgeRows, Goto, between, accounts, tasks
<1>2. CASE doomed # 0 /\ db.tenant = doomed
  <2> DEFINE e == [db EXCEPT !.tenant = 0, !.row = NoMailboxes, !.category = FALSE,
                             !.incidents = << >>, !.stamped = FALSE]
  <2>1. db' = e
    BY <1>2 DEF PurgeRows
  <2>2. e.tenant = 0 /\ e.incidents = << >> /\ e.stamped = FALSE
    BY RunFacts DEF Db
  <2> QED BY <1>1, <2>1, <2>2, ForgottenWorks
<1>3. CASE ~(doomed # 0 /\ db.tenant = doomed)
  <2>1. db' = db
    BY <1>3 DEF PurgeRows
  <2> QED BY <1>1, <2>1, MovesOn DEF Working, Seeding, Early
<1> QED BY <1>2, <1>3

LEMMA RenameHolds ==
    ASSUME RunInv, WorkInv, Rename
    PROVE  RunInv' /\ WorkInv'
<1>0. PICK same \in BOOLEAN :
        db' = [db EXCEPT !.tenant = 0, !.folded = same, !.row = NoMailboxes,
                         !.category = FALSE, !.incidents = << >>, !.stamped = FALSE]
  BY DEF Rename
<1> DEFINE e == [db EXCEPT !.tenant = 0, !.folded = same, !.row = NoMailboxes,
                           !.category = FALSE, !.incidents = << >>, !.stamped = FALSE]
<1>1. /\ pc = "ended" /\ pc' = pc /\ late = {} /\ late' = {} /\ db' = e
      /\ UNCHANGED <<ids, listed, user, told, plans, job, incident>>
  BY <1>0 DEF Rename, accounts, tasks
<1>2. /\ e \in Db /\ e.tenant = 0 /\ e.row = [m \in Mailbox |-> 0] /\ e.incidents = << >>
      /\ e.stamped = FALSE /\ e.account = db.account /\ e.nextId = db.nextId
  <2>1. << >> \in Seq(Incident) /\ NoMailboxes \in [Mailbox -> Nat]
    BY DEF NoMailboxes
  <2> QED BY <2>1, RunFacts DEF Db, NoMailboxes
<1> HIDE DEF e
<1>3. Harmless(db, told, late)'
  <2>1. Harmless(e, told, late)
    BY <1>2, ForgottenIsHarmless
  <2> QED BY <1>1, <2>1
<1>4. ScriptIsCareful'
  BY <1>1, <1>2 DEF RunInv, ScriptIsCareful, Seeding
<1>5. WorkInv'
  BY <1>1, <1>2, ForgottenWorks
<1> QED BY <1>3, <1>4, <1>5 DEF RunInv

\* An attempt after which no task has moved.
LEMMA AttemptLeads ==
    ASSUME RunInv, WorkInv, NEW q, Allowed(q), Sent(q), NEW a, Exchange(q, a),
           UNCHANGED <<plans, job, incident>>,
           \/ pc' = "ended"
           \/ /\ pc \in Early /\ pc' \in Early \cup {"incidents"}
              /\ pc' \in Working => pc \in Working /\ ids'[Admin] = ids[Admin]
    PROVE  WorkInv'
<1>1. /\ LateIsKnown' /\ History' /\ db'.stamped = db.stamped
      /\ db.tenant # 0 => db'.tenant = db.tenant
      /\ pc \in Working \/ db.stamped =>
            \A h \in late' : h.op \in {"claim", "close"} /\ h.by = db'.tenant =>
               Settled(db'.incidents, h)
               \/ (pc = "incidents" /\ \E t \in Task : job[t] = h.op /\ incident[t] = h.n)
      /\ pc \in Working =>
            \A h \in late' : h.op = "assign" /\ h.by = db'.tenant =>
               \E t \in Task : incident[t] = h.n /\ job[t] # "file"
      /\ DOMAIN db.incidents \subseteq DOMAIN db'.incidents
  BY AttemptWorks
<1>2. LateIsApplied'
  <2> SUFFICES ASSUME pc' \in Working \/ db'.stamped, NEW h \in late',
                      h.op \in {"claim", "close"}, h.by = db'.tenant
               PROVE  Settled(db'.incidents, h)
    BY DEF LateIsApplied, Applied
  <2>1. CASE pc' = "ended"
    <3>1. db.stamped /\ pc # "incidents"
      BY <1>1, <2>1 DEF WorkInv, WorkingFacts, Working, Seeding
    <3> QED BY <1>1, <3>1
  <2>2. CASE pc' # "ended"
    <3>1. (pc \in Working \/ db.stamped) /\ pc # "incidents"
      BY <1>1, <2>2 DEF Early
    <3> QED BY <1>1, <3>1
  <2> QED BY <2>1, <2>2
<1>3. WorkingFacts'
  BY <1>1 DEF WorkInv, WorkingFacts, Working, Seeding
<1>4. TasksKnow'
  BY <1>1 DEF WorkInv, TasksKnow, Early
<1>5. LateIsAimed'
  BY <1>1 DEF LateIsAimed, Working, Seeding
<1> QED BY <1>1, <1>2, <1>3, <1>4, <1>5 DEF WorkInv
-----------------------------------------------------------------------------
LEMMA PurgeAccountWorks ==
    ASSUME RunInv, WorkInv, NEW id \in listed, PurgeAccount(id)
    PROVE  WorkInv'
<1>0. PICK q : q = Request("delete", 0, Admin, id, NoReviewer)
  OBVIOUS
<1>1. /\ pc = "accounts" /\ UNCHANGED <<plans, ids, job, incident>>
      /\ pc' \in {"accounts", "ended"}
      /\ \E a : Exchange(q, a)
  BY <1>0 DEF PurgeAccount, Advance, Goto, Exit, between, tasks
<1>2. Allowed(q) /\ q.op = "delete"
  BY <1>0, <1>1, PurgeRequest
<1>3. Sent(q)
  BY <1>2 DEF Sent, IncidentOps
<1> QED BY <1>1, <1>2, <1>3, AttemptLeads DEF Early, Working, Seeding

LEMMA RegisterWorks ==
    ASSUME RunInv, WorkInv, Register
    PROVE  WorkInv'
<1>0. PICK q : q = Request("register", 0, Admin, 0, NoReviewer)
  OBVIOUS
<1>1. Allowed(q) /\ q.op = "register"
  BY <1>0, RequestType, PlanAssumption DEF Mailbox
<1>2. PICK a \in {Lost, Reply(q)} :
        /\ Exchange(q, a) /\ Advance(a, a.code = 201, "password")
        /\ ids' = [ids EXCEPT ![Admin] = a.n]
  BY <1>0 DEF Register
<1>3. pc = "register" /\ UNCHANGED <<plans, job, incident>>
  BY DEF Register, between, tasks
<1>4. Sent(q)
  BY <1>1 DEF Sent, IncidentOps
<1>5. pc' \in {"register", "password", "ended"} /\ (pc' = "password" => a.code = 201)
  BY <1>2, <1>3 DEF Advance, Goto, Exit
<1>6. CASE pc' # "password"
  BY <1>1, <1>2, <1>3, <1>4, <1>5, <1>6, AttemptLeads DEF Early, Working, Seeding
<1>7. CASE pc' = "password"
  <2>1. a.code = 201 /\ a # Lost
    BY <1>5, <1>7 DEF Lost
  <2>2. /\ a = Reply(q) /\ db' = Serve(db, q).db /\ late' = late
    BY <1>2, <2>1 DEF Exchange
  <2>3. Serve(db, q) = RegisterOrganization(db) /\ RegisterOrganization(db).code = 201
    BY <1>1, <2>1, <2>2 DEF Reply, Serve
  <2>4. /\ db.nextId \in Nat \ {0} /\ db \in Db /\ db.tenant \in Nat
    BY RunFacts
  <2>5. ~(db.tenant # 0 \/ db.folded \/ db.account[Admin] # 0)
    BY <2>3 DEF RegisterOrganization, Result
  <2>6. /\ a.n = db.nextId /\ db'.tenant = db.nextId /\ db'.incidents = db.incidents
        /\ db'.stamped = db.stamped
    <3> DEFINE e == [db EXCEPT !.tenant = db.nextId, !.account[Admin] = db.nextId,
                              !.row[Admin] = db.nextId, !.nextId = @ + 1]
    <3>1. RegisterOrganization(db) = Result(e, 201, db.nextId)
      BY <2>5 DEF RegisterOrganization
    <3>2. db' = e /\ a.n = db.nextId
      BY <2>2, <2>3, <3>1 DEF Result, Reply
    <3>3. e.tenant = db.nextId /\ e.incidents = db.incidents /\ e.stamped = db.stamped
      BY <2>4 DEF Db
    <3> HIDE DEF e
    <3> QED BY <3>2, <3>3
  <2>7. ~db.stamped
    BY <2>5 DEF WorkInv, History
  <2>8. \A h \in late : h.by # db'.tenant
    BY <2>4, <2>6, RunFacts
  <2>9. ids'[Admin] = db'.tenant /\ db'.tenant # 0
    BY <1>2, <2>4, <2>6 DEF RunInv, ScriptIsCareful, Mailbox
  <2>10. LateIsKnown' /\ LateIsApplied' /\ LateIsAimed'
    BY <2>2, <2>8 DEF WorkInv, LateIsKnown, LateIsApplied, LateIsAimed
  <2>11. WorkingFacts' /\ History' /\ TasksKnow'
    BY <1>3, <1>7, <2>6, <2>7, <2>9
       DEF WorkInv, WorkingFacts, History, TasksKnow, Working, Seeding
  <2> QED BY <2>10, <2>11 DEF WorkInv
<1> QED BY <1>6, <1>7

\* The requests that follow, up to the first task.
LEMMA ProvisioningWorks ==
    ASSUME RunInv, WorkInv, GiveAdminPassword \/ CreateAccount \/ Provision \/ AddCategory
    PROVE  WorkInv'
<1>0. /\ Admin \in Mailbox /\ ids[Admin] \in Nat /\ NoReviewer \in Reviewer \cup {NoReviewer}
      /\ 0 \in Nat
  BY DEF Mailbox, RunInv, ScriptIsCareful
<1>1. CASE GiveAdminPassword
  <2>0. PICK q : q = Request("password", 0, Admin, ids[Admin], NoReviewer)
    OBVIOUS
  <2>1. Allowed(q) /\ q.op = "password"
    BY <1>0, <2>0, RequestType
  <2>2. /\ pc = "password" /\ UNCHANGED <<ids, plans, job, incident>>
        /\ pc' \in {"password", "category", "create", "ended"}
        /\ \E a : Exchange(q, a)
    BY <1>1, <2>0 DEF GiveAdminPassword, Advance, Goto, Exit, between, accounts, tasks
  <2>3. Sent(q)
    BY <2>1 DEF Sent, IncidentOps
  <2> QED BY <2>1, <2>2, <2>3, AttemptLeads DEF Early, Working, Seeding
<1>2. CASE CreateAccount
  <2>0. pc = "create" /\ Users[user] \in Mailbox /\ Users[user] # Admin
    BY <1>2, UserFacts DEF CreateAccount
  <2>5. PICK m : m = Users[user]
    OBVIOUS
  <2>6. PICK q : q = Request("create", 0, m, 0, NoReviewer)
    OBVIOUS
  <2>1. Allowed(q) /\ q.op = "create"
    BY <1>0, <2>0, <2>5, <2>6, RequestType
  <2>2. /\ UNCHANGED <<plans, job, incident>>
        /\ pc' \in {"create", "invite", "ended"}
        /\ \E a : Exchange(q, a) /\ ids' = [ids EXCEPT ![m] = a.n]
    BY <1>2, <2>0, <2>5, <2>6 DEF CreateAccount, Advance, Goto, Exit, between, tasks
  <2>3. Sent(q)
    BY <2>1 DEF Sent, IncidentOps
  <2>4. ids'[Admin] = ids[Admin]
    BY <2>0, <2>2, <2>5 DEF RunInv, ScriptIsCareful, Mailbox
  <2> QED BY <2>0, <2>1, <2>2, <2>3, <2>4, AttemptLeads DEF Early, Working, Seeding
<1>3. CASE Provision
  <2>0. PICK q : q = Request("invite", ids[Admin], Users[user], 0, NoReviewer)
    OBVIOUS
  <2>1. pc = "invite" /\ Allowed(q) /\ q.op = "invite"
    BY <1>3, <2>0, InviteRequest DEF Provision
  <2>2. /\ UNCHANGED <<ids, plans, job, incident>>
        /\ pc' \in {"create", "invite", "category", "ended"}
        /\ \E a : Exchange(q, a)
    BY <1>3, <2>0, <2>1 DEF Provision, Advance, Goto, Exit, between, tasks
  <2>3. Sent(q)
    BY <2>1 DEF Sent, IncidentOps
  <2> QED BY <2>1, <2>2, <2>3, AttemptLeads DEF Early, Working, Seeding
<1>4. CASE AddCategory
  <2>0. PICK q : q = Request("category", ids[Admin], Admin, 0, NoReviewer)
    OBVIOUS
  <2>1. Allowed(q) /\ q.op = "category"
    BY <1>0, <2>0, RequestType
  <2>2. /\ pc = "category" /\ UNCHANGED <<ids, plans, job, incident>>
        /\ pc' \in {"category", "incidents", "ended"}
        /\ \E a : Exchange(q, a)
    BY <1>4, <2>0 DEF AddCategory, Advance, Goto, Exit, between, accounts, tasks
  <2>3. Sent(q)
    BY <2>1 DEF Sent, IncidentOps
  <2> QED BY <2>1, <2>2, <2>3, AttemptLeads DEF Early, Working, Seeding
<1> QED BY <1>1, <1>2, <1>3, <1>4

LEMMA AddCategoryCareful ==
    ASSUME RunInv, AddCategory
    PROVE  RunInv'
<1>0. PICK q : q = Request("category", ids[Admin], Admin, 0, NoReviewer)
  OBVIOUS
<1>1. Allowed(q) /\ q.op = "category"
  BY <1>0, RequestType DEF Mailbox
<1>2. /\ pc = "category" /\ UNCHANGED <<ids, listed, user, told>>
      /\ pc' \in {"category", "incidents", "ended"}
      /\ \E a : Exchange(q, a)
  BY <1>0 DEF AddCategory, Advance, Goto, Exit, accounts
<1>3. /\ Harmless(db', told, late')
      /\ db'.nextId \in Nat /\ db.nextId <= db'.nextId
  BY <1>1, <1>2, AttemptCareful
<1>4. ScriptIsCareful'
  BY <1>2, <1>3, CarefulElsewhere DEF Phases, Seeding
<1> QED BY <1>2, <1>3, <1>4 DEF RunInv

\* What a task may send.
LEMMA JobRequestFacts ==
    ASSUME RunInv, WorkInv, pc = "incidents", NEW t \in Task, job[t] # "done"
    PROVE  LET q == JobRequest(t)
           IN  /\ Allowed(q) /\ Sent(q)
               /\ q.op = job[t] /\ q.n = incident[t] /\ q.by = db.tenant
               /\ q.op \in IncidentOps
               /\ q.op # "file" => q.n \in DOMAIN db.incidents
<1> DEFINE p == plans[t]
           who == CASE job[t] = "file"   -> NoReviewer
                    [] job[t] = "claim"  -> p.reviewer
                    [] job[t] = "assign" -> p.reassignee
                    [] job[t] = "close"  -> p.closer
           q == Request(job[t], ids[Admin], Admin, incident[t], who)
<1>1. /\ job[t] \in {"file", "claim", "assign", "close"} /\ incident[t] \in Nat
      /\ p \in Plan
      /\ job[t] # "file" => incident[t] \in DOMAIN db.incidents
  BY RunAssumption DEF WorkInv, TasksKnow, Jobs, Truthful
<1>2. ids[Admin] = db.tenant /\ ids[Admin] # 0
  BY DEF WorkInv, WorkingFacts, Working, Seeding
<1>3. ids[Admin] \in Nat /\ ids[Admin] < db.nextId /\ Admin \in Mailbox
  BY DEF RunInv, ScriptIsCareful, Mailbox
<1>4. who \in Reviewer \cup {NoReviewer}
  BY <1>1 DEF Plan
<1>5. JobRequest(t) = q
  BY DEF JobRequest
<1> HIDE DEF who
<1>6. Allowed(q)
  BY <1>1, <1>3, <1>4, RequestType
<1>7. q.op = job[t] /\ q.n = incident[t] /\ q.by = ids[Admin]
  BY DEF Request
<1> HIDE DEF q
<1>8. Sent(q)
  BY <1>1, <1>2, <1>7 DEF Sent
<1> QED BY <1>1, <1>2, <1>5, <1>6, <1>7, <1>8 DEF IncidentOps

LEMMA FollowingJobType ==
    ASSUME NEW p, NEW step \in Jobs \ {"done"}
    PROVE  FollowingJob(p, step) \in {"claim", "assign", "close", "done"}
<1> DEFINE wanted == <<p.reviewer # NoReviewer, p.reassignee # NoReviewer, p.closer # NoReviewer>>
           names == <<"claim", "assign", "close", "done">>
           from == CASE step = "file" -> 1 [] step = "claim" -> 2
                     [] step = "assign" -> 3 [] OTHER -> 4
           Good(k) == (k = 4 \/ wanted[k]) /\ \A j \in from..(k - 1) : ~wanted[j]
<1>1. from \in 1..4
  BY DEF Jobs
<1>2. \E k \in from..4 : Good(k)
  <2> HIDE DEF wanted
  <2>1. CASE from = 4
    BY <2>1
  <2>2. CASE from = 3
    <3>1. CASE wanted[3]
      BY <2>2, <3>1
    <3>2. CASE ~wanted[3]
      <4>1. \A j \in 3..(4 - 1) : j = 3
        OBVIOUS
      <4> QED BY <2>2, <3>2, <4>1
    <3> QED BY <3>1, <3>2
  <2>3. CASE from = 2
    <3>1. /\ \A j \in 2..(2 - 1) : FALSE
          /\ \A j \in 2..(3 - 1) : j = 2
          /\ \A j \in 2..(4 - 1) : j \in {2, 3}
          /\ {2, 3, 4} \subseteq 2..4
      OBVIOUS
    <3> QED BY <2>3, <3>1
  <2>4. CASE from = 1
    <3>1. /\ \A j \in 1..(1 - 1) : FALSE
          /\ \A j \in 1..(2 - 1) : j = 1
          /\ \A j \in 1..(3 - 1) : j \in {1, 2}
          /\ \A j \in 1..(4 - 1) : j \in {1, 2, 3}
          /\ {1, 2, 3, 4} \subseteq 1..4
      OBVIOUS
    <3> QED BY <2>4, <3>1
  <2> QED BY <1>1, <2>1, <2>2, <2>3, <2>4
<1> DEFINE k == CHOOSE j \in from..4 : Good(j)
<1>3. k \in from..4
  <2> HIDE DEF Good, from
  <2> QED BY <1>2
<1>4. FollowingJob(p, step) = names[k]
  BY DEF FollowingJob
<1>5. k \in 1..4
  <2> HIDE DEF k, from
  <2> QED BY <1>1, <1>3
<1> HIDE DEF k
<1> QED BY <1>4, <1>5

LEMMA RunTaskHolds ==
    ASSUME RunInv, WorkInv, NEW t \in Task, RunTask(t)
    PROVE  RunInv' /\ WorkInv'
<1> DEFINE q == JobRequest(t)
<1>1. /\ pc = "incidents" /\ job[t] # "done" /\ UNCHANGED <<ids, listed, doomed, user, told, plans>>
      /\ pc' \in {"incidents", "ended"}
  BY DEF RunTask, Exit, between, accounts
<1>2. /\ Allowed(q) /\ Sent(q) /\ q.op = job[t] /\ q.n = incident[t] /\ q.by = db.tenant
      /\ q.op \in IncidentOps
      /\ q.op # "file" => q.n \in DOMAIN db.incidents
  BY <1>1, JobRequestFacts
<1>3. PICK a \in {Lost, Reply(q)} :
        LET ok == a.code = (IF job[t] = "file" THEN 201 ELSE 200)
        IN  /\ Exchange(q, a)
            /\ IF ok \/ (a = Lost /\ jobTries[t] < Attempts)
               THEN UNCHANGED <<pc, tries, exit>> ELSE Exit("failed")
            /\ jobTries' = [jobTries EXCEPT ![t] = IF ok THEN 1 ELSE @ + 1]
            /\ job' = [job EXCEPT ![t] = IF ok THEN FollowingJob(plans[t], @) ELSE @]
            /\ incident' = [incident EXCEPT ![t] = IF ok THEN a.n ELSE @]
            /\ known' = [known EXCEPT ![t] = IF ok THEN Timeline(db'.incidents[a.n]) ELSE @]
  BY Zenon DEF RunTask
<1> DEFINE ok == a.code = (IF job[t] = "file" THEN 201 ELSE 200)
<1> HIDE DEF q
<1>9. Exchange(q, a)
  BY <1>3
<1>10. ok => pc' = pc
  BY <1>3
<1>11. /\ job' = [job EXCEPT ![t] = IF ok THEN FollowingJob(plans[t], @) ELSE @]
       /\ incident' = [incident EXCEPT ![t] = IF ok THEN a.n ELSE @]
  BY <1>3
<1>4. /\ Harmless(db', told, late')
      /\ db'.nextId \in Nat /\ db.nextId <= db'.nextId
  <2>1. q.op # "invite" /\ q.op # "delete"
    BY <1>2 DEF IncidentOps
  <2> QED BY <1>2, <1>9, <2>1, AttemptCareful
<1>5. RunInv'
  <2>1. ScriptIsCareful'
    BY <1>1, <1>4, CarefulElsewhere DEF Phases, Seeding
  <2> QED BY <1>1, <1>4, <2>1 DEF RunInv
<1> SUFFICES WorkInv'
  BY <1>5
<1>6. job \in [Task -> Jobs] /\ incident \in [Task -> Nat]
  BY DEF WorkInv, TasksKnow
<1>7. CASE ~ok
  <2>1. UNCHANGED <<job, incident>>
    BY <1>6, <1>7, <1>11
  <2>2. CASE pc' = pc
    <3>1. LateIsKnown' /\ History' /\ LateIsApplied' /\ LateIsAimed' /\ WorkingFacts'
         /\ TasksKnow'
      BY <1>1, <1>2, <1>9, <2>1, <2>2, AttemptWorks
    <3> QED BY <3>1 DEF WorkInv
  <2>3. CASE pc' = "ended"
    BY <1>1, <1>2, <1>9, <2>1, <2>3, AttemptLeads
  <2> QED BY <1>1, <2>2, <2>3
<1>8. CASE ok
  <2>1. a = Reply(q) /\ a # Lost /\ db' = Serve(db, q).db /\ late' = late
    BY <1>8, <1>9 DEF Exchange, Lost
  <2>2. /\ a.n = Serve(db, q).n /\ a.code = Serve(db, q).code
    BY <2>1 DEF Reply
  <2>3. db \in Db /\ q \in Requests
    BY <1>2, RunFacts DEF Allowed, Fits
  <2>4. /\ q.op \in {"claim", "close"} => Settled(db'.incidents, q)
        /\ q.op \in {"claim", "close", "assign"} => a.n = q.n
        /\ q.op = "file" => a.n \in Nat /\ a.n \in DOMAIN db'.incidents
    BY <1>2, <1>8, <2>1, <2>2, <2>3, ServeOutcome DEF IncidentOps
  <2>5. /\ LateIsKnown' /\ History' /\ db'.stamped = db.stamped
        /\ db.tenant # 0 => db'.tenant = db.tenant
        /\ \A h \in late' : h.op \in {"claim", "close"} /\ h.by = db'.tenant =>
              Settled(db'.incidents, h) \/ \E w \in Task : job[w] = h.op /\ incident[w] = h.n
        /\ \A h \in late' : h.op = "assign" /\ h.by = db'.tenant =>
              \E w \in Task : incident[w] = h.n /\ job[w] # "file"
        /\ DOMAIN db.incidents \subseteq DOMAIN db'.incidents
    BY <1>1, <1>2, <1>9, AttemptWorks DEF Working, Seeding
  <2>6. pc' = "incidents"
    BY <1>1, <1>8, <1>10
  <2>7. /\ job' = [job EXCEPT ![t] = FollowingJob(plans[t], job[t])]
        /\ incident' = [incident EXCEPT ![t] = a.n]
    BY <1>8, <1>11
  <2>8. a.n \in Nat /\ a.n \in DOMAIN db'.incidents
    BY <1>2, <1>6, <2>4, <2>5 DEF IncidentOps
  <2>9. LateIsApplied'
    <3> SUFFICES ASSUME NEW h \in late', h.op \in {"claim", "close"}, h.by = db'.tenant
                 PROVE  \/ Settled(db'.incidents, h)
                        \/ \E w \in Task : job'[w] = h.op /\ incident'[w] = h.n
      BY <2>6 DEF LateIsApplied, Applied
    <3>1. CASE Settled(db'.incidents, h)
      BY <3>1
    <3>2. ASSUME NEW w \in Task, job[w] = h.op, incident[w] = h.n
          PROVE  \/ Settled(db'.incidents, h)
                 \/ \E v \in Task : job'[v] = h.op /\ incident'[v] = h.n
      <4>1. CASE w = t
        BY <1>2, <2>4, <3>2, <4>1 DEF Settled
      <4>2. CASE w # t
        BY <1>6, <2>7, <3>2, <4>2
      <4> QED BY <4>1, <4>2
    <3> QED BY <2>5, <3>1, <3>2
  <2>10. WorkingFacts'
    BY <1>1, <2>5 DEF WorkInv, WorkingFacts, Working, Seeding
  <2>11. TasksKnow'
    <3>1. FollowingJob(plans[t], job[t]) \in Jobs
      BY <1>1, <1>6, FollowingJobType DEF Jobs
    <3>2. job' \in [Task -> Jobs] /\ incident' \in [Task -> Nat]
      BY <1>6, <2>7, <2>8, <3>1
    <3>3. \A w \in Task : job'[w] # "file" => incident'[w] \in DOMAIN db'.incidents
      BY <1>1, <1>6, <2>5, <2>7, <2>8 DEF WorkInv, TasksKnow
    <3> QED BY <1>1, <2>6, <3>2, <3>3 DEF WorkInv, TasksKnow
  <2>12. LateIsAimed'
    <3> SUFFICES ASSUME NEW h \in late', h.op = "assign", h.by = db'.tenant
                 PROVE  \E w \in Task : incident'[w] = h.n /\ job'[w] # "file"
      BY DEF LateIsAimed
    <3>1. PICK w \in Task : incident[w] = h.n /\ job[w] # "file"
      BY <2>5
    <3>2. FollowingJob(plans[t], job[t]) # "file"
      BY <1>1, <1>6, FollowingJobType
    <3>3. w = t => a.n = incident[t]
      BY <1>2, <2>4, <3>1 DEF IncidentOps
    <3> QED BY <1>6, <2>7, <3>1, <3>2, <3>3
  <2>13. WorkInv'
    BY <2>5, <2>9, <2>10, <2>11, <2>12 DEF WorkInv
  <2> QED BY <2>13
<1> QED BY <1>7, <1>8
-----------------------------------------------------------------------------
SeedInv == RunInv /\ WorkInv

LEMMA InitSeed == Init => SeedInv
<1> SUFFICES ASSUME Init PROVE SeedInv
  OBVIOUS
<1>1. /\ NoMailboxes \in [Mailbox -> Nat] /\ \A m \in Mailbox : NoMailboxes[m] = 0
      /\ << >> \in Seq(Incident) /\ Now \in Clocks /\ Admin \in Mailbox
  BY PlanAssumption DEF NoMailboxes, Clocks, Mailbox
<1> DEFINE d == [tenant |-> 0, folded |-> FALSE, account |-> NoMailboxes, row |-> NoMailboxes,
                 category |-> FALSE, incidents |-> << >>, stamped |-> FALSE,
                 nextId |-> 1, clock |-> Now]
<1>2. /\ db = d /\ late = {} /\ pc = "ended" /\ ids = NoMailboxes /\ listed = {} /\ user = 1
      /\ told = 0
      /\ plans \in PlanSets /\ job = [t \in Task |-> "file"] /\ incident = [t \in Task |-> 0]
  BY DEF Init
<1>3. /\ d \in Db /\ d.tenant = 0 /\ d.account = NoMailboxes /\ d.row = NoMailboxes
      /\ d.incidents = << >> /\ ~d.stamped /\ d.nextId = 1
  BY <1>1 DEF Db
<1> HIDE DEF d
<1>4. Harmless(db, told, late)
  BY <1>1, <1>2, <1>3 DEF Sound, Harmless
<1>5. ScriptIsCareful
  BY <1>1, <1>2, <1>3 DEF ScriptIsCareful, Phases, Seeding
<1>6. LateIsKnown /\ LateIsApplied /\ LateIsAimed /\ WorkingFacts
  BY <1>2 DEF LateIsKnown, LateIsApplied, LateIsAimed, WorkingFacts, Working, Seeding
<1>7. TasksKnow /\ History
  BY <1>2, <1>3 DEF TasksKnow, History, Jobs
<1> QED BY <1>4, <1>5, <1>6, <1>7 DEF SeedInv, RunInv, WorkInv

LEMMA StepSeed == SeedInv /\ [Next]_vars => SeedInv'
<1> SUFFICES ASSUME SeedInv, [Next]_vars PROVE SeedInv'
  OBVIOUS
<1>1. RunInv /\ WorkInv
  BY DEF SeedInv
<1>2. CASE \/ Preflight \/ FindTenant \/ Purged \/ Gathered \/ AgeNotifications
           \/ ReadNotifications \/ Verify \/ GiveUp \/ Crash
  BY <1>1, <1>2, ReadingCareful, ReadingWorks DEF SeedInv
<1>3. CASE PurgeRows
  BY <1>1, <1>3, PurgeRowsCareful, PurgeRowsWorks DEF SeedInv
<1>4. ASSUME NEW id \in listed, PurgeAccount(id) PROVE SeedInv'
  BY <1>1, <1>4, PurgeAccountCareful, PurgeAccountWorks DEF SeedInv
<1>5. CASE Register
  BY <1>1, <1>5, RegisterCareful, RegisterWorks DEF SeedInv
<1>6. CASE GiveAdminPassword
  BY <1>1, <1>6, GiveAdminPasswordCareful, ProvisioningWorks DEF SeedInv
<1>7. CASE CreateAccount
  BY <1>1, <1>7, CreateAccountCareful, ProvisioningWorks DEF SeedInv
<1>8. CASE Provision
  BY <1>1, <1>8, ProvisionCareful, ProvisioningWorks DEF SeedInv
<1>9. CASE AddCategory
  BY <1>1, <1>9, AddCategoryCareful, ProvisioningWorks DEF SeedInv
<1>10. ASSUME NEW t \in Task, RunTask(t) PROVE SeedInv'
  BY <1>1, <1>10, RunTaskHolds DEF SeedInv
<1>11. CASE Backfill
  BY <1>1, <1>11, BackfillHolds DEF SeedInv
<1>12. ASSUME NEW m \in Modes, StartRun(m) PROVE SeedInv'
  BY <1>1, <1>12, StartRunCareful, StartRunWorks DEF SeedInv
<1>13. ASSUME NEW q \in late, Land(q) PROVE SeedInv'
  BY <1>1, <1>13, LandCareful, LandWorks DEF SeedInv
<1>14. CASE Rename
  BY <1>1, <1>14, RenameHolds DEF SeedInv
<1>15. CASE UNCHANGED <<db, late, pc, ids, listed, doomed, user, told, plans, job, incident>>
  <2>1. ScriptIsCareful' = ScriptIsCareful
    BY <1>15 DEF ScriptIsCareful, ListedIsClear, Deleters, Invites
  <2>2. WorkInv'
    BY <1>1, <1>15, MovesOn
  <2> QED BY <1>1, <1>15, <2>1, <2>2, HarmlessStays DEF SeedInv, RunInv
<1>16. CASE SignUp \/ Terminating \/ UNCHANGED vars
  BY <1>15, <1>16 DEF SignUp, Terminating, vars, server, between, accounts, tasks
<1> QED BY <1>2, <1>3, <1>4, <1>5, <1>6, <1>7, <1>8, <1>9, <1>10, <1>11, <1>12, <1>13, <1>14,
           <1>16 DEF Next, Script

LEMMA SpecSeed == Spec => []SeedInv
BY InitSeed, StepSeed, PTL DEF Spec

\* However often requests are sent, wherever runs die, whatever of theirs lands later and
\* in however many steps: no users row is ever without the account it names, but for the
\* administrator of an organisation that no run was told of (purge, provision_org).
THEOREM RowsCorrect == Spec => []RowsKeepAccounts
<1>1. SeedInv => RowsKeepAccounts
  BY DEF SeedInv, RunInv, Harmless, Sound, Kept, RowsKeepAccounts
<1> QED BY <1>1, SpecSeed, PTL

\* Once committed, the history that the backfill has written stays consistent, for any
\* plan, any number of users, incidents, runs and lost requests, and in whatever order of
\* their dates assignments land afterwards (backfill_timestamps).
THEOREM HistoryCorrect == Spec => []HistoryHolds
<1>1. SeedInv => HistoryHolds
  BY DEF SeedInv, WorkInv, History, AllCoherent, Coherent, HistoryHolds
<1> QED BY <1>1, SpecSeed, PTL
-----------------------------------------------------------------------------
(***************************************************************************)
(* The script's own counters.                                              *)
(***************************************************************************)
Books ==
    /\ clean \in BOOLEAN /\ exit \in Exits /\ tries \in 1..Attempts
    /\ jobTries \in [Task -> 1..(Attempts + 1)] /\ seen \in [Task -> Nat]
    /\ pc \in Early \cup {"incidents"} => \A t \in Task : jobTries[t] <= Attempts

\* A step outside of the tasks.
LEMMA BooksKept ==
    ASSUME Books, clean' \in BOOLEAN, exit' \in Exits, tries' \in 1..Attempts,
           UNCHANGED <<jobTries, seen>>,
           pc' \in Early \cup {"incidents"} => pc \in Early \cup {"incidents"}
    PROVE  Books'
BY DEF Books

LEMMA OneTry == 1 \in 1..Attempts /\ Attempts \in Nat
BY RunAssumption

LEMMA AdvanceKept ==
    ASSUME Books, NEW a, NEW ok, NEW phase, Advance(a, ok, phase)
    PROVE  exit' \in Exits /\ tries' \in 1..Attempts /\ pc' \in {pc, phase, "ended"}
<1>1. CASE a = Lost /\ tries < Attempts
  BY <1>1, OneTry DEF Advance, Books
<1>2. CASE ~(a = Lost /\ tries < Attempts)
  <2>1. Goto(phase) \/ Exit("failed")
    BY <1>2 DEF Advance
  <2> QED BY <2>1, OneTry DEF Goto, Exit, Books, Exits
<1> QED BY <1>1, <1>2

LEMMA ExchangeKept ==
    ASSUME Books, NEW q, NEW a, Exchange(q, a)
    PROVE  clean' \in BOOLEAN
BY DEF Books, Exchange

LEMMA AttemptKept ==
    ASSUME Books, NEW q, NEW a, Exchange(q, a), NEW ok, NEW phase, Advance(a, ok, phase),
           UNCHANGED <<jobTries, seen>>, pc \in Early
    PROVE  Books'
BY AdvanceKept, ExchangeKept, BooksKept

LEMMA ReadingKept ==
    ASSUME Books,
           \/ Preflight \/ FindTenant \/ PurgeRows \/ Purged \/ Gathered \/ AgeNotifications
           \/ Backfill \/ Verify \/ GiveUp \/ Crash
    PROVE  Books'
<1> USE DEF Goto, Exit, StartSeeding, server, between, accounts, tasks
<1>1. UNCHANGED <<jobTries, seen>> /\ clean' \in BOOLEAN
  BY DEF Books, Preflight, FindTenant, PurgeRows, Purged, Gathered, AgeNotifications, Backfill,
         Verify, GiveUp, Crash
<1>2. tries' = 1
  BY DEF Preflight, FindTenant, PurgeRows, Purged, Gathered, AgeNotifications, Backfill,
         Verify, GiveUp, Crash
<1>3. exit' \in Exits
  BY DEF Books, Exits, Preflight, FindTenant, PurgeRows, Purged, Gathered, AgeNotifications,
         Backfill, Verify, GiveUp, Crash
<1>4. pc' \in Early \cup {"incidents"} => pc \in Early \cup {"incidents"}
  BY DEF Early, Preflight, FindTenant, PurgeRows, Purged, Gathered, AgeNotifications,
         Backfill, Verify, GiveUp, Crash
<1> QED BY <1>1, <1>2, <1>3, <1>4, OneTry, BooksKept

LEMMA RunTaskKept ==
    ASSUME Books, NEW t \in Task, RunTask(t)
    PROVE  Books'
<1> DEFINE q == JobRequest(t)
<1>1. pc = "incidents" /\ UNCHANGED seen
  BY DEF RunTask
<1>2. PICK a \in {Lost, Reply(q)} :
        LET ok == a.code = (IF job[t] = "file" THEN 201 ELSE 200)
        IN  /\ Exchange(q, a)
            /\ IF ok \/ (a = Lost /\ jobTries[t] < Attempts)
               THEN UNCHANGED <<pc, tries, exit>> ELSE Exit("failed")
            /\ jobTries' = [jobTries EXCEPT ![t] = IF ok THEN 1 ELSE @ + 1]
            /\ job' = [job EXCEPT ![t] = IF ok THEN FollowingJob(plans[t], @) ELSE @]
            /\ incident' = [incident EXCEPT ![t] = IF ok THEN a.n ELSE @]
            /\ known' = [known EXCEPT ![t] = IF ok THEN Timeline(db'.incidents[a.n]) ELSE @]
  BY Zenon DEF RunTask
<1> DEFINE ok == a.code = (IF job[t] = "file" THEN 201 ELSE 200)
<1> HIDE DEF q
<1>3. clean' \in BOOLEAN
  BY <1>2, ExchangeKept
<1>4. IF ok \/ (a = Lost /\ jobTries[t] < Attempts)
      THEN UNCHANGED <<pc, tries, exit>> ELSE Exit("failed")
  BY <1>2
<1>5. jobTries' = [jobTries EXCEPT ![t] = IF ok THEN 1 ELSE jobTries[t] + 1]
  BY <1>2
<1> HIDE DEF ok
<1>6. /\ jobTries \in [Task -> 1..(Attempts + 1)] /\ \A w \in Task : jobTries[w] <= Attempts
      /\ Attempts \in Nat /\ 1 <= Attempts
  BY <1>1, OneTry DEF Books
<1>7. jobTries' \in [Task -> 1..(Attempts + 1)]
  <2>1. (IF ok THEN 1 ELSE jobTries[t] + 1) \in 1..(Attempts + 1)
    BY <1>6
  <2> QED BY <1>5, <1>6, <2>1
<1>8. CASE ok \/ (a = Lost /\ jobTries[t] < Attempts)
  <2>1. \A w \in Task : jobTries'[w] <= Attempts
    <3>1. (IF ok THEN 1 ELSE jobTries[t] + 1) <= Attempts
      BY <1>6, <1>8
    <3> QED BY <1>5, <1>6, <3>1
  <2>2. UNCHANGED <<pc, tries, exit>>
    BY <1>4, <1>8
  <2> QED BY <1>1, <1>3, <1>7, <2>1, <2>2 DEF Books
<1>9. CASE ~(ok \/ (a = Lost /\ jobTries[t] < Attempts))
  <2>1. pc' = "ended" /\ tries' = 1 /\ exit' \in Exits
    BY <1>4, <1>9 DEF Exit, Exits
  <2> QED BY <1>1, <1>3, <1>7, <2>1, OneTry DEF Books, Early
<1> QED BY <1>8, <1>9

LEMMA StepKept == SeedInv /\ Books /\ [Next]_vars => Books'
<1> SUFFICES ASSUME SeedInv, Books, [Next]_vars PROVE Books'
  OBVIOUS
<1>1. CASE \/ Preflight \/ FindTenant \/ PurgeRows \/ Purged \/ Gathered \/ AgeNotifications
           \/ Backfill \/ Verify \/ GiveUp \/ Crash
  BY <1>1, ReadingKept
<1>2. CASE ReadNotifications
  <2>1. \A t \in Task : Len(db.incidents[incident[t]].notes) \in Nat
    <3> SUFFICES ASSUME NEW t \in Task PROVE Len(db.incidents[incident[t]].notes) \in Nat
      OBVIOUS
    <3>1. db.incidents \in Seq(Incident) /\ incident[t] \in DOMAIN db.incidents
      BY <1>2, RunFacts DEF SeedInv, Db, WorkInv, TasksKnow, ReadNotifications
    <3>2. db.incidents[incident[t]] \in Incident
      BY <3>1, ElementOf
    <3> QED BY <3>2 DEF Incident
  <2>2. seen' \in [Task -> Nat]
    BY <1>2, <2>1 DEF ReadNotifications
  <2> QED BY <1>2, <2>2, OneTry
          DEF Books, ReadNotifications, Goto, server, tasks, Early
<1>3. ASSUME NEW id \in listed, PurgeAccount(id) PROVE Books'
  BY <1>3, AttemptKept DEF PurgeAccount, tasks, Early
<1>4. CASE Register
  BY <1>4, AttemptKept DEF Register, tasks, Early
<1>5. CASE GiveAdminPassword
  BY <1>5, AttemptKept DEF GiveAdminPassword, tasks, Early
<1>6. CASE CreateAccount
  BY <1>6, AttemptKept DEF CreateAccount, tasks, Early
<1>7. CASE Provision
  BY <1>7, AttemptKept DEF Provision, tasks, Early
<1>8. CASE AddCategory
  BY <1>8, AttemptKept DEF AddCategory, tasks, Early
<1>9. ASSUME NEW t \in Task, RunTask(t) PROVE Books'
  BY <1>9, RunTaskKept
<1>10. ASSUME NEW m \in Modes, StartRun(m) PROVE Books'
  <2>1. /\ clean' \in BOOLEAN /\ exit' \in Exits /\ tries' = 1
        /\ jobTries' = [t \in Task |-> 1] /\ seen' = [t \in Task |-> 0]
    BY <1>10 DEF StartRun, Exits
  <2> QED BY <2>1, OneTry DEF Books
<1>11. ASSUME NEW q \in late, Land(q) PROVE Books'
  BY <1>11 DEF Books, Land, tasks
<1>12. CASE SignUp \/ Rename \/ Terminating \/ UNCHANGED vars
  BY <1>12 DEF Books, SignUp, Rename, Terminating, vars, server, between, accounts, tasks
<1> QED BY <1>1, <1>2, <1>3, <1>4, <1>5, <1>6, <1>7, <1>8, <1>9, <1>10, <1>11, <1>12
        DEF Next, Script

\* Every row, account, counter and answer has its type, and no two mailboxes ever share an
\* account, whatever the requests overlapped with.
THEOREM TypeCorrect == Spec => []TypeOK
<1>1. Init => Books
  BY OneTry DEF Init, Books, Exits
<1>2. Spec => []Books
  BY <1>1, SpecSeed, StepKept, PTL DEF Spec
<1>3. SeedInv /\ Books => TypeOK
  <2> SUFFICES ASSUME SeedInv, Books PROVE TypeOK
    OBVIOUS
  <2>0. /\ Sound(db, told) /\ db \in Db /\ told \in Nat /\ db.clock \in Nat
        /\ \A m \in Mailbox : db.account[m] < db.nextId /\ db.row[m] < db.nextId
    BY RunFacts, ClockType DEF SeedInv
  <2>1. /\ db.nextId \in Nat \ {0} /\ db.tenant \in Nat
        /\ db.account \in [Mailbox -> Nat] /\ db.row \in [Mailbox -> Nat]
        /\ \A m, w \in Mailbox : m # w /\ db.account[m] # 0 => db.account[m] # db.account[w]
        /\ db.incidents \in Seq(Incident)
        /\ {db.folded, db.category, db.stamped} \subseteq BOOLEAN
    BY <2>0 DEF Sound, Db
  <2>2. /\ db.account \in [Mailbox -> 0..(db.nextId - 1)]
        /\ db.row \in [Mailbox -> 0..(db.nextId - 1)]
    BY <2>0, <2>1
  <2> QED BY <2>0, <2>1, <2>2
          DEF SeedInv, RunInv, WorkInv, ScriptIsCareful, TasksKnow, Books, TypeOK
<1> QED BY <1>2, <1>3, SpecSeed, PTL
-----------------------------------------------------------------------------
(***************************************************************************)
(* A run that purges first and meets no fault: every request finds what it *)
(* needs, whatever the runs before it left.                                *)
(***************************************************************************)

\* What one task has done of its plan.
Carried(t) ==
    LET p == plans[t]
        inc == db.incidents[incident[t]]
    IN  /\ incident[t] \in DOMAIN db.incidents
        /\ known[t] = Timeline(inc)
        /\ inc.reviewed # Never => p.review # Never
        /\ inc.closed # Never => p.closed # Never
        /\ job[t] = "claim" => inc.status = "open" /\ p.reviewer # NoReviewer
        /\ job[t] \in {"assign", "close"} => inc.status = "in_review" /\ p.reviewer # NoReviewer
        /\ job[t] = "close" => p.closer # NoReviewer
        /\ job[t] = "done" => inc.status = p.status

\* Each incident is one task's, and the other way round.
OneEach ==
    /\ \A t, w \in Task :
          job[t] # "file" /\ job[w] # "file" /\ incident[t] = incident[w] => t = w
    /\ \A k \in DOMAIN db.incidents : \E t \in Task : job[t] # "file" /\ incident[t] = k

Carrying == OneEach /\ \A t \in Task : job[t] # "file" => Carried(t)

Delivered ==
    /\ \A t, w \in Task : incident[t] = incident[w] => t = w
    /\ \A k \in DOMAIN db.incidents : \E t \in Task : incident[t] = k
    /\ \A t \in Task : /\ incident[t] \in DOMAIN db.incidents
                       /\ db.incidents[incident[t]].status = plans[t].status

\* The users that are not provisioned yet have left no trace.
Vacant(from) ==
    \A k \in DOMAIN Users : k >= from => db.account[Users[k]] = 0 /\ db.row[Users[k]] = 0

Smooth ==
    /\ pc \in {"names", "rows", "accounts"} =>
          \A m \in Mailbox : db.account[m] # 0 => db.account[m] \in listed
    /\ pc = "rows" => doomed = db.tenant
    /\ pc \in {"accounts", "register"} => db.tenant = 0
    /\ pc = "register" => \A m \in Mailbox : db.account[m] = 0
    /\ pc = "password" => db.account[Admin] = ids[Admin]
    /\ pc \in {"password", "create"} => Vacant(user)
    /\ pc = "invite" => /\ Vacant(user + 1) /\ db.row[Users[user]] = 0
                        /\ db.account[Users[user]] = ids[Users[user]]
                        /\ ids[Users[user]] # 0
    /\ pc \in {"password", "create", "invite", "category"} =>
          db.incidents = << >> /\ ~db.category
    /\ pc \in {"incidents", "age", "notes", "backfill"} => Carrying
    /\ pc \in {"age", "notes", "backfill"} => Gathering
    /\ pc = "backfill" =>
          \A t \in Task : seen[t] = Len(db.incidents[incident[t]].notes)
    /\ pc = "verify" => Delivered

CleanInv ==
    /\ clean => late = {}
    /\ db.tenant = 0 => db.incidents = << >> /\ ~db.category
    /\ \A q \in late : q.op = "category" => q.by # 0
    /\ clean /\ mode.purge => Smooth

\* A step of such a run that does not make it fail, or that may.
NoFailure == exit = "none" => exit' # "failed"

Excused ==
    clean' /\ mode.purge /\ exit = "none" /\ exit' = "failed" =>
        (pc = "preflight" /\ Crowded) \/ (pc = "register" /\ db.folded)

\* A request of such a run is answered at once.
LEMMA CleanExchange ==
    ASSUME CleanInv, NEW q, NEW a, Exchange(q, a), clean'
    PROVE  /\ clean /\ late = {} /\ late' = {}
           /\ a = Reply(q) /\ a.code = Serve(db, q).code /\ a.n = Serve(db, q).n
           /\ db' = Serve(db, q).db
<1>1. CASE a = Reply(q) /\ db' = Serve(db, q).db /\ UNCHANGED <<late, faults, clean>>
  <2>1. late' = late /\ clean' = clean
    BY <1>1
  <2>2. clean /\ late = {}
    BY <2>1 DEF CleanInv
  <2>3. a.code = Serve(db, q).code /\ a.n = Serve(db, q).n
    BY <1>1 DEF Reply
  <2> QED BY <1>1, <2>1, <2>2, <2>3
<1>2. CASE clean' = FALSE
  BY <1>2
<1>3. (a = Reply(q) /\ db' = Serve(db, q).db /\ UNCHANGED <<late, faults, clean>>) \/ clean' = FALSE
  BY DEF Exchange
<1> QED BY <1>1, <1>2, <1>3

\* A good answer leads to the next phase.
LEMMA GoodAnswer ==
    ASSUME NEW a, a.code # 0, NEW ok, ok, NEW phase, Advance(a, ok, phase)
    PROVE  pc' = phase /\ UNCHANGED exit
BY DEF Advance, Goto, Lost

\* Without a tenant there is nothing of it, whatever the requests.
LEMMA EmptyKept ==
    ASSUME RunInv, CleanInv, NEW q \in Requests,
           q.op \in IncidentOps \cup {"category"} => q.by # 0,
           NEW e, e \in {db, Serve(db, q).db}, e.tenant = 0
    PROVE  e.incidents = << >> /\ ~e.category
<1>1. db \in Db
  BY RunFacts
<1>2. CASE e = db
  BY <1>2 DEF CleanInv
<1>3. CASE e = Serve(db, q).db
  <2>1. Effect(db, e, q)
    BY <1>1, <1>3, ServeEffect
  <2>2. db.tenant = 0
    BY <1>1, <2>1 DEF Effect, Db
  <2>3. q.op \in {"register", "password", "create", "delete", "invite", "category", "file",
                  "claim", "close", "assign"}
    BY DEF Requests
  <2>4. e.incidents = db.incidents /\ e.category = db.category
    <3>1. CASE q.op = "register"
      <4>1. e = db \/ e.tenant = db.nextId
        BY <1>1, <1>3, <3>1 DEF Serve, RegisterOrganization, Result, Db
      <4>2. db.nextId # 0
        BY <1>1 DEF Db
      <4> QED BY <4>1, <4>2
    <3>2. CASE q.op = "create"
      BY <1>1, <1>3, <3>2 DEF Serve, CreateUser, Result, Db
    <3>3. CASE q.op = "delete"
      BY <1>1, <1>3, <3>3 DEF Serve, DeleteUser, Result, Db
    <3>4. CASE q.op = "password"
      BY <1>3, <3>4 DEF Serve, SetPassword, Result
    <3>5. CASE q.op = "invite"
      BY <1>1, <1>3, <3>5 DEF Serve, InviteUser, Result, Db
    <3>6. CASE q.op \in IncidentOps \cup {"category"}
      BY <1>3, <2>2, <3>6 DEF Serve, Result, IncidentOps
    <3> QED BY <2>3, <3>1, <3>2, <3>3, <3>4, <3>5, <3>6 DEF IncidentOps
  <2> QED BY <2>2, <2>4 DEF CleanInv
<1> QED BY <1>2, <1>3

\* What an attempt leaves of this, faults included.
LEMMA AttemptClean ==
    ASSUME RunInv, CleanInv, NEW q \in Requests,
           q.op \in IncidentOps \cup {"category"} => q.by # 0, NEW a, Exchange(q, a)
    PROVE  /\ clean' => late' = {}
           /\ db'.tenant = 0 => db'.incidents = << >> /\ ~db'.category
           /\ \A h \in late' : h.op = "category" => h.by # 0
<1>1. clean' => late' = {}
  BY CleanExchange
<1>2. db' \in {db, Serve(db, q).db} /\ late' \subseteq late \cup {q}
  BY DEF Exchange
<1>3. db'.tenant = 0 => db'.incidents = << >> /\ ~db'.category
  BY <1>2, EmptyKept
<1>4. \A h \in late' : h.op = "category" => h.by # 0
  BY <1>2 DEF CleanInv
<1> QED BY <1>1, <1>3, <1>4

LEMMA LandClean ==
    ASSUME RunInv, WorkInv, CleanInv, NEW q \in late, Land(q)
    PROVE  CleanInv' /\ Excused
<1>1. /\ q \in Requests /\ (q.op \in IncidentOps \cup {"category"} => q.by # 0)
      /\ db \in Db /\ Fits(db, told, q) /\ Harmless(db, told, late)
  BY RunFacts DEF RunInv, WorkInv, LateIsKnown, CleanInv
<1>2. clean' = FALSE
  BY DEF Land
<1> SUFFICES /\ db'.tenant = 0 => db'.incidents = << >> /\ ~db'.category
             /\ \A h \in late' : h.op = "category" => h.by # 0
  BY <1>2 DEF CleanInv, Excused
<1>3. CASE Dropped(q)
  BY <1>3 DEF Dropped, CleanInv
<1>4. CASE Served(q)
  BY <1>1, <1>4, EmptyKept DEF Served, CleanInv
<1>5. ASSUME db'.tenant = db.tenant, db'.incidents = db.incidents, db'.category = db.category,
             NEW h, late' = (late \ {q}) \cup {h}, h.op # "category"
      PROVE  /\ db'.tenant = 0 => db'.incidents = << >> /\ ~db'.category
             /\ \A w \in late' : w.op = "category" => w.by # 0
  BY <1>5 DEF CleanInv
<1>6. CASE Begun(q)
  <2>1. PICK h : late' = (late \ {q}) \cup {h} /\ h.op = q.op
    BY <1>1, <1>6, BegunIsHarmless
  <2>2. q.op # "category"
    BY <1>6 DEF Begun
  <2>3. PICK next : next = db.clock + 1
    OBVIOUS
  <2>4. db' = db \/ db' = [db EXCEPT !.clock = next]
    BY <1>6, <2>3 DEF Begun
  <2>5. db'.tenant = db.tenant /\ db'.incidents = db.incidents /\ db'.category = db.category
    BY <1>1, <2>4 DEF Db
  <2> QED BY <1>5, <2>1, <2>2, <2>5
<1>7. CASE Made(q)
  <2>1. PICK h : late' = (late \ {q}) \cup {h} /\ h.op = q.op
    BY <1>1, <1>7, MadeIsHarmless
  <2>2. q.op # "category"
    BY <1>7 DEF Made
  <2>3. db'.tenant = db.tenant /\ db'.incidents = db.incidents /\ db'.category = db.category
    BY <1>1, <1>7 DEF Made, CreateUser, Result, Db
  <2> QED BY <1>5, <2>1, <2>2, <2>3
<1>8. CASE Committed(q)
  <2>1. late' \subseteq late
    BY <1>8 DEF Committed
  <2>2. CASE q.op = "register"
    <3>1. q.n # 0 /\ db' = [db EXCEPT !.tenant = q.n, !.row[Admin] = q.n]
      BY <1>1, <1>8, <2>2 DEF Committed, Fits, Deleter
    <3>2. db'.tenant # 0
      BY <1>1, <3>1 DEF Db
    <3> QED BY <2>1, <3>2 DEF CleanInv
  <2>3. CASE q.op = "invite"
    <3>1. db' = [db EXCEPT !.row[q.mail] = q.n]
      BY <1>8, <2>3 DEF Committed
    <3>2. db'.tenant = db.tenant /\ db'.incidents = db.incidents /\ db'.category = db.category
      BY <1>1, <3>1 DEF Db
    <3> QED BY <2>1, <3>2 DEF CleanInv
  <2>4. CASE q.op = "assign"
    <3>1. db.tenant = q.by /\ db' = Assigned(db, q.n, q.who, q.at)
      BY <1>8, <2>4 DEF Committed
    <3>2. db'.tenant = db.tenant
      BY <1>1, <3>1 DEF Assigned, Db
    <3>3. q.by # 0
      BY <1>1, <2>4 DEF IncidentOps
    <3> QED BY <2>1, <3>1, <3>2, <3>3 DEF CleanInv
  <2> QED BY <1>8, <2>2, <2>3, <2>4 DEF Committed
<1>9. CASE Compensated(q)
  <2>1. PICK h : db' = db /\ late' = (late \ {q}) \cup {h} /\ h.op = "delete"
    BY <1>1, <1>9, CompensatedIsHarmless DEF Compensated
  <2> QED BY <1>5, <2>1
<1> QED BY <1>3, <1>4, <1>6, <1>7, <1>8, <1>9 DEF Land
-----------------------------------------------------------------------------
LEMMA CleanPlans ==
    ASSUME WorkInv, NEW t \in Task
    PROVE  Truthful(plans[t]) /\ plans[t] \in Plan
BY RunAssumption DEF WorkInv, TasksKnow

\* The steps that read, and the ends of a run.
LEMMA ReadingClean ==
    ASSUME RunInv, WorkInv, CleanInv,
           \/ Preflight \/ FindTenant \/ Purged \/ Gathered \/ AgeNotifications
           \/ ReadNotifications \/ GiveUp \/ Crash
    PROVE  CleanInv' /\ Excused
<1> USE DEF Goto, Exit, StartSeeding, server, between, accounts, tasks
<1>1. UNCHANGED <<db, late, mode, plans, ids, user, tasks>>
  BY DEF Preflight, FindTenant, Purged, Gathered, AgeNotifications, ReadNotifications,
         GiveUp, Crash
<1>2. /\ clean' => clean /\ late' = {}
      /\ db'.tenant = 0 => db'.incidents = << >> /\ ~db'.category
      /\ \A q \in late' : q.op = "category" => q.by # 0
  <2>1. clean' => clean
    BY DEF Preflight, FindTenant, Purged, Gathered, AgeNotifications, ReadNotifications,
           GiveUp, Crash
  <2> QED BY <1>1, <2>1 DEF CleanInv
<1> SUFFICES ASSUME clean', mode.purge
             PROVE  (NoFailure \/ (Preflight /\ Crowded)) /\ Smooth'
  BY <1>1, <1>2 DEF CleanInv, Excused, NoFailure, Preflight
<1>3. Smooth
  BY <1>2 DEF CleanInv
<1>4. CASE Preflight
  <2>1. /\ NoFailure \/ Crowded
        /\ pc' \in {"names", "ended"} /\ listed' = Accounts(db)
    BY <1>4 DEF Preflight, NoFailure
  <2> QED BY <1>1, <1>4, <2>1 DEF Smooth, Accounts
<1>5. CASE FindTenant
  <2>1. /\ NoFailure /\ pc' \in {"rows", "ended"} /\ pc = "names"
        /\ doomed' = db.tenant /\ UNCHANGED listed
    BY <1>3, <1>5 DEF FindTenant, NoFailure
  <2> QED BY <1>1, <1>3, <2>1 DEF Smooth
<1>6. CASE Purged
  <2>1. /\ NoFailure /\ pc' \in {"register", "ended"} /\ pc = "accounts"
        /\ listed = {}
    BY <1>3, <1>6 DEF Purged, NoFailure
  <2> QED BY <1>1, <1>3, <2>1 DEF Smooth
<1>7. CASE Gathered
  <2>1. NoFailure /\ pc' = "age" /\ pc = "incidents" /\ Gathering
    BY <1>3, <1>7 DEF Gathered, Gathering, NoFailure
  <2> QED BY <1>1, <1>3, <2>1 DEF Smooth, Carrying, OneEach, Carried, Gathering
<1>8. CASE AgeNotifications
  <2>1. NoFailure /\ pc' \in {"notes", "verify"} /\ pc = "age"
    BY <1>3, <1>8 DEF AgeNotifications, NoFailure
  <2>2. Carrying /\ Gathering
    BY <1>3, <2>1 DEF Smooth
  <2>3. Delivered
    BY <2>2 DEF Carrying, OneEach, Carried, Gathering, Delivered
  <2> QED BY <1>1, <2>1, <2>2, <2>3
          DEF Smooth, Carrying, OneEach, Carried, Gathering, Delivered
<1>9. CASE ReadNotifications
  <2>1. /\ NoFailure /\ pc' = "backfill" /\ pc = "notes"
        /\ \A t \in Task : seen'[t] = Len(db.incidents[incident[t]].notes)
    BY <1>3, <1>9 DEF ReadNotifications, NoFailure
  <2> QED BY <1>1, <1>3, <2>1 DEF Smooth, Carrying, OneEach, Carried, Gathering
<1>10. CASE GiveUp \/ Crash
  BY <1>10 DEF GiveUp, Crash
<1> QED BY <1>4, <1>5, <1>6, <1>7, <1>8, <1>9, <1>10

\* The purge leaves the run an organisation that never was.
LEMMA PurgeRowsClean ==
    ASSUME RunInv, WorkInv, CleanInv, PurgeRows
    PROVE  CleanInv' /\ Excused
<1>1. /\ pc = "rows" /\ pc' = "accounts" /\ UNCHANGED <<exit, late, clean, mode, listed>>
  BY DEF PurgeRows, Goto, between, accounts
<1> DEFINE e == [db EXCEPT !.tenant = 0, !.row = NoMailboxes, !.category = FALSE,
                           !.incidents = << >>, !.stamped = FALSE]
<1>2. /\ e.tenant = 0 /\ e.category = FALSE /\ e.incidents = << >>
      /\ e.account = db.account
  BY RunFacts DEF Db
<1>3. IF doomed # 0 /\ db.tenant = doomed THEN db' = e ELSE db' = db
  BY DEF PurgeRows
<1> HIDE DEF e
<1>4. db'.account = db.account /\ (db'.tenant = 0 => db'.incidents = << >> /\ ~db'.category)
  BY <1>2, <1>3 DEF CleanInv
<1>5. doomed = db.tenant => db'.tenant = 0
  BY <1>2, <1>3
<1> QED BY <1>1, <1>4, <1>5 DEF CleanInv, Smooth, Excused

LEMMA PurgeAccountClean ==
    ASSUME RunInv, WorkInv, CleanInv, NEW id \in listed, PurgeAccount(id)
    PROVE  CleanInv' /\ Excused
<1> DEFINE q == Request("delete", 0, Admin, id, NoReviewer)
<1>1. PICK a \in {Lost, Reply(q)} :
        /\ Exchange(q, a) /\ Advance(a, a.code \in {200, 404}, "accounts")
        /\ listed' = IF a = Lost THEN listed ELSE listed \ {id}
  BY DEF PurgeAccount
<1>2. pc = "accounts" /\ UNCHANGED mode
  BY DEF PurgeAccount, between
<1>3. q \in Requests /\ q.op = "delete" /\ q.n = id
  BY <1>2 DEF Requests, Request, Never, Mailbox, RunInv, ScriptIsCareful
<1> HIDE DEF q
<1>4. /\ clean' => late' = {}
      /\ db'.tenant = 0 => db'.incidents = << >> /\ ~db'.category
      /\ \A h \in late' : h.op = "category" => h.by # 0
  BY <1>1, <1>3, AttemptClean DEF IncidentOps
<1> SUFFICES ASSUME clean', mode.purge PROVE NoFailure /\ Smooth'
  BY <1>2, <1>4 DEF CleanInv, Excused, NoFailure
<1>5. /\ clean /\ a.code = DeleteUser(db, id).code /\ db' = DeleteUser(db, id).db
  BY <1>1, <1>3, CleanExchange DEF Serve
<1>6. a.code \in {200, 404}
  BY <1>5 DEF DeleteUser, Result
<1>7. pc' = "accounts" /\ exit' = exit
  <2>1. a.code # 0
    BY <1>6
  <2>2. Advance(a, a.code \in {200, 404}, "accounts")
    BY <1>1
  <2> QED BY <1>6, <2>1, <2>2, GoodAnswer
<1>8. listed' = listed \ {id}
  BY <1>1, <1>6 DEF Lost
<1>9. Smooth
  BY <1>2, <1>5 DEF CleanInv
<1>10. /\ db'.tenant = db.tenant
       /\ \A m \in Mailbox : db'.account[m] \in {0, db.account[m]} /\ db'.account[m] # id
  <2>1. db \in Db /\ id # 0
    BY RunFacts DEF RunInv, ScriptIsCareful
  <2>2. CASE id \notin Accounts(db)
    BY <1>5, <2>1, <2>2 DEF DeleteUser, Result, Accounts
  <2>3. CASE id \in Accounts(db)
    <3> DEFINE A == [m \in Mailbox |-> IF db.account[m] = id THEN 0 ELSE db.account[m]]
    <3>1. db' = [db EXCEPT !.account = A]
      BY <1>5, <2>3 DEF DeleteUser, Result
    <3>2. db'.tenant = db.tenant /\ db'.account = A
      <4> HIDE DEF A
      <4> QED BY <2>1, <3>1 DEF Db
    <3> QED BY <2>1, <3>2
  <2> QED BY <2>2, <2>3
<1> QED BY <1>2, <1>7, <1>8, <1>9, <1>10 DEF Smooth, NoFailure

LEMMA RegisterClean ==
    ASSUME RunInv, WorkInv, CleanInv, Register
    PROVE  CleanInv' /\ Excused
<1> DEFINE q == Request("register", 0, Admin, 0, NoReviewer)
<1>1. PICK a \in {Lost, Reply(q)} :
        /\ Exchange(q, a) /\ Advance(a, a.code = 201, "password")
        /\ ids' = [ids EXCEPT ![Admin] = a.n]
  BY DEF Register
<1>2. pc = "register" /\ UNCHANGED <<mode, user>>
  BY DEF Register, between
<1>3. q \in Requests /\ q.op = "register" /\ Admin \in Mailbox
  BY DEF Requests, Request, Never, Mailbox
<1> HIDE DEF q
<1>4. /\ clean' => late' = {}
      /\ db'.tenant = 0 => db'.incidents = << >> /\ ~db'.category
      /\ \A h \in late' : h.op = "category" => h.by # 0
  BY <1>1, <1>3, AttemptClean DEF IncidentOps
<1> SUFFICES ASSUME clean', mode.purge
             PROVE  (NoFailure \/ (Register /\ db.folded)) /\ Smooth'
  BY <1>2, <1>4 DEF CleanInv, Excused, NoFailure, Register
<1>5. /\ clean /\ a.code = RegisterOrganization(db).code
      /\ a.n = RegisterOrganization(db).n /\ db' = RegisterOrganization(db).db
  BY <1>1, <1>3, CleanExchange DEF Serve
<1>6. Smooth
  BY <1>2, <1>5 DEF CleanInv
<1>7. /\ db.tenant = 0 /\ db.incidents = << >> /\ ~db.category
      /\ \A m \in Mailbox : db.account[m] = 0 /\ db.row[m] = 0
  <2>1. db.tenant = 0 /\ \A m \in Mailbox : db.account[m] = 0
    BY <1>2, <1>6 DEF Smooth
  <2> QED BY <2>1, RunFacts DEF CleanInv, Sound
<1>15. CASE db.folded
  <2>1. a.code = 409
    BY <1>5, <1>15 DEF RegisterOrganization, Result
  <2>2. pc' = "ended"
    BY <1>1, <2>1 DEF Advance, Lost, Exit
  <2> QED BY <1>15, <2>2 DEF Smooth
<1> SUFFICES ASSUME ~db.folded PROVE NoFailure /\ Smooth'
  BY <1>15
<1> DEFINE A == [db.account EXCEPT ![Admin] = db.nextId]
           R == [db.row EXCEPT ![Admin] = db.nextId]
           next == db.nextId + 1
           e == [db EXCEPT !.tenant = db.nextId, !.account = A, !.row = R, !.nextId = next]
<1>8. RegisterOrganization(db) = Result(e, 201, db.nextId)
  BY <1>3, <1>7 DEF RegisterOrganization
<1>9. /\ db.account \in [Mailbox -> Nat] /\ db.row \in [Mailbox -> Nat] /\ db \in Db
      /\ ids \in [Mailbox -> Nat]
  BY RunFacts DEF RunInv, ScriptIsCareful, Db
<1>10. /\ A[Admin] = db.nextId /\ \A m \in Mailbox \ {Admin} : A[m] = 0 /\ R[m] = 0
  BY <1>3, <1>7, <1>9
<1> HIDE DEF A, R, next
<1>11. /\ a.code = 201 /\ a.n = db.nextId
       /\ db'.account = A /\ db'.row = R /\ db'.incidents = << >> /\ ~db'.category
  <2>1. e.account = A /\ e.row = R /\ e.incidents = db.incidents /\ e.category = db.category
    BY <1>9 DEF Db
  <2> HIDE DEF e
  <2>2. db' = e /\ a.code = 201 /\ a.n = db.nextId
    BY <1>5, <1>8 DEF Result
  <2> QED BY <1>7, <2>1, <2>2
<1>12. ids'[Admin] = db.nextId
  BY <1>1, <1>3, <1>9, <1>11
<1>13. pc' = "password" /\ exit' = exit
  <2>1. a.code # 0 /\ Advance(a, a.code = 201, "password")
    BY <1>1, <1>11
  <2> QED BY <1>11, <2>1, GoodAnswer
<1>14. Vacant(user)'
  <2>1. \A k \in DOMAIN Users : Users[k] \in Mailbox \ {Admin}
    BY RunAssumption DEF Mailbox
  <2> QED BY <1>10, <1>11, <2>1 DEF Vacant
<1> QED BY <1>6, <1>10, <1>11, <1>12, <1>13, <1>14 DEF Smooth, NoFailure

LEMMA GiveAdminPasswordClean ==
    ASSUME RunInv, WorkInv, CleanInv, GiveAdminPassword
    PROVE  CleanInv' /\ Excused
<1> DEFINE q == Request("password", 0, Admin, ids[Admin], NoReviewer)
           phase == IF Users = << >> THEN "category" ELSE "create"
<1>1. PICK a \in {Lost, Reply(q)} : Exchange(q, a) /\ Advance(a, a.code = 200, phase)
  BY DEF GiveAdminPassword
<1>2. pc = "password" /\ UNCHANGED <<mode, user, ids>>
  BY DEF GiveAdminPassword, between, accounts
<1>3. /\ q \in Requests /\ q.op = "password" /\ q.n = ids[Admin] /\ Admin \in Mailbox
      /\ ids[Admin] # 0
  BY <1>2 DEF Requests, Request, Never, Mailbox, RunInv, ScriptIsCareful, Seeding
<1> HIDE DEF q
<1>4. /\ clean' => late' = {}
      /\ db'.tenant = 0 => db'.incidents = << >> /\ ~db'.category
      /\ \A h \in late' : h.op = "category" => h.by # 0
  BY <1>1, <1>3, AttemptClean DEF IncidentOps
<1> SUFFICES ASSUME clean', mode.purge PROVE NoFailure /\ Smooth'
  BY <1>2, <1>4 DEF CleanInv, Excused, NoFailure
<1>5. /\ clean /\ a.code = SetPassword(db, ids[Admin]).code
      /\ db' = SetPassword(db, ids[Admin]).db
  BY <1>1, <1>3, CleanExchange DEF Serve
<1>6. Smooth
  BY <1>2, <1>5 DEF CleanInv
<1>7. a.code = 200 /\ db' = db
  BY <1>2, <1>3, <1>5, <1>6 DEF Smooth, SetPassword, Result, Accounts
<1>8. pc' = phase /\ exit' = exit
  <2> HIDE DEF phase
  <2>1. a.code # 0 /\ Advance(a, a.code = 200, phase)
    BY <1>1, <1>7
  <2> QED BY <1>7, <2>1, GoodAnswer
<1> QED BY <1>2, <1>6, <1>7, <1>8 DEF Smooth, NoFailure, Vacant

LEMMA CreateAccountClean ==
    ASSUME RunInv, WorkInv, CleanInv, CreateAccount
    PROVE  CleanInv' /\ Excused
<1> DEFINE m == Users[user]
           q == Request("create", 0, m, 0, NoReviewer)
<1>1. PICK a \in {Lost, Reply(q)} :
        /\ Exchange(q, a) /\ Advance(a, a.code = 200, "invite")
        /\ ids' = [ids EXCEPT ![m] = a.n]
  BY DEF CreateAccount
<1>2. pc = "create" /\ UNCHANGED <<mode, user>>
  BY DEF CreateAccount, between
<1>3. /\ q \in Requests /\ q.op = "create" /\ q.mail = m /\ m \in Mailbox
      /\ user \in DOMAIN Users
  <2>1. user \in DOMAIN Users /\ m \in Mailbox
    BY <1>2, UserFacts
  <2> QED BY <2>1 DEF Requests, Request, Never
<1> HIDE DEF q
<1>4. /\ clean' => late' = {}
      /\ db'.tenant = 0 => db'.incidents = << >> /\ ~db'.category
      /\ \A h \in late' : h.op = "category" => h.by # 0
  BY <1>1, <1>3, AttemptClean DEF IncidentOps
<1> SUFFICES ASSUME clean', mode.purge PROVE NoFailure /\ Smooth'
  BY <1>2, <1>4 DEF CleanInv, Excused, NoFailure
<1>5. /\ clean /\ a.code = CreateUser(db, m).code /\ a.n = CreateUser(db, m).n
      /\ db' = CreateUser(db, m).db
  BY <1>1, <1>3, CleanExchange DEF Serve
<1>6. Smooth
  BY <1>2, <1>5 DEF CleanInv
<1>7. Vacant(user) /\ db.incidents = << >> /\ ~db.category /\ user \in Nat
  BY <1>2, <1>6, UserFacts DEF Smooth, RunInv, ScriptIsCareful
<1>8. db.account[m] = 0 /\ db.row[m] = 0
  BY <1>3, <1>7 DEF Vacant
<1> DEFINE A == [db.account EXCEPT ![m] = db.nextId]
           next == db.nextId + 1
           e == [db EXCEPT !.account = A, !.nextId = next]
<1>9. CreateUser(db, m) = Result(e, 200, db.nextId)
  BY <1>8 DEF CreateUser
<1>10. /\ db.account \in [Mailbox -> Nat] /\ db.row \in [Mailbox -> Nat] /\ db \in Db
       /\ ids \in [Mailbox -> Nat] /\ db.nextId # 0
  BY RunFacts DEF RunInv, ScriptIsCareful, Db
<1> HIDE DEF m
<1>11. A[m] = db.nextId /\ \A w \in Mailbox \ {m} : A[w] = db.account[w]
  BY <1>3, <1>10
<1> HIDE DEF A, next
<1>12. /\ a.code = 200 /\ a.n = db.nextId
       /\ db'.account = A /\ db'.row = db.row /\ db'.incidents = << >> /\ ~db'.category
  <2>1. /\ e.account = A /\ e.row = db.row /\ e.incidents = db.incidents
        /\ e.category = db.category
    BY <1>10 DEF Db
  <2> HIDE DEF e
  <2>2. db' = e /\ a.code = 200 /\ a.n = db.nextId
    BY <1>5, <1>9 DEF Result
  <2> QED BY <1>7, <2>1, <2>2
<1>13. ids'[m] = db.nextId
  BY <1>1, <1>3, <1>10, <1>12
<1>14. pc' = "invite" /\ exit' = exit
  <2>1. a.code # 0 /\ Advance(a, a.code = 200, "invite")
    BY <1>1, <1>12
  <2> QED BY <1>12, <2>1, GoodAnswer
<1>15. Vacant(user + 1)'
  <2> SUFFICES ASSUME NEW k \in DOMAIN Users, k >= user + 1
               PROVE  db'.account[Users[k]] = 0 /\ db'.row[Users[k]] = 0
    BY <1>2 DEF Vacant
  <2>1. k \in Nat
    BY RunAssumption
  <2>2. k # user /\ k >= user
    BY <1>7, <2>1
  <2>3. Users[k] # m /\ Users[k] \in Mailbox
    BY <1>3, <2>2, RunAssumption DEF m, Mailbox
  <2> QED BY <1>7, <1>11, <1>12, <2>2, <2>3 DEF Vacant
<1> QED BY <1>2, <1>6, <1>8, <1>10, <1>11, <1>12, <1>13, <1>14, <1>15 DEF Smooth, NoFailure, m

LEMMA ProvisionClean ==
    ASSUME RunInv, WorkInv, CleanInv, Provision
    PROVE  CleanInv' /\ Excused
<1> DEFINE m == Users[user]
           q == Request("invite", ids[Admin], m, 0, NoReviewer)
           phase == IF user = Len(Users) THEN "category" ELSE "create"
<1>1. PICK a \in {Lost, Reply(q)} :
        /\ Exchange(q, a) /\ Advance(a, a.code = 201 /\ a.n = ids[m], phase)
        /\ user' = IF a.code = 201 /\ user < Len(Users) THEN user + 1 ELSE user
  BY DEF Provision
<1>2. pc = "invite" /\ UNCHANGED <<mode, ids>>
  BY DEF Provision, between
<1>3. /\ q \in Requests /\ q.op = "invite" /\ q.mail = m /\ m \in Mailbox
      /\ q.by = ids[Admin] /\ user \in DOMAIN Users
  <2>1. user \in DOMAIN Users /\ m \in Mailbox /\ ids[Admin] \in Nat
    BY <1>2, UserFacts
  <2> QED BY <2>1 DEF Requests, Request, Never
<1> HIDE DEF q
<1>4. /\ clean' => late' = {}
      /\ db'.tenant = 0 => db'.incidents = << >> /\ ~db'.category
      /\ \A h \in late' : h.op = "category" => h.by # 0
  BY <1>1, <1>3, AttemptClean DEF IncidentOps
<1> SUFFICES ASSUME clean', mode.purge PROVE NoFailure /\ Smooth'
  BY <1>2, <1>4 DEF CleanInv, Excused, NoFailure
<1>5. /\ clean /\ a.code = Serve(db, q).code /\ a.n = Serve(db, q).n /\ db' = Serve(db, q).db
  BY <1>1, CleanExchange
<1>6. Smooth
  BY <1>2, <1>5 DEF CleanInv
<1>7. /\ Vacant(user + 1) /\ db.row[m] = 0 /\ db.account[m] = ids[m] /\ ids[m] # 0
      /\ db.incidents = << >> /\ ~db.category
      /\ db.tenant = ids[Admin]
  BY <1>2, <1>6 DEF Smooth, WorkInv, WorkingFacts, Working, Seeding
<1> DEFINE R == [db.row EXCEPT ![m] = ids[m]]
           A == [db.account EXCEPT ![m] = ids[m]]
           next == IF ids[m] = db.nextId THEN db.nextId + 1 ELSE db.nextId
           e == [db EXCEPT !.account = A, !.row = R, !.nextId = next]
<1>8. InviteUser(db, m) = Result(e, 201, ids[m])
  BY <1>7 DEF InviteUser
<1>9. /\ db.account \in [Mailbox -> Nat] /\ db.row \in [Mailbox -> Nat] /\ db \in Db
  BY RunFacts DEF Db
<1>10. Serve(db, q) = InviteUser(db, m)
  BY <1>3, <1>7 DEF Serve
<1> HIDE DEF m
<1>11. \A w \in Mailbox \ {m} : R[w] = db.row[w]
  BY <1>3, <1>9
<1>12. A = db.account
  BY <1>3, <1>7, <1>9
<1> HIDE DEF A, R, next
<1>13. /\ a.code = 201 /\ a.n = ids[m]
       /\ db'.account = db.account /\ db'.row = R /\ db'.incidents = << >> /\ ~db'.category
  <2>1. e.account = A /\ e.row = R /\ e.incidents = db.incidents /\ e.category = db.category
    BY <1>9 DEF Db
  <2> HIDE DEF e
  <2>2. db' = e /\ a.code = 201 /\ a.n = ids[m]
    BY <1>5, <1>8, <1>10 DEF Result
  <2> QED BY <1>7, <1>12, <2>1, <2>2
<1>14. pc' = phase /\ exit' = exit
  <2> HIDE DEF phase
  <2>1. a.code # 0 /\ Advance(a, a.code = 201 /\ a.n = ids[m], phase)
    BY <1>1, <1>13
  <2>2. a.code = 201 /\ a.n = ids[m]
    BY <1>13
  <2> QED BY <2>1, <2>2, GoodAnswer
<1>15. ASSUME pc' = "create" PROVE Vacant(user)'
  <2>1. user \in Nat /\ Len(Users) \in Nat /\ user \in 1..Len(Users)
    BY <1>3, RunAssumption
  <2>2. user # Len(Users)
    BY <1>14, <1>15
  <2>3. user' = user + 1
    BY <1>1, <1>13, <2>1, <2>2
  <2> SUFFICES ASSUME NEW k \in DOMAIN Users, k >= user + 1
               PROVE  db'.account[Users[k]] = 0 /\ db'.row[Users[k]] = 0
    BY <2>3 DEF Vacant
  <2>4. k \in Nat
    BY RunAssumption
  <2>5. k # user
    BY <2>1, <2>4
  <2>6. Users[k] # m /\ Users[k] \in Mailbox
    BY <1>3, <2>5, RunAssumption DEF m, Mailbox
  <2> QED BY <1>7, <1>11, <1>13, <2>6 DEF Vacant
<1> QED BY <1>6, <1>13, <1>14, <1>15 DEF Smooth, NoFailure

LEMMA AddCategoryClean ==
    ASSUME RunInv, WorkInv, CleanInv, AddCategory
    PROVE  CleanInv' /\ Excused
<1> DEFINE q == Request("category", ids[Admin], Admin, 0, NoReviewer)
<1>1. PICK a \in {Lost, Reply(q)} : Exchange(q, a) /\ Advance(a, a.code = 201, "incidents")
  BY DEF AddCategory
<1>2. pc = "category" /\ UNCHANGED <<mode, ids, job, incident, plans, known>>
  BY DEF AddCategory, between, accounts, tasks
<1>3. /\ q \in Requests /\ q.op = "category" /\ q.by = ids[Admin] /\ ids[Admin] # 0
      /\ ids[Admin] = db.tenant
  <2>1. ids[Admin] \in Nat /\ Admin \in Mailbox
    BY DEF RunInv, ScriptIsCareful, Mailbox
  <2> QED BY <1>2, <2>1
          DEF Requests, Request, Never, WorkInv, WorkingFacts, Working, Seeding
<1> HIDE DEF q
<1>4. /\ clean' => late' = {}
      /\ db'.tenant = 0 => db'.incidents = << >> /\ ~db'.category
      /\ \A h \in late' : h.op = "category" => h.by # 0
  BY <1>1, <1>3, AttemptClean
<1> SUFFICES ASSUME clean', mode.purge PROVE NoFailure /\ Smooth'
  BY <1>2, <1>4 DEF CleanInv, Excused, NoFailure
<1>5. /\ clean /\ a.code = CreateCategory(db).code /\ db' = CreateCategory(db).db
  BY <1>1, <1>3, CleanExchange DEF Serve
<1>6. Smooth
  BY <1>2, <1>5 DEF CleanInv
<1>7. /\ db.incidents = << >> /\ ~db.category /\ db \in Db
      /\ \A t \in Task : job[t] = "file"
  BY <1>2, <1>6, RunFacts DEF Smooth, WorkInv, TasksKnow
<1>8. a.code = 201 /\ db'.incidents = << >>
  BY <1>5, <1>7 DEF CreateCategory, Result, Db
<1>9. pc' = "incidents" /\ exit' = exit
  <2>1. a.code # 0 /\ Advance(a, a.code = 201, "incidents")
    BY <1>1, <1>8
  <2> QED BY <1>8, <2>1, GoodAnswer
<1>10. Carrying'
  BY <1>2, <1>7, <1>8 DEF Carrying, OneEach
<1> QED BY <1>6, <1>9, <1>10 DEF Smooth, NoFailure
-----------------------------------------------------------------------------
\* The order in which the steps of a plan are carried out.
LEMMA NextJob ==
    ASSUME NEW p, Truthful(p), NEW step \in Jobs \ {"done"},
           step # "file" => p.reviewer # NoReviewer,
           step = "close" => p.closer # NoReviewer
    PROVE  LET next == FollowingJob(p, step)
           IN  /\ next \in {"claim", "assign", "close", "done"}
               /\ step = "file" => \/ next = "claim" /\ p.reviewer # NoReviewer
                                   \/ next = "done" /\ p.status = "open"
               /\ step = "claim" => next \in {"assign", "close", "done"}
               /\ step = "claim" /\ next # "assign" => p.reassignee = NoReviewer
               /\ next = "assign" => p.reassignee # NoReviewer
               /\ step = "assign" => next \in {"close", "done"}
               /\ next = "close" => p.closer # NoReviewer
               /\ step \in {"claim", "assign"} /\ next = "done" => p.status = "in_review"
               /\ step = "close" => next = "done" /\ p.status = "closed"
<1> DEFINE wanted == <<p.reviewer # NoReviewer, p.reassignee # NoReviewer, p.closer # NoReviewer>>
           names == <<"claim", "assign", "close", "done">>
           from == CASE step = "file" -> 1 [] step = "claim" -> 2
                     [] step = "assign" -> 3 [] OTHER -> 4
           Good(k) == (k = 4 \/ wanted[k]) /\ \A j \in from..(k - 1) : ~wanted[j]
           k == CHOOSE j \in from..4 : Good(j)
<1>1. /\ p.status \in {"open", "in_review", "closed"}
      /\ p.reviewer = NoReviewer <=> p.status = "open"
      /\ p.closer # NoReviewer <=> p.status = "closed"
      /\ p.reviewer = NoReviewer => p.reassignee = NoReviewer /\ p.closer = NoReviewer
  BY DEF Truthful, Plan, PlanStatus, FinalAssignee, Never
<1>2. FollowingJob(p, step) = names[k]
  BY DEF FollowingJob
<1>3. FollowingJob(p, step) \in {"claim", "assign", "close", "done"}
  BY FollowingJobType
<1>4. step \in {"file", "claim", "assign", "close"} /\ from \in 1..4
  BY DEF Jobs
<1>5. ASSUME NEW j \in from..4, Good(j) PROVE k \in from..4 /\ Good(k)
  <2> HIDE DEF Good, from
  <2> QED BY <1>5
<1>6. \E j \in from..4 : Good(j)
  <2>1. /\ \A j \in 1..(1 - 1) : FALSE
        /\ \A j \in 1..(2 - 1) : j = 1
        /\ \A j \in 1..(3 - 1) : j \in {1, 2}
        /\ \A j \in 1..(4 - 1) : j \in {1, 2, 3}
        /\ {1, 2, 3, 4} \subseteq 1..4
        /\ \A j \in 2..(2 - 1) : FALSE
        /\ \A j \in 2..(3 - 1) : j = 2
        /\ \A j \in 2..(4 - 1) : j \in {2, 3}
        /\ {2, 3, 4} \subseteq 2..4
        /\ \A j \in 3..(3 - 1) : FALSE
        /\ \A j \in 3..(4 - 1) : j = 3
        /\ {3, 4} \subseteq 3..4
        /\ \A j \in 4..(4 - 1) : FALSE
        /\ 4 \in 4..4
    OBVIOUS
  <2> HIDE DEF wanted
  <2>2. CASE from = 1
    BY <2>1, <2>2
  <2>3. CASE from = 2
    BY <2>1, <2>3
  <2>4. CASE from = 3
    BY <2>1, <2>4
  <2>5. CASE from = 4
    BY <2>1, <2>5
  <2> QED BY <1>4, <2>2, <2>3, <2>4, <2>5
<1>7. k \in from..4 /\ Good(k)
  BY <1>5, <1>6
<1>8. /\ k \in {1, 2, 3, 4} /\ from <= k
      /\ k \in {1, 2, 3} => wanted[k]
      /\ \A j \in {1, 2, 3} : from <= j /\ j < k => ~wanted[j]
  <2> HIDE DEF k, from, wanted
  <2>1. k \in {1, 2, 3, 4} /\ from <= k
    BY <1>4, <1>7
  <2>2. \A j \in {1, 2, 3} : from <= j /\ j < k => j \in from..(k - 1)
    BY <1>4, <2>1
  <2> QED BY <1>7, <2>1, <2>2
<1>9. /\ k = 1 => p.reviewer # NoReviewer
      /\ k = 2 => p.reassignee # NoReviewer
      /\ k = 3 => p.closer # NoReviewer
      /\ from <= 1 /\ 1 < k => p.reviewer = NoReviewer
      /\ from <= 2 /\ 2 < k => p.reassignee = NoReviewer
      /\ from <= 3 /\ 3 < k => p.closer = NoReviewer
  <2>1. /\ wanted[1] <=> p.reviewer # NoReviewer
        /\ wanted[2] <=> p.reassignee # NoReviewer
        /\ wanted[3] <=> p.closer # NoReviewer
    OBVIOUS
  <2> HIDE DEF k, from, wanted
  <2> QED BY <1>8, <2>1
<1> DEFINE next == FollowingJob(p, step)
<1>14. /\ k = 1 => next = "claim"
       /\ k = 2 => next = "assign"
       /\ k = 3 => next = "close"
       /\ k = 4 => next = "done"
  <2> HIDE DEF k
  <2> QED BY <1>2
<1> HIDE DEF k, wanted, names, next
<1> SUFFICES /\ step = "file" => \/ next = "claim" /\ p.reviewer # NoReviewer
                                 \/ next = "done" /\ p.status = "open"
             /\ step = "claim" => next \in {"assign", "close", "done"}
             /\ step = "claim" /\ next # "assign" => p.reassignee = NoReviewer
             /\ next = "assign" => p.reassignee # NoReviewer
             /\ step = "assign" => next \in {"close", "done"}
             /\ next = "close" => p.closer # NoReviewer
             /\ step \in {"claim", "assign"} /\ next = "done" => p.status = "in_review"
             /\ step = "close" => next = "done" /\ p.status = "closed"
  BY <1>3 DEF next
<1>10. CASE step = "file"
  <2>1. from = 1
    BY <1>10
  <2> HIDE DEF from
  <2> QED BY <1>1, <1>8, <1>9, <1>10, <1>14, <2>1
<1>11. CASE step = "claim"
  <2>1. from = 2
    BY <1>11
  <2> HIDE DEF from
  <2> QED BY <1>1, <1>8, <1>9, <1>11, <1>14, <2>1
<1>12. CASE step = "assign"
  <2>1. from = 3
    BY <1>12
  <2> HIDE DEF from
  <2> QED BY <1>1, <1>8, <1>9, <1>12, <1>14, <2>1
<1>13. CASE step = "close"
  <2>1. from = 4
    BY <1>13
  <2> HIDE DEF from
  <2> QED BY <1>1, <1>8, <1>9, <1>13, <1>14, <2>1
<1> QED BY <1>4, <1>10, <1>11, <1>12, <1>13

Reached(step) ==
    IF step = "file" THEN "open" ELSE IF step = "close" THEN "closed" ELSE "in_review"

\* One more step of one task, and the incident it has to do with.
LEMMA CarryOn ==
    ASSUME WorkInv, Carrying, pc = "incidents", DOMAIN known = Task,
           NEW t \in Task, job[t] # "done", NEW n \in Nat,
           job' = [job EXCEPT ![t] = FollowingJob(plans[t], job[t])],
           incident' = [incident EXCEPT ![t] = n],
           known' = [known EXCEPT ![t] = Timeline(db'.incidents[n])],
           UNCHANGED plans,
           DOMAIN db'.incidents = DOMAIN db.incidents \cup {n},
           \A k \in DOMAIN db.incidents \ {n} : db'.incidents[k] = db.incidents[k],
           IF job[t] = "file" THEN n \notin DOMAIN db.incidents ELSE n = incident[t],
           db'.incidents[n].status = Reached(job[t]),
           db'.incidents[n].reviewed # Never => plans[t].review # Never,
           db'.incidents[n].closed # Never => plans[t].closed # Never
    PROVE  Carrying'
<1> DEFINE next == FollowingJob(plans[t], job[t])
           p == plans[t]
<1>1. Truthful(p)
  BY CleanPlans
<1>2. job \in [Task -> Jobs] /\ incident \in [Task -> Nat]
  BY DEF WorkInv, TasksKnow
<1>3. /\ job[t] \in {"file", "claim", "assign", "close"}
      /\ job[t] # "file" => p.reviewer # NoReviewer
      /\ job[t] = "close" => p.closer # NoReviewer
  BY <1>2 DEF Carrying, Carried, Jobs
<1>4. /\ next \in {"claim", "assign", "close", "done"}
      /\ job[t] = "file" => \/ next = "claim" /\ p.reviewer # NoReviewer
                            \/ next = "done" /\ p.status = "open"
      /\ job[t] = "claim" => next \in {"assign", "close", "done"}
      /\ job[t] = "assign" => next \in {"close", "done"}
      /\ next = "close" => p.closer # NoReviewer
      /\ job[t] \in {"claim", "assign"} /\ next = "done" => p.status = "in_review"
      /\ job[t] = "close" => next = "done" /\ p.status = "closed"
  BY <1>1, <1>3, NextJob DEF Jobs
<1> HIDE DEF next
<1>5. /\ job'[t] = next /\ incident'[t] = n /\ known'[t] = Timeline(db'.incidents[n])
      /\ \A w \in Task \ {t} : /\ job'[w] = job[w] /\ incident'[w] = incident[w]
                               /\ known'[w] = known[w]
  BY <1>2 DEF next
<1>6. \A w \in Task \ {t} : job[w] # "file" => /\ incident[w] # n
                                           /\ incident[w] \in DOMAIN db.incidents
  BY DEF Carrying, Carried, OneEach
<1>7. Carried(t)'
  BY <1>3, <1>4, <1>5 DEF Carried, Reached
<1>8. ASSUME NEW w \in Task \ {t}, job'[w] # "file" PROVE Carried(w)'
  <2>1. Carried(w) /\ db'.incidents[incident[w]] = db.incidents[incident[w]]
    BY <1>5, <1>6, <1>8 DEF Carrying
  <2> QED BY <1>5, <1>6, <1>8, <2>1 DEF Carried
<1>9. OneEach'
  <2>1. ASSUME NEW v \in Task, NEW w \in Task, job'[v] # "file", job'[w] # "file",
               incident'[v] = incident'[w]
        PROVE  v = w
    BY <1>5, <1>6, <2>1 DEF Carrying, OneEach
  <2>2. ASSUME NEW k \in DOMAIN db'.incidents
        PROVE  \E w \in Task : job'[w] # "file" /\ incident'[w] = k
    <3>1. CASE k = n
      BY <1>4, <1>5, <3>1
    <3>2. CASE k # n
      <4>1. PICK w \in Task : job[w] # "file" /\ incident[w] = k
        BY <3>2 DEF Carrying, OneEach
      <4>2. w # t
        BY <3>2, <4>1
      <4> QED BY <1>5, <4>1, <4>2
    <3> QED BY <3>1, <3>2
  <2> QED BY <2>1, <2>2 DEF OneEach
<1> QED BY <1>7, <1>8, <1>9 DEF Carrying

\* What the server answers to a task whose incident is where the plan expects it.
LEMMA FileAnswer ==
    ASSUME NEW d \in Db
    PROVE  LET r == FileIncident(d)
           IN  /\ r.code = 201 /\ r.n \in Nat /\ r.n \notin DOMAIN d.incidents
               /\ DOMAIN r.db.incidents = DOMAIN d.incidents \cup {r.n}
               /\ \A k \in DOMAIN d.incidents : r.db.incidents[k] = d.incidents[k]
               /\ r.db.incidents[r.n].status = "open"
               /\ r.db.incidents[r.n].assignee = NoReviewer
               /\ r.db.incidents[r.n].reviewed = Never
               /\ r.db.incidents[r.n].closed = Never
<1> DEFINE inc == [status |-> "open", assignee |-> NoReviewer, created |-> d.clock,
                   updated |-> d.clock, reviewed |-> Never, closed |-> Never, notes |-> << >>]
           s == d.incidents
           r == FileIncident(d)
<1>1. s \in Seq(Incident)
  BY DEF Db
<1>2. r.db.incidents = Append(s, inc) /\ r.n = Len(s) + 1 /\ r.code = 201
  BY DEF FileIncident, Result, Db
<1>3. /\ inc.status = "open" /\ inc.assignee = NoReviewer
      /\ inc.reviewed = Never /\ inc.closed = Never
  OBVIOUS
<1> HIDE DEF inc, s, r
<1>4. /\ DOMAIN s = 1..Len(s) /\ Len(s) \in Nat /\ DOMAIN Append(s, inc) = 1..(Len(s) + 1)
      /\ \A k \in DOMAIN s : Append(s, inc)[k] = s[k]
      /\ Append(s, inc)[Len(s) + 1] = inc
  BY <1>1
<1>5. /\ Len(s) + 1 \in Nat /\ Len(s) + 1 \notin 1..Len(s)
      /\ 1..(Len(s) + 1) = 1..Len(s) \cup {Len(s) + 1}
  BY <1>4
<1> QED BY <1>2, <1>3, <1>4, <1>5 DEF r, s

LEMMA MoveAnswer ==
    ASSUME NEW d \in Db, NEW n \in DOMAIN d.incidents, NEW to,
           \/ to = "in_review" /\ d.incidents[n].status = "open"
           \/ to = "closed" /\ d.incidents[n].status = "in_review",
           NEW who \in Reviewer \cup {NoReviewer}
    PROVE  LET r == MoveIncident(d, n, to, who)
           IN  /\ r.code = 200 /\ r.n = n
               /\ DOMAIN r.db.incidents = DOMAIN d.incidents
               /\ \A k \in DOMAIN d.incidents \ {n} : r.db.incidents[k] = d.incidents[k]
               /\ r.db.incidents[n].status = to
               /\ to = "closed" => r.db.incidents[n].reviewed = d.incidents[n].reviewed
               /\ to = "in_review" => r.db.incidents[n].closed = d.incidents[n].closed
<1> DEFINE inc == d.incidents[n]
           x == Written(inc, to, d.clock)
           claimed == [x EXCEPT !.status = to, !.reviewed = d.clock,
                                !.assignee = IF @ = NoReviewer THEN who ELSE @]
           closed == [x EXCEPT !.status = to, !.closed = d.clock]
           r == MoveIncident(d, n, to, who)
<1>1. inc \in Incident /\ d.clock \in Nat
  BY ClockType DEF Db
<1>2. x \in Incident /\ x.reviewed = inc.reviewed /\ x.closed = inc.closed
  BY <1>1, WrittenType DEF NoteKind, Written, Incident
<1>3. /\ claimed \in Incident /\ claimed.status = to /\ claimed.closed = inc.closed
      /\ closed \in Incident /\ closed.status = to /\ closed.reviewed = inc.reviewed
  <2>1. x.assignee \in Reviewer \cup {NoReviewer} /\ to \in PlanStatus
    BY <1>2 DEF Incident, PlanStatus
  <2> HIDE DEF x, inc
  <2> QED BY <1>1, <1>2, <2>1 DEF Incident
<1>4. CASE to = "in_review" /\ inc.status = "open"
  <2>1. r = Result([d EXCEPT !.incidents[n] = claimed], 200, n)
    BY <1>4 DEF MoveIncident
  <2>2. r.db = [d EXCEPT !.incidents[n] = claimed] /\ r.code = 200 /\ r.n = n
    BY <2>1 DEF Result
  <2> HIDE DEF claimed, r
  <2>3. /\ DOMAIN r.db.incidents = DOMAIN d.incidents
        /\ \A k \in DOMAIN d.incidents :
              r.db.incidents[k] = IF k = n THEN claimed ELSE d.incidents[k]
    BY <1>3, <2>2, WriteIncident
  <2> QED BY <1>3, <1>4, <2>2, <2>3 DEF r
<1>5. CASE to = "closed" /\ inc.status = "in_review"
  <2>1. r = Result([d EXCEPT !.incidents[n] = closed], 200, n)
    BY <1>5 DEF MoveIncident
  <2>2. r.db = [d EXCEPT !.incidents[n] = closed] /\ r.code = 200 /\ r.n = n
    BY <2>1 DEF Result
  <2> HIDE DEF closed, r
  <2>3. /\ DOMAIN r.db.incidents = DOMAIN d.incidents
        /\ \A k \in DOMAIN d.incidents :
              r.db.incidents[k] = IF k = n THEN closed ELSE d.incidents[k]
    BY <1>3, <2>2, WriteIncident
  <2> QED BY <1>3, <1>5, <2>2, <2>3 DEF r
<1> QED BY <1>4, <1>5

LEMMA AssignAnswer ==
    ASSUME NEW d \in Db, NEW n \in DOMAIN d.incidents, d.incidents[n].status = "in_review",
           NEW who \in Reviewer \cup {NoReviewer}
    PROVE  LET r == AssignIncident(d, n, who)
           IN  /\ r.code = 200 /\ r.n = n
               /\ DOMAIN r.db.incidents = DOMAIN d.incidents
               /\ \A k \in DOMAIN d.incidents \ {n} : r.db.incidents[k] = d.incidents[k]
               /\ r.db.incidents[n].status = "in_review"
               /\ r.db.incidents[n].reviewed = d.incidents[n].reviewed
               /\ r.db.incidents[n].closed = d.incidents[n].closed
<1> DEFINE inc == d.incidents[n]
           x == Written(inc, "reassigned", d.clock)
           moved == [x EXCEPT !.assignee = who]
           e == [d EXCEPT !.incidents[n] = moved]
           r == AssignIncident(d, n, who)
<1>1. CASE inc.assignee = who
  BY <1>1 DEF AssignIncident, Result
<1>2. CASE inc.assignee # who
  <2>1. r = Result(e, 200, n)
    BY <1>2 DEF AssignIncident, Assigned
  <2>2. inc \in Incident
    BY DEF Db
  <2>3. /\ x \in Incident /\ x.reviewed = inc.reviewed /\ x.closed = inc.closed
        /\ x.status = inc.status
    BY <2>2, ClockType, WrittenType DEF NoteKind, Written, Incident
  <2>4. /\ moved \in Incident /\ moved.status = inc.status
        /\ moved.reviewed = inc.reviewed /\ moved.closed = inc.closed
    <3> HIDE DEF x, inc
    <3> QED BY <2>3 DEF Incident
  <2>5. r.db = e /\ r.code = 200 /\ r.n = n
    BY <2>1 DEF Result
  <2> HIDE DEF moved, r
  <2>6. /\ DOMAIN e.incidents = DOMAIN d.incidents
        /\ \A k \in DOMAIN d.incidents :
              e.incidents[k] = IF k = n THEN moved ELSE d.incidents[k]
    BY <2>4, WriteIncident
  <2> HIDE DEF e
  <2> QED BY <2>4, <2>5, <2>6 DEF r
<1> QED BY <1>1, <1>2

LEMMA RunTaskClean ==
    ASSUME RunInv, WorkInv, CleanInv, DOMAIN known = Task, NEW t \in Task, RunTask(t)
    PROVE  CleanInv' /\ Excused
<1> DEFINE q == JobRequest(t)
           good == IF job[t] = "file" THEN 201 ELSE 200
<1>1. pc = "incidents" /\ job[t] # "done" /\ UNCHANGED <<mode, plans>>
  BY DEF RunTask, between
<1>2. /\ Allowed(q) /\ q.op = job[t] /\ q.n = incident[t] /\ q.by = db.tenant
      /\ q.op \in IncidentOps
      /\ q.op # "file" => q.n \in DOMAIN db.incidents
  BY <1>1, JobRequestFacts
<1>3. PICK a \in {Lost, Reply(q)} :
        LET ok == a.code = (IF job[t] = "file" THEN 201 ELSE 200)
        IN  /\ Exchange(q, a)
            /\ IF ok \/ (a = Lost /\ jobTries[t] < Attempts)
               THEN UNCHANGED <<pc, tries, exit>> ELSE Exit("failed")
            /\ jobTries' = [jobTries EXCEPT ![t] = IF ok THEN 1 ELSE @ + 1]
            /\ job' = [job EXCEPT ![t] = IF ok THEN FollowingJob(plans[t], @) ELSE @]
            /\ incident' = [incident EXCEPT ![t] = IF ok THEN a.n ELSE @]
            /\ known' = [known EXCEPT ![t] = IF ok THEN Timeline(db'.incidents[a.n]) ELSE @]
  BY Zenon DEF RunTask
<1>4. q \in Requests /\ q.who \in Reviewer \cup {NoReviewer}
  <2> HIDE DEF q
  <2> QED BY <1>2 DEF Allowed, Fits, Requests
<1>5. q.by # 0
  BY <1>1, <1>2 DEF WorkInv, WorkingFacts, Working, Seeding
<1> HIDE DEF q
<1>6. /\ clean' => late' = {}
      /\ db'.tenant = 0 => db'.incidents = << >> /\ ~db'.category
      /\ \A h \in late' : h.op = "category" => h.by # 0
  BY <1>3, <1>4, <1>5, AttemptClean
<1> SUFFICES ASSUME clean', mode.purge PROVE NoFailure /\ Smooth'
  BY <1>1, <1>6 DEF CleanInv, Excused, NoFailure
<1>7. /\ clean /\ a.code = Serve(db, q).code /\ a.n = Serve(db, q).n /\ db' = Serve(db, q).db
  BY <1>3, CleanExchange
<1>8. Carrying
  BY <1>1, <1>7 DEF CleanInv, Smooth
<1>9. db \in Db /\ Truthful(plans[t])
  BY CleanPlans, RunFacts
<1> DEFINE n == a.n
<1>10. /\ a.code = good
       /\ n \in Nat
       /\ DOMAIN db'.incidents = DOMAIN db.incidents \cup {n}
       /\ \A k \in DOMAIN db.incidents \ {n} : db'.incidents[k] = db.incidents[k]
       /\ IF job[t] = "file" THEN n \notin DOMAIN db.incidents ELSE n = incident[t]
       /\ db'.incidents[n].status = Reached(job[t])
       /\ db'.incidents[n].reviewed # Never => plans[t].review # Never
       /\ db'.incidents[n].closed # Never => plans[t].closed # Never
  <2>1. CASE job[t] = "file"
    <3>1. Serve(db, q) = FileIncident(db)
      BY <1>2, <2>1 DEF Serve
    <3> QED BY <1>7, <1>9, <2>1, <3>1, FileAnswer DEF Reached
  <2>2. CASE job[t] # "file"
    <3> DEFINE inc == db.incidents[incident[t]]
    <3>1. /\ Carried(t) /\ incident[t] \in DOMAIN db.incidents /\ incident[t] \in Nat
          /\ inc.reviewed # Never => plans[t].review # Never
          /\ inc.closed # Never => plans[t].closed # Never
      BY <1>2, <1>8, <2>2 DEF Carrying, Carried, WorkInv, TasksKnow
    <3>2. DOMAIN db.incidents \cup {incident[t]} = DOMAIN db.incidents
      BY <3>1
    <3>3. CASE job[t] = "claim"
      <4>1. inc.status = "open" /\ plans[t].review # Never
        BY <1>9, <3>1, <3>3 DEF Carried, Truthful
      <4>2. Serve(db, q) = MoveIncident(db, incident[t], "in_review", q.who)
        BY <1>2, <3>3 DEF Serve
      <4>3. LET r == MoveIncident(db, incident[t], "in_review", q.who)
            IN  /\ r.code = 200 /\ r.n = incident[t]
                /\ DOMAIN r.db.incidents = DOMAIN db.incidents
                /\ \A k \in DOMAIN db.incidents \ {incident[t]} :
                      r.db.incidents[k] = db.incidents[k]
                /\ r.db.incidents[incident[t]].status = "in_review"
                /\ r.db.incidents[incident[t]].closed = inc.closed
        BY <1>4, <1>9, <3>1, <4>1, MoveAnswer
      <4>4. DOMAIN db'.incidents = DOMAIN db.incidents \cup {n} /\ n = incident[t] /\ a.code = 200
            /\ \A k \in DOMAIN db.incidents \ {n} : db'.incidents[k] = db.incidents[k]
        BY <1>7, <3>2, <4>2, <4>3
      <4>5. /\ db'.incidents[n].status = "in_review"
            /\ db'.incidents[n].closed = inc.closed
        BY <1>7, <4>2, <4>3
      <4> QED BY <3>1, <3>3, <4>1, <4>4, <4>5 DEF Reached
    <3>4. CASE job[t] = "close"
      <4>1. inc.status = "in_review" /\ plans[t].closed # Never
        BY <1>9, <3>1, <3>4 DEF Carried, Truthful
      <4>2. Serve(db, q) = MoveIncident(db, incident[t], "closed", q.who)
        BY <1>2, <3>4 DEF Serve
      <4>3. LET r == MoveIncident(db, incident[t], "closed", q.who)
            IN  /\ r.code = 200 /\ r.n = incident[t]
                /\ DOMAIN r.db.incidents = DOMAIN db.incidents
                /\ \A k \in DOMAIN db.incidents \ {incident[t]} :
                      r.db.incidents[k] = db.incidents[k]
                /\ r.db.incidents[incident[t]].status = "closed"
                /\ r.db.incidents[incident[t]].reviewed = inc.reviewed
        BY <1>4, <1>9, <3>1, <4>1, MoveAnswer
      <4>4. DOMAIN db'.incidents = DOMAIN db.incidents \cup {n} /\ n = incident[t] /\ a.code = 200
            /\ \A k \in DOMAIN db.incidents \ {n} : db'.incidents[k] = db.incidents[k]
        BY <1>7, <3>2, <4>2, <4>3
      <4>5. /\ db'.incidents[n].status = "closed"
            /\ db'.incidents[n].reviewed = inc.reviewed
        BY <1>7, <4>2, <4>3
      <4> QED BY <3>1, <3>4, <4>1, <4>4, <4>5 DEF Reached
    <3>5. CASE job[t] = "assign"
      <4>1. inc.status = "in_review"
        BY <3>1, <3>5 DEF Carried
      <4>2. Serve(db, q) = AssignIncident(db, incident[t], q.who)
        BY <1>2, <1>4, <3>5 DEF Serve
      <4>3. LET r == AssignIncident(db, incident[t], q.who)
            IN  /\ r.code = 200 /\ r.n = incident[t]
                /\ DOMAIN r.db.incidents = DOMAIN db.incidents
                /\ \A k \in DOMAIN db.incidents \ {incident[t]} :
                      r.db.incidents[k] = db.incidents[k]
                /\ r.db.incidents[incident[t]].status = "in_review"
                /\ r.db.incidents[incident[t]].reviewed = inc.reviewed
                /\ r.db.incidents[incident[t]].closed = inc.closed
        BY <1>4, <1>9, <3>1, <4>1, AssignAnswer
      <4> QED BY <1>7, <3>1, <3>2, <3>5, <4>1, <4>2, <4>3 DEF Reached
    <3> QED BY <1>2, <2>2, <3>3, <3>4, <3>5 DEF IncidentOps
  <2> QED BY <2>1, <2>2
<1>11. /\ job' = [job EXCEPT ![t] = FollowingJob(plans[t], job[t])]
       /\ incident' = [incident EXCEPT ![t] = n]
       /\ known' = [known EXCEPT ![t] = Timeline(db'.incidents[n])]
       /\ pc' = pc /\ exit' = exit
  BY <1>3, <1>10
<1> HIDE DEF n
<1>12. Carrying'
  BY <1>1, <1>8, <1>10, <1>11, CarryOn
<1> QED BY <1>1, <1>8, <1>11, <1>12 DEF Smooth, NoFailure

\* With nothing unexpected among the rows, the backfill has nothing to refuse.
LEMMA BackfillClean ==
    ASSUME RunInv, WorkInv, CleanInv, Backfill
    PROVE  CleanInv' /\ Excused
<1> DEFINE rewritten == Stamped(db)
           e == [db EXCEPT !.incidents = rewritten, !.stamped = TRUE]
<1>1. /\ pc = "backfill" /\ UNCHANGED <<late, clean, mode, plans, incident>>
      /\ IF \A k \in DOMAIN rewritten : Verified(rewritten[k], db.clock)
         THEN db' = e /\ pc' = "verify" /\ exit' = exit
         ELSE UNCHANGED db /\ exit' = "failed"
  BY DEF Backfill, Goto, Exit, between, tasks
<1>2. db \in Db /\ db.tenant # 0
  BY <1>1, RunFacts DEF WorkInv, WorkingFacts, Working
<1>3. /\ DOMAIN rewritten = DOMAIN db.incidents
      /\ \A k \in DOMAIN db.incidents : rewritten[k].status = db.incidents[k].status
  BY StampedFacts
<1>4. e.tenant = db.tenant /\ e.incidents = rewritten
  <2> HIDE DEF rewritten
  <2> QED BY <1>2 DEF Db
<1>5. db'.tenant # 0
  BY <1>1, <1>2, <1>4
<1> SUFFICES ASSUME clean, mode.purge PROVE NoFailure /\ Smooth'
  BY <1>1, <1>5 DEF CleanInv, Excused, NoFailure
<1>6. Smooth
  BY DEF CleanInv
<1>7. /\ Carrying /\ Gathering
      /\ \A t \in Task : seen[t] = Len(db.incidents[incident[t]].notes)
  BY <1>1, <1>6 DEF Smooth
<1>8. ASSUME NEW k \in DOMAIN rewritten PROVE Verified(rewritten[k], db.clock)
  <2> DEFINE t == CHOOSE w \in Task : incident[w] = k
             inc == db.incidents[k]
  <2>1. \E w \in Task : incident[w] = k
    BY <1>3, <1>7, <1>8 DEF Carrying, OneEach
  <2>2. t \in Task /\ incident[t] = k
    BY <2>1
  <2>3. rewritten[k] = Stamp(inc, plans[t], known[t], seen[t])
    BY <1>3, <1>8, <2>1 DEF Stamped
  <2> HIDE DEF t, rewritten
  <2>4. Truthful(plans[t])
    BY <2>2, CleanPlans
  <2>5. Carried(t)
    BY <1>7, <2>2 DEF Carrying, Gathering
  <2>6. inc \in Incident
    <3>1. k \in DOMAIN db.incidents /\ db.incidents \in Seq(Incident)
      BY <1>2, <1>3, <1>8 DEF Db
    <3> QED BY <3>1, ElementOf
  <2>7. Follows(inc, plans[t], known[t])
    BY <2>2, <2>5, <2>6 DEF Carried, Follows, Timeline
  <2>8. seen[t] = Len(inc.notes) /\ Len(inc.notes) \in Nat
    BY <1>7, <2>2, <2>6 DEF Incident
  <2>9. seen[t] \in Nat /\ Len(inc.notes) <= seen[t]
    BY <2>8
  <2> HIDE DEF inc
  <2> QED BY <1>2, <2>3, <2>4, <2>7, <2>9, ClockType, StampedHistoryVerifies
<1>9. db' = e /\ pc' = "verify" /\ exit' = exit
  BY <1>1, <1>8
<1>10. db'.incidents = rewritten
  BY <1>4, <1>9
<1> HIDE DEF rewritten
<1>11. Delivered
  BY <1>7 DEF Carrying, OneEach, Carried, Gathering, Delivered
<1>12. Delivered'
  BY <1>1, <1>3, <1>10, <1>11 DEF Delivered
<1> QED BY <1>6, <1>9, <1>12 DEF Smooth, NoFailure

\* Incident by incident, the distribution is the planned one.
LEMMA DeliveredCounts ==
    ASSUME RunInv, WorkInv, Delivered
    PROVE  Distribution(db) = StatusCounts(plans)
<1> SUFFICES ASSUME NEW s \in PlanStatus
             PROVE  Cardinality({k \in DOMAIN db.incidents : db.incidents[k].status = s})
                    = Cardinality({t \in DOMAIN plans : plans[t].status = s})
  BY DEF Distribution, StatusCounts
<1> DEFINE T == {t \in DOMAIN plans : plans[t].status = s}
           K == {k \in DOMAIN db.incidents : db.incidents[k].status = s}
           f == [t \in T |-> incident[t]]
<1>1. DOMAIN plans = Task
  BY RunAssumption DEF WorkInv, TasksKnow
<1>2. f \in [T -> K]
  BY <1>1 DEF Delivered
<1>3. f \in Injection(T, K)
  BY <1>1, <1>2 DEF Delivered, Injection, IsInjective
<1>4. \A k \in K : \E t \in T : f[t] = k
  BY <1>1 DEF Delivered
<1>5. f \in Surjection(T, K)
  BY <1>2, <1>4 DEF Surjection
<1>6. IsFiniteSet(K)
  <2>1. DOMAIN db.incidents = 1..Len(db.incidents) /\ Len(db.incidents) \in Nat
    BY RunFacts DEF Db
  <2>2. IsFiniteSet(DOMAIN db.incidents)
    BY <2>1, FS_Interval
  <2> QED BY <2>2, FS_Subset
<1> HIDE DEF T, K, f
<1>7. Cardinality(T) = Cardinality(K)
  BY <1>3, <1>5, <1>6, FS_Injection
<1> QED BY <1>7 DEF T, K

LEMMA VerifyClean ==
    ASSUME RunInv, WorkInv, CleanInv, Verify
    PROVE  CleanInv' /\ Excused
<1>1. /\ pc = "verify" /\ pc' = "ended" /\ UNCHANGED <<db, late, clean, mode>>
      /\ exit' = IF Distribution(db) = StatusCounts(plans) THEN "ok" ELSE "failed"
  BY DEF Verify, Exit, server, between
<1>2. clean /\ mode.purge => Delivered
  BY <1>1 DEF CleanInv, Smooth
<1>3. clean /\ mode.purge => exit' = "ok"
  BY <1>1, <1>2, DeliveredCounts
<1> QED BY <1>1, <1>3 DEF CleanInv, Smooth, Excused

LEMMA BetweenRunsClean ==
    ASSUME RunInv, WorkInv, CleanInv, Rename \/ \E m \in Modes : StartRun(m)
    PROVE  CleanInv' /\ Excused
<1>1. CASE \E m \in Modes : StartRun(m)
  <2>1. /\ pc' = "preflight" /\ exit' = "none" /\ clean' = (late = {})
        /\ UNCHANGED <<db, late>>
    BY <1>1 DEF StartRun
  <2> QED BY <2>1 DEF CleanInv, Smooth, Excused
<1>2. CASE Rename
  <2>1. PICK same \in BOOLEAN :
          db' = [db EXCEPT !.tenant = 0, !.folded = same, !.row = NoMailboxes,
                           !.category = FALSE, !.incidents = << >>, !.stamped = FALSE]
    BY <1>2 DEF Rename
  <2>2. pc = "ended" /\ UNCHANGED <<pc, late, clean, mode, exit>>
    BY <1>2 DEF Rename
  <2>3. db'.incidents = << >> /\ db'.category = FALSE
    BY <2>1, RunFacts DEF Db
  <2> QED BY <2>2, <2>3 DEF CleanInv, Smooth, Excused
<1> QED BY <1>1, <1>2

\* known has an entry for every task.
LEMMA KnownKept ==
    ASSUME DOMAIN known = Task, [Next]_vars
    PROVE  DOMAIN known' = Task
<1>1. CASE UNCHANGED known
  BY <1>1
<1>2. ASSUME NEW m \in Modes, StartRun(m) PROVE DOMAIN known' = Task
  BY <1>2 DEF StartRun
<1>3. ASSUME NEW t \in Task, RunTask(t) PROVE DOMAIN known' = Task
  <2>1. PICK a : known' = [known EXCEPT ![t] = IF a.code = (IF job[t] = "file" THEN 201 ELSE 200)
                                                 THEN Timeline(db'.incidents[a.n])
                                                 ELSE known[t]]
    BY <1>3, ZenonT(60) DEF RunTask
  <2> QED BY <2>1
<1>4. \/ UNCHANGED known
      \/ \E m \in Modes : StartRun(m)
      \/ \E t \in Task : RunTask(t)
  BY DEF Next, Script, Preflight, FindTenant, PurgeRows, PurgeAccount, Purged, Register,
         GiveAdminPassword, CreateAccount, Provision, AddCategory, Gathered, AgeNotifications,
         ReadNotifications, Backfill, Verify, GiveUp, Crash, Land, SignUp, Rename,
         Terminating, vars, tasks
<1> QED BY <1>1, <1>2, <1>3, <1>4

Clean == SeedInv /\ CleanInv /\ DOMAIN known = Task

LEMMA InitClean == Init => Clean
<1> SUFFICES ASSUME Init PROVE CleanInv /\ DOMAIN known = Task
  BY InitSeed DEF Clean
<1>1. /\ late = {} /\ exit = "none" /\ pc = "ended" /\ known = [t \in Task |-> {}]
      /\ db.incidents = << >> /\ db.category = FALSE
  BY DEF Init
<1> QED BY <1>1 DEF CleanInv, Smooth

LEMMA StepClean == Clean /\ [Next]_vars => Clean' /\ Excused
<1> SUFFICES ASSUME Clean, [Next]_vars PROVE CleanInv' /\ Excused
  BY StepSeed, KnownKept DEF Clean
<1>1. RunInv /\ WorkInv /\ CleanInv /\ DOMAIN known = Task
  BY DEF Clean, SeedInv
<1>2. CASE \/ Preflight \/ FindTenant \/ Purged \/ Gathered \/ AgeNotifications
           \/ ReadNotifications \/ GiveUp \/ Crash
  BY <1>1, <1>2, ReadingClean
<1>3. CASE PurgeRows
  BY <1>1, <1>3, PurgeRowsClean
<1>4. ASSUME NEW id \in listed, PurgeAccount(id) PROVE CleanInv' /\ Excused
  BY <1>1, <1>4, PurgeAccountClean
<1>5. CASE Register \/ GiveAdminPassword \/ CreateAccount \/ Provision \/ AddCategory
  BY <1>1, <1>5, RegisterClean, GiveAdminPasswordClean, CreateAccountClean, ProvisionClean,
     AddCategoryClean
<1>6. ASSUME NEW t \in Task, RunTask(t) PROVE CleanInv' /\ Excused
  BY <1>1, <1>6, RunTaskClean
<1>7. CASE Backfill \/ Verify
  BY <1>1, <1>7, BackfillClean, VerifyClean
<1>8. CASE Rename \/ \E m \in Modes : StartRun(m)
  BY <1>1, <1>8, BetweenRunsClean
<1>9. ASSUME NEW q \in late, Land(q) PROVE CleanInv' /\ Excused
  BY <1>1, <1>9, LandClean
<1>10. CASE UNCHANGED <<db, late, clean, mode, plans, pc, exit, doomed, listed, ids, user,
                        tasks, seen>>
  <2>1. UNCHANGED <<job, incident, known>>
    BY <1>10 DEF tasks
  <2>2. Smooth' = Smooth
    BY <1>10, <2>1 DEF Smooth, Vacant, Carrying, OneEach, Carried, Gathering, Delivered
  <2> QED BY <1>1, <1>10, <2>2 DEF CleanInv, Excused
<1>11. CASE SignUp \/ Terminating \/ UNCHANGED vars
  BY <1>10, <1>11 DEF SignUp, Terminating, vars, server, between, accounts
<1> QED BY <1>2, <1>3, <1>4, <1>5, <1>6, <1>7, <1>8, <1>9, <1>11 DEF Next, Script

LEMMA SpecClean == Spec => []Clean
BY InitClean, StepClean, PTL DEF Spec

\* Whatever any number of runs before it left behind, wherever they died, and whatever of
\* theirs has landed since: a run that purges first and meets no fault of its own can only
\* be stopped by the count of accounts, in its preflight, or by an organisation that keeps
\* the planned name in other letters (purge, provision_org, seed_incidents,
\* backfill_timestamps, verify).
THEOREM CleanRunsSucceed == Spec => CleanRunSucceeds
<1>1. Clean /\ [Next]_vars =>
        [clean' /\ mode.purge /\ exit = "none" /\ exit' = "failed" =>
            (pc = "preflight" /\ Crowded) \/ (pc = "register" /\ db.folded)]_vars
  BY StepClean DEF Excused
<1> QED BY <1>1, SpecClean, PTL DEF Spec, CleanRunSucceeds
-----------------------------------------------------------------------------
(***************************************************************************)
(* A run that reports success.  Its users keep the rows they were given,   *)
(* and each of its incidents stays at the stage of its task, whatever is   *)
(* sent twice or lands late.                                               *)
(***************************************************************************)
Crewed == {"category", "incidents", "age", "notes", "backfill", "verify"}
Built == {"password", "create", "invite"} \cup Crewed
Tasked == {"incidents", "age", "notes", "backfill", "verify"}

Joined(m) == db.row[m] = ids[m] /\ ids[m] # 0

\* Everybody provisioned so far has a row, under the id that the script was told.
Members ==
    pc \in Built =>
        /\ db.tenant = ids[Admin] /\ db.tenant # 0
        /\ Joined(Admin)
        /\ \A k \in DOMAIN Users : pc \in Crewed \/ k < user => Joined(Users[k])

\* The timeline of an incident is the way to its status.
Marked(inc) ==
    /\ inc.reviewed # Never <=> inc.status # "open"
    /\ inc.closed # Never <=> inc.status = "closed"

Marks == ~db.stamped => \A k \in DOMAIN db.incidents : Marked(db.incidents[k])

\* A move or an assignment of the task, made now or before.
Planned(q, t) ==
    LET p == plans[t]
    IN  /\ job[t] # "file" /\ incident[t] = q.n
        /\ q.op = "claim" => q.who = p.reviewer /\ p.reviewer # NoReviewer
        /\ q.op = "assign" => /\ q.who = p.reassignee /\ p.reassignee # NoReviewer
                              /\ job[t] \in {"assign", "close", "done"}
        /\ q.op = "close" => p.closer # NoReviewer /\ job[t] \in {"close", "done"}

Moves == {"claim", "assign", "close"}

LateIsPlanned ==
    pc \in Built => \A q \in late : q.op \in Moves /\ q.by = db.tenant =>
                        \E t \in Task : Planned(q, t)

\* What the timeline of a plan's incident shows in the end.
PlannedTimeline(p) ==
    {s \in {"in_review", "closed"} : \/ s = "in_review" /\ p.status # "open"
                                     \/ s = "closed" /\ p.status = "closed"}

\* Where the incident of a task is while the task is about to do `step'.
Stage(inc, p, step) ==
    /\ p.reviewer = NoReviewer => step = "done"
    /\ step = "claim" => \/ inc.status = "open" /\ inc.assignee = NoReviewer
                         \/ inc.status = "in_review" /\ inc.assignee = p.reviewer
    /\ step = "assign" => /\ inc.status = "in_review"
                          /\ inc.assignee \in {p.reviewer, p.reassignee}
                          /\ p.reassignee # NoReviewer
    /\ step = "close" => /\ inc.status \in {"in_review", "closed"}
                         /\ inc.assignee = FinalAssignee(p)
                         /\ p.closer # NoReviewer
    /\ step = "done" => inc.status = p.status /\ inc.assignee = FinalAssignee(p)

OneIncident ==
    \A t, w \in Task :
        job[t] # "file" /\ job[w] # "file" /\ incident[t] = incident[w] => t = w

Staged ==
    pc \in Tasked =>
        /\ OneIncident
        /\ \A t \in Task : job[t] # "file" =>
              /\ incident[t] \in DOMAIN db.incidents
              /\ Stage(db.incidents[incident[t]], plans[t], job[t])
              /\ job[t] = "done" => known[t] = PlannedTimeline(plans[t])
        /\ pc # "incidents" => Gathering

Dated ==
    pc = "verify" /\ mode.backfill =>
        \A t \in Task : LET inc == db.incidents[incident[t]]
                        IN  <<inc.created, inc.reviewed, inc.closed>>
                            = <<plans[t].created, plans[t].review, plans[t].closed>>

Faithful ==
    /\ pc # "ended" => exit = "none"
    /\ Members /\ Marks /\ LateIsPlanned /\ Staged /\ Dated
\* One attempt of the script.
LEMMA ExchangeServes ==
    ASSUME RunInv, NEW q, Allowed(q), NEW a, Exchange(q, a)
    PROVE  /\ Effect(db, db', q)
           /\ \A h \in late' : h \in late \/ (h = q /\ UNCHANGED db)
           /\ db' = db \/ db' = Serve(db, q).db
           /\ a # Lost => db' = Serve(db, q).db /\ a = Reply(q) /\ late' = late
<1>1. /\ Effect(db, db', q)
      /\ late' = late \/ (UNCHANGED db /\ late' = late \cup {q})
  BY ExchangeIsHarmless DEF RunInv
<1>2. a # Lost => db' = Serve(db, q).db /\ a = Reply(q) /\ late' = late
  BY DEF Exchange
<1>3. db' = db \/ db' = Serve(db, q).db
  BY DEF Exchange
<1> QED BY <1>1, <1>2, <1>3

\* A row is written once for an organisation.
LEMMA RowsServed ==
    ASSUME RunInv, db.tenant # 0, NEW q, Effect(db, db', q)
    PROVE  /\ db'.tenant = db.tenant
           /\ \A m \in Mailbox : db.row[m] # 0 => db'.row[m] = db.row[m]
BY DEF Effect

\* Nobody who has joined is lost.
LEMMA MembersServed ==
    ASSUME RunInv, Members, pc \in Built, NEW q, Effect(db, db', q), UNCHANGED ids
    PROVE  /\ db'.tenant = ids'[Admin] /\ db'.tenant # 0
           /\ \A m \in Mailbox : Joined(m) => Joined(m)'
<1>1. db.tenant # 0 /\ db.tenant = ids[Admin]
  BY DEF Members
<1> QED BY <1>1, RowsServed DEF Joined

\* A step that leaves the organisation and what the script knows of it as they are.
LEMMA MembersKept ==
    ASSUME Members, db'.tenant = db.tenant, db'.row = db.row, UNCHANGED <<ids, user>>,
           pc' \in Built => pc \in Built, pc' \in Crewed => pc \in Crewed
    PROVE  Members'
BY DEF Members, Joined

\* The phases in which the organisation is complete.
LEMMA CrewedMembers ==
    ASSUME RunInv, Members, pc \in Crewed, pc' \in Crewed \cup {"ended"},
           NEW q, Effect(db, db', q), UNCHANGED <<ids, user>>
    PROVE  Members'
<1>1. pc \in Built
  BY DEF Built
<1>2. /\ db'.tenant = ids'[Admin] /\ db'.tenant # 0
      /\ \A m \in Mailbox : Joined(m) => Joined(m)'
  BY <1>1, MembersServed
<1>3. Admin \in Mailbox /\ \A k \in DOMAIN Users : Users[k] \in Mailbox
  BY DEF Mailbox
<1> QED BY <1>1, <1>2, <1>3 DEF Members

LEMMA RegisterJoins ==
    ASSUME RunInv, WorkInv, Register
    PROVE  Members' /\ LateIsPlanned'
<1> DEFINE q == Request("register", 0, Admin, 0, NoReviewer)
<1>1. PICK a \in {Lost, Reply(q)} :
        /\ Exchange(q, a) /\ Advance(a, a.code = 201, "password")
        /\ ids' = [ids EXCEPT ![Admin] = a.n]
  BY DEF Register
<1>2. pc = "register" /\ UNCHANGED user /\ q.op = "register"
  BY DEF Register, Request
<1> HIDE DEF q
<1>3. pc' \in {"register", "password", "ended"} /\ (pc' = "password" => a.code = 201)
  BY <1>1, <1>2 DEF Advance, Goto, Exit
<1> SUFFICES ASSUME pc' = "password" PROVE Members' /\ LateIsPlanned'
  BY <1>3 DEF Members, LateIsPlanned, Built, Crewed
<1>4. /\ a # Lost /\ db' = RegisterOrganization(db).db /\ late' = late
      /\ a.n = RegisterOrganization(db).n /\ RegisterOrganization(db).code = 201
  <2>1. a.code = 201 /\ a # Lost
    BY <1>3 DEF Lost
  <2>2. Serve(db, q) = RegisterOrganization(db)
    BY <1>2 DEF Serve
  <2> QED BY <1>1, <2>1, <2>2 DEF Exchange, Reply
<1>5. db \in Db /\ db.nextId \in Nat \ {0} /\ Admin \in Mailbox
  BY RunFacts DEF Mailbox
<1>6. /\ db'.tenant = db.nextId /\ db'.row[Admin] = db.nextId /\ a.n = db.nextId
  <2> DEFINE e == [db EXCEPT !.tenant = db.nextId, !.account[Admin] = db.nextId,
                             !.row[Admin] = db.nextId, !.nextId = @ + 1]
  <2>1. RegisterOrganization(db) = Result(e, 201, db.nextId)
    BY <1>4 DEF RegisterOrganization, Result
  <2>2. db' = e /\ a.n = db.nextId
    BY <1>4, <2>1 DEF Result
  <2>3. e.tenant = db.nextId /\ e.row = [db.row EXCEPT ![Admin] = db.nextId]
    BY <1>5 DEF Db
  <2> HIDE DEF e
  <2> QED BY <1>5, <2>2, <2>3 DEF Db
<1>7. ids'[Admin] = db.nextId /\ db.nextId # 0
  BY <1>1, <1>5, <1>6 DEF RunInv, ScriptIsCareful
<1>8. user' = 1
  BY <1>2 DEF RunInv, ScriptIsCareful
<1>9. Members'
  <2>1. \A k \in DOMAIN Users : ~(k < 1)
    BY RunAssumption
  <2> QED BY <1>6, <1>7, <1>8, <2>1 DEF Members, Joined, Crewed
<1>10. LateIsPlanned'
  <2>1. \A h \in late : h.by # db.nextId
    BY RunFacts
  <2> QED BY <1>4, <1>6, <2>1 DEF LateIsPlanned
<1> QED BY <1>9, <1>10

LEMMA CreateAccountJoins ==
    ASSUME RunInv, Members, CreateAccount
    PROVE  Members'
<1> DEFINE q == Request("create", 0, Users[user], 0, NoReviewer)
<1>1. /\ pc = "create" /\ user \in DOMAIN Users /\ Users[user] \in Mailbox
      /\ Users[user] # Admin /\ Admin \in Mailbox
  BY UserFacts DEF CreateAccount, Mailbox
<1>2. Allowed(q)
  BY <1>1, RequestType
<1>3. PICK a : /\ Exchange(q, a) /\ Advance(a, a.code = 200, "invite")
               /\ ids' = [ids EXCEPT ![Users[user]] = a.n]
  BY DEF CreateAccount
<1>4. UNCHANGED user
  BY DEF CreateAccount
<1> HIDE DEF q
<1>5. pc' \in {"create", "invite", "ended"}
  BY <1>1, <1>3 DEF Advance, Goto, Exit
<1>6. db.tenant # 0 /\ db.tenant = ids[Admin]
  BY <1>1 DEF Members, Built
<1>7. Effect(db, db', q)
  BY <1>2, <1>3, ExchangeServes
<1>8. /\ db'.tenant = db.tenant
      /\ \A m \in Mailbox : db.row[m] # 0 => db'.row[m] = db.row[m]
  BY <1>6, <1>7, RowsServed
<1>9. ids'[Admin] = ids[Admin] /\ \A m \in Mailbox \ {Users[user]} : ids'[m] = ids[m]
  BY <1>1, <1>3 DEF RunInv, ScriptIsCareful
<1>10. \A k \in DOMAIN Users : k < user => Users[k] \in Mailbox \ {Users[user]}
  <2>1. user \in Nat /\ DOMAIN Users \subseteq Nat
    BY <1>1, RunAssumption
  <2> QED BY <1>1, <2>1, RunAssumption DEF Mailbox
<1> QED BY <1>1, <1>4, <1>5, <1>6, <1>8, <1>9, <1>10 DEF Members, Joined, Built, Crewed

LEMMA ProvisionJoins ==
    ASSUME RunInv, Members, Provision
    PROVE  Members'
<1>0. PICK m : m = Users[user]
  OBVIOUS
<1> DEFINE q == Request("invite", ids[Admin], m, 0, NoReviewer)
<1>1. /\ pc = "invite" /\ user \in DOMAIN Users /\ m \in Mailbox /\ m # Admin
      /\ Admin \in Mailbox /\ ids[Admin] \in Nat /\ ids[Admin] < db.nextId
      /\ DOMAIN Users = 1..Len(Users) /\ Len(Users) \in Nat
  BY <1>0, UserFacts, RunAssumption DEF Provision, Mailbox
<1>2. Allowed(q) /\ q.op = "invite" /\ q.mail = m /\ q.by = ids[Admin]
  BY <1>0, <1>1, InviteRequest DEF Request
<1>3. PICK a \in {Lost, Reply(q)} :
        /\ Exchange(q, a)
        /\ Advance(a, a.code = 201 /\ a.n = ids[m],
                   IF user = Len(Users) THEN "category" ELSE "create")
        /\ user' = IF a.code = 201 /\ user < Len(Users) THEN user + 1 ELSE user
  BY <1>0 DEF Provision
<1>4. UNCHANGED ids
  BY DEF Provision
<1> HIDE DEF q
<1>5. /\ pc' \in {"invite", "create", "category", "ended"}
      /\ pc' = "create" => a.code = 201 /\ a.n = ids[m] /\ user # Len(Users)
      /\ pc' = "category" => a.code = 201 /\ a.n = ids[m] /\ user = Len(Users)
      /\ pc' = "invite" => a = Lost
  BY <1>1, <1>3 DEF Advance, Goto, Exit
<1>6. db.tenant # 0 /\ db.tenant = ids[Admin] /\ pc \in Built
  BY <1>1 DEF Members, Built
<1>7. Effect(db, db', q)
  BY <1>2, <1>3, ExchangeServes
<1>8. /\ db'.tenant = ids'[Admin] /\ db'.tenant # 0
      /\ \A w \in Mailbox : Joined(w) => Joined(w)'
  BY <1>4, <1>6, <1>7, MembersServed
<1>9. Joined(Admin) /\ \A k \in DOMAIN Users : k < user => Joined(Users[k])
  BY <1>1, <1>6 DEF Members
<1>10. \A k \in DOMAIN Users : Users[k] \in Mailbox
  BY DEF Mailbox
<1>11. ASSUME a.code = 201, a.n = ids[m] PROVE Joined(m)'
  <2>1. a # Lost /\ db' = Serve(db, q).db /\ a = Reply(q)
    BY <1>2, <1>3, <1>11, ExchangeServes DEF Lost
  <2>2. Serve(db, q) = InviteUser(db, m)
    BY <1>2, <1>6 DEF Serve
  <2>3. InviteUser(db, m).code = 201 /\ InviteUser(db, m).n = ids[m]
    BY <1>11, <2>1, <2>2 DEF Reply
  <2> DEFINE id == IF db.account[m] # 0 THEN db.account[m] ELSE db.nextId
             e == [db EXCEPT !.account[m] = id, !.row[m] = id,
                             !.nextId = IF id = @ THEN @ + 1 ELSE @]
  <2>4. InviteUser(db, m) = Result(e, 201, id)
    BY <2>3 DEF InviteUser, Result
  <2>5. db' = e /\ ids[m] = id
    BY <2>1, <2>2, <2>3, <2>4 DEF Result
  <2>6. db \in Db /\ db.nextId # 0
    BY RunFacts
  <2>7. e.row = [db.row EXCEPT ![m] = id]
    BY <2>6 DEF Db
  <2> HIDE DEF e
  <2>8. e.row[m] = id /\ id # 0
    BY <1>1, <2>6, <2>7 DEF Db
  <2> QED BY <1>4, <2>5, <2>8 DEF Joined
<1>12. CASE pc' = "invite"
  <2>1. user' = user
    BY <1>3, <1>5, <1>12 DEF Lost
  <2> QED BY <1>8, <1>9, <1>10, <1>1, <1>12, <2>1 DEF Members, Crewed
<1>13. CASE pc' \in {"create", "category"}
  <2>1. Joined(m)'
    BY <1>5, <1>11, <1>13
  <2>2. ASSUME NEW k \in DOMAIN Users, pc' \in Crewed \/ k < user' PROVE Joined(Users[k])'
    <3>1. k < user \/ k = user
      BY <1>1, <1>3, <1>5, <1>13, <2>2 DEF Crewed
    <3>2. CASE k = user
      BY <1>0, <2>1, <3>2
    <3>3. CASE k < user
      BY <1>8, <1>9, <1>10, <3>3
    <3> QED BY <3>1, <3>2, <3>3
  <2> QED BY <1>1, <1>8, <1>9, <2>2 DEF Members
<1>14. CASE pc' = "ended"
  BY <1>14 DEF Members, Built, Crewed
<1> QED BY <1>5, <1>12, <1>13, <1>14

\* The other requests of the script.
LEMMA PasswordJoins ==
    ASSUME RunInv, Members, GiveAdminPassword
    PROVE  Members'
<1> DEFINE q == Request("password", 0, Admin, ids[Admin], NoReviewer)
<1>1. /\ pc = "password" /\ UNCHANGED <<ids, user>> /\ user = 1
      /\ Admin \in Mailbox /\ ids[Admin] \in Nat
  BY DEF GiveAdminPassword, accounts, RunInv, ScriptIsCareful, Mailbox
<1>2. Allowed(q)
  BY <1>1, RequestType, PlanAssumption
<1>3. PICK a : /\ Exchange(q, a)
               /\ Advance(a, a.code = 200, IF Users = << >> THEN "category" ELSE "create")
  BY DEF GiveAdminPassword
<1> HIDE DEF q
<1>4. pc' \in {"password", "create", "category", "ended"}
      /\ (pc' = "category" => Users = << >>)
  BY <1>1, <1>3 DEF Advance, Goto, Exit
<1>5. db.tenant # 0 /\ pc \in Built /\ Joined(Admin)
  BY <1>1 DEF Members, Built
<1>6. /\ db'.tenant = ids'[Admin] /\ db'.tenant # 0
      /\ \A m \in Mailbox : Joined(m) => Joined(m)'
  BY <1>1, <1>2, <1>3, <1>5, ExchangeServes, MembersServed
<1>7. /\ \A k \in DOMAIN Users : ~(k < 1)
      /\ Users = << >> => DOMAIN Users = {}
  BY RunAssumption
<1> QED BY <1>1, <1>4, <1>5, <1>6, <1>7 DEF Members, Crewed

LEMMA CategoryJoins ==
    ASSUME RunInv, Members, AddCategory
    PROVE  Members'
<1> DEFINE q == Request("category", ids[Admin], Admin, 0, NoReviewer)
<1>1. /\ pc = "category" /\ UNCHANGED <<ids, user>>
      /\ Admin \in Mailbox
  BY DEF AddCategory, accounts, Mailbox
<1>2. Allowed(q)
  BY <1>1, RequestType
<1>3. PICK a : Exchange(q, a) /\ Advance(a, a.code = 201, "incidents")
  BY DEF AddCategory
<1> HIDE DEF q
<1>4. pc \in Crewed /\ pc' \in Crewed \cup {"ended"}
  BY <1>1, <1>3 DEF Advance, Goto, Exit, Crewed
<1>5. Effect(db, db', q)
  BY <1>2, <1>3, ExchangeServes
<1> QED BY <1>1, <1>4, <1>5, CrewedMembers
-----------------------------------------------------------------------------
\* What a request may make of an incident x.
Touch(x, y, q) ==
    \/ /\ q.op = "claim" /\ x.status = "open" /\ y.status = "in_review"
       /\ y.assignee = IF x.assignee = NoReviewer THEN q.who ELSE x.assignee
    \/ /\ q.op = "close" /\ x.status = "in_review" /\ y.status = "closed"
       /\ y.assignee = x.assignee
    \/ /\ q.op = "assign" /\ y.status = x.status /\ y.assignee = q.who
       /\ y.created = x.created /\ y.reviewed = x.reviewed /\ y.closed = x.closed

\* The incident of a request is the only one that it writes.
Writes(d, e, q) ==
    /\ DOMAIN e.incidents = DOMAIN d.incidents
    /\ \A k \in DOMAIN d.incidents :
          \/ e.incidents[k] = d.incidents[k]
          \/ /\ k = q.n /\ Touch(d.incidents[k], e.incidents[k], q)
             /\ Marked(d.incidents[k]) => Marked(e.incidents[k])

LEMMA ClockRuns ==
    ASSUME NEW d \in Db
    PROVE  d.clock \in Nat /\ d.clock # Never
BY ClockType, PlanAssumption DEF Never

LEMMA ClaimWrites ==
    ASSUME NEW d \in Db, NEW q \in Requests, q.op = "claim", q.n \in DOMAIN d.incidents
    PROVE  LET r == MoveIncident(d, q.n, "in_review", q.who)
           IN  /\ Writes(d, r.db, q) /\ r.n = q.n
               /\ r.code = 200 => r.db.incidents[q.n].status = "in_review"
<1> DEFINE n == q.n
           inc == d.incidents[n]
           x == Written(inc, "in_review", d.clock)
           y == [x EXCEPT !.status = "in_review", !.reviewed = d.clock,
                          !.assignee = IF @ = NoReviewer THEN q.who ELSE @]
           e == [d EXCEPT !.incidents[n] = y]
           r == MoveIncident(d, n, "in_review", q.who)
<1>1. /\ inc \in Incident /\ d.clock \in Nat /\ d.clock # Never
      /\ q.who \in Reviewer \cup {NoReviewer}
  BY ClockRuns, RequestFacts DEF Db
<1>2. /\ x \in Incident /\ x.status = inc.status /\ x.assignee = inc.assignee
      /\ x.reviewed = inc.reviewed /\ x.closed = inc.closed
  BY <1>1, WrittenType DEF NoteKind, Written, Incident
<1>3. /\ y \in Incident /\ y.status = "in_review" /\ y.reviewed = d.clock /\ y.closed = inc.closed
      /\ y.assignee = IF inc.assignee = NoReviewer THEN q.who ELSE inc.assignee
  <2>1. "in_review" \in PlanStatus /\ x.assignee \in Reviewer \cup {NoReviewer}
    BY <1>2 DEF Incident, PlanStatus
  <2> HIDE DEF x, inc
  <2> QED BY <1>1, <1>2, <2>1 DEF Incident
<1>4. CASE inc.status # "open"
  <2>1. r.db = d /\ r.n = n /\ (r.code = 200 => inc.status = "in_review")
    BY <1>4 DEF MoveIncident, Result
  <2> QED BY <2>1 DEF Writes
<1>5. CASE inc.status = "open"
  <2>1. r = Result(e, 200, n)
    BY <1>5 DEF MoveIncident
  <2>2. r.db = e /\ r.n = n
    BY <2>1 DEF Result
  <2> HIDE DEF y
  <2>3. /\ DOMAIN e.incidents = DOMAIN d.incidents
        /\ \A k \in DOMAIN d.incidents : e.incidents[k] = IF k = n THEN y ELSE d.incidents[k]
    BY <1>3, WriteIncident
  <2> HIDE DEF e, r
  <2>4. Touch(inc, y, q)
    BY <1>3, <1>5 DEF Touch
  <2>5. Marked(inc) => Marked(y)
    BY <1>1, <1>3, <1>5 DEF Marked
  <2>6. Writes(d, e, q)
    BY <2>3, <2>4, <2>5 DEF Writes
  <2> QED BY <1>3, <2>2, <2>3, <2>6 DEF r
<1> QED BY <1>4, <1>5

LEMMA CloseWrites ==
    ASSUME NEW d \in Db, NEW q \in Requests, q.op = "close", q.n \in DOMAIN d.incidents
    PROVE  LET r == MoveIncident(d, q.n, "closed", q.who)
           IN  /\ Writes(d, r.db, q) /\ r.n = q.n
               /\ r.code = 200 => r.db.incidents[q.n].status = "closed"
<1> DEFINE n == q.n
           inc == d.incidents[n]
           x == Written(inc, "closed", d.clock)
           y == [x EXCEPT !.status = "closed", !.closed = d.clock]
           e == [d EXCEPT !.incidents[n] = y]
           r == MoveIncident(d, n, "closed", q.who)
<1>1. inc \in Incident /\ d.clock \in Nat /\ d.clock # Never
  BY ClockRuns DEF Db
<1>2. /\ x \in Incident /\ x.status = inc.status /\ x.assignee = inc.assignee
      /\ x.reviewed = inc.reviewed /\ x.closed = inc.closed
  BY <1>1, WrittenType DEF NoteKind, Written, Incident
<1>3. /\ y \in Incident /\ y.status = "closed" /\ y.closed = d.clock /\ y.reviewed = inc.reviewed
      /\ y.assignee = inc.assignee
  <2>1. "closed" \in PlanStatus
    BY DEF PlanStatus
  <2> HIDE DEF x, inc
  <2> QED BY <1>1, <1>2, <2>1 DEF Incident
<1>4. CASE inc.status # "in_review"
  <2>1. r.db = d /\ r.n = n /\ (r.code = 200 => inc.status = "closed")
    BY <1>4 DEF MoveIncident, Result
  <2> QED BY <2>1 DEF Writes
<1>5. CASE inc.status = "in_review"
  <2>1. r = Result(e, 200, n)
    BY <1>5 DEF MoveIncident
  <2>2. r.db = e /\ r.n = n
    BY <2>1 DEF Result
  <2> HIDE DEF y
  <2>3. /\ DOMAIN e.incidents = DOMAIN d.incidents
        /\ \A k \in DOMAIN d.incidents : e.incidents[k] = IF k = n THEN y ELSE d.incidents[k]
    BY <1>3, WriteIncident
  <2> HIDE DEF e, r
  <2>4. Touch(inc, y, q)
    BY <1>3, <1>5 DEF Touch
  <2>5. Marked(inc) => Marked(y)
    BY <1>1, <1>3, <1>5 DEF Marked
  <2>6. Writes(d, e, q)
    BY <2>3, <2>4, <2>5 DEF Writes
  <2> QED BY <1>3, <2>2, <2>3, <2>6 DEF r
<1> QED BY <1>4, <1>5

LEMMA AssignedWrites ==
    ASSUME NEW d \in Db, NEW q \in Requests, q.op = "assign", q.n \in DOMAIN d.incidents,
           NEW at \in Nat
    PROVE  LET e == Assigned(d, q.n, q.who, at)
           IN  Writes(d, e, q) /\ e.incidents[q.n].assignee = q.who
<1>1. d.incidents[q.n] \in Incident /\ q.who \in Reviewer \cup {NoReviewer}
  BY RequestFacts DEF Db
<1>2. PICK n : n = q.n
  OBVIOUS
<1>3. PICK x : x = d.incidents[n]
  OBVIOUS
<1>4. PICK y : y = Reassigned(x, q.who, at)
  OBVIOUS
<1>5. /\ y \in Incident /\ y.status = x.status /\ y.closed = x.closed
      /\ y.reviewed = x.reviewed /\ y.created = x.created /\ y.assignee = q.who
  BY <1>1, <1>2, <1>3, <1>4, ReassignedFields
<1>6. PICK e : e = Assigned(d, q.n, q.who, at)
  OBVIOUS
<1>7. e = [d EXCEPT !.incidents[n] = y]
  BY <1>2, <1>3, <1>4, <1>6 DEF Assigned, Reassigned
<1>8. /\ DOMAIN e.incidents = DOMAIN d.incidents
      /\ \A k \in DOMAIN d.incidents : e.incidents[k] = IF k = n THEN y ELSE d.incidents[k]
  BY <1>5, <1>7, WriteIncident
<1>9. Touch(x, y, q)
  BY <1>5 DEF Touch
<1>10. Marked(x) => Marked(y)
  BY <1>5 DEF Marked
<1>11. Writes(d, e, q)
  BY <1>2, <1>3, <1>8, <1>9, <1>10 DEF Writes
<1> QED BY <1>2, <1>5, <1>6, <1>8, <1>11

LEMMA AssignWrites ==
    ASSUME NEW d \in Db, NEW q \in Requests, q.op = "assign", q.n \in DOMAIN d.incidents
    PROVE  LET r == AssignIncident(d, q.n, q.who)
           IN  /\ Writes(d, r.db, q) /\ r.n = q.n
               /\ r.code = 200 => r.db.incidents[q.n].assignee = q.who
<1> DEFINE r == AssignIncident(d, q.n, q.who)
<1>1. CASE r.db = d /\ r.n = q.n /\ (r.code = 200 => d.incidents[q.n].assignee = q.who)
  BY <1>1 DEF Writes
<1>2. CASE r.db = Assigned(d, q.n, q.who, d.clock) /\ r.n = q.n
  <2>1. PICK e : e = Assigned(d, q.n, q.who, d.clock)
    OBVIOUS
  <2>2. Writes(d, e, q) /\ e.incidents[q.n].assignee = q.who
    BY <2>1, ClockType, AssignedWrites
  <2> QED BY <1>2, <2>1, <2>2
<1>3. \/ r.db = d /\ r.n = q.n /\ (r.code = 200 => d.incidents[q.n].assignee = q.who)
      \/ r.db = Assigned(d, q.n, q.who, d.clock) /\ r.n = q.n
  BY DEF AssignIncident, Result
<1> QED BY <1>1, <1>2, <1>3

\* What the server may do to the incidents.
Grows(d, e, q) ==
    /\ DOMAIN d.incidents \subseteq DOMAIN e.incidents
    /\ \A k \in DOMAIN d.incidents :
          \/ e.incidents[k] = d.incidents[k]
          \/ /\ q.op \in Moves /\ q.by = d.tenant /\ k = q.n
             /\ Touch(d.incidents[k], e.incidents[k], q)
             /\ Marked(d.incidents[k]) => Marked(e.incidents[k])
    /\ \A k \in DOMAIN e.incidents \ DOMAIN d.incidents : Marked(e.incidents[k])

LEMMA ServeGrows ==
    ASSUME NEW d \in Db, NEW q \in Requests,
           q.op \in Moves /\ q.by = d.tenant => q.n \in DOMAIN d.incidents
    PROVE  Grows(d, Serve(d, q).db, q)
<1> DEFINE e == Serve(d, q).db
<1>1. CASE q.op = "file" /\ q.by = d.tenant
  <2>1. Serve(d, q) = FileIncident(d)
    BY <1>1 DEF Serve
  <2>2. \A inc : /\ inc.status = "open" /\ inc.reviewed = Never /\ inc.closed = Never
                 => Marked(inc)
    BY DEF Marked
  <2> QED BY <2>1, <2>2, FileAnswer DEF Grows
<1>2. CASE q.op \in Moves /\ q.by = d.tenant
  <2>1. /\ q.op = "claim" => Serve(d, q) = MoveIncident(d, q.n, "in_review", q.who)
        /\ q.op = "close" => Serve(d, q) = MoveIncident(d, q.n, "closed", q.who)
        /\ q.op = "assign" => Serve(d, q) = AssignIncident(d, q.n, q.who)
    BY <1>2 DEF Serve
  <2>2. Writes(d, e, q)
    BY <1>2, <2>1, ClaimWrites, CloseWrites, AssignWrites DEF Moves
  <2> HIDE DEF e
  <2> QED BY <1>2, <2>2 DEF Grows, Writes, e
<1>3. CASE q.op \notin IncidentOps \/ q.by # d.tenant
  <2>1. e.incidents = d.incidents
    BY <1>3, ServeOutcome DEF Outcome, Moves, IncidentOps
  <2> HIDE DEF e
  <2> QED BY <2>1 DEF Grows, e
<1> QED BY <1>1, <1>2, <1>3 DEF Moves, IncidentOps

\* A request of a task, or one that has nothing to do with the incidents of any.
Tame(q) ==
    q.op \in Moves /\ q.by = db.tenant =>
        q.n \in DOMAIN db.incidents /\ \E t \in Task : Planned(q, t)

\* Whatever the server does, an incident stays where its task may be.
LEMMA StageServed ==
    ASSUME NEW q, Tame(q), Grows(db, db', q), OneIncident,
           \A t \in Task : Truthful(plans[t]),
           NEW w \in Task, job[w] # "file", incident[w] \in DOMAIN db.incidents,
           Stage(db.incidents[incident[w]], plans[w], job[w]), job[w] \in Jobs
    PROVE  /\ incident[w] \in DOMAIN db'.incidents
           /\ Stage(db'.incidents[incident[w]], plans[w], job[w])
           /\ job[w] = "done" =>
                 LET x == db.incidents[incident[w]]
                     y == db'.incidents[incident[w]]
                 IN  y.created = x.created /\ y.reviewed = x.reviewed /\ y.closed = x.closed
<1> DEFINE x == db.incidents[incident[w]]
           y == db'.incidents[incident[w]]
           p == plans[w]
<1>1. incident[w] \in DOMAIN db'.incidents
  BY DEF Grows
<1>2. CASE y = x
  BY <1>1, <1>2
<1>3. CASE y # x
  <2>1. /\ q.op \in Moves /\ q.by = db.tenant /\ incident[w] = q.n /\ Touch(x, y, q)
    BY <1>3 DEF Grows
  <2>2. Planned(q, w)
    BY <2>1 DEF Tame, Planned, OneIncident
  <2>3. /\ q.op = "claim" => q.who = p.reviewer /\ p.reviewer # NoReviewer
        /\ q.op = "assign" => /\ q.who = p.reassignee /\ p.reassignee # NoReviewer
                              /\ job[w] \in {"assign", "close", "done"}
        /\ q.op = "close" => p.closer # NoReviewer /\ job[w] \in {"close", "done"}
    BY <2>2 DEF Planned
  <2>4. Stage(x, p, job[w])
    OBVIOUS
  <2>5. /\ p.reviewer # NoReviewer => p.status # "open"
        /\ p.closer # NoReviewer => p.status = "closed"
        /\ p.reassignee # NoReviewer => FinalAssignee(p) = p.reassignee
        /\ FinalAssignee(p) \in {p.reviewer, p.reassignee}
    BY DEF Truthful, FinalAssignee
  <2> HIDE DEF x, y, p
  <2>6. job[w] \in {"claim", "assign", "close", "done"}
    BY DEF Jobs
  <2>7. CASE q.op = "claim"
    <3>1. /\ x.status = "open" /\ y.status = "in_review"
          /\ y.assignee = IF x.assignee = NoReviewer THEN p.reviewer ELSE x.assignee
      BY <2>1, <2>3, <2>7 DEF Touch
    <3>2. job[w] = "claim"
      BY <2>3, <2>4, <2>5, <2>6, <2>7, <3>1 DEF Stage
    <3> QED BY <1>1, <2>4, <3>1, <3>2 DEF Stage, x, y, p
  <2>8. CASE q.op = "close"
    <3>1. x.status = "in_review" /\ y.status = "closed" /\ y.assignee = x.assignee
      BY <2>1, <2>8 DEF Touch
    <3>2. job[w] = "close"
      BY <2>3, <2>4, <2>5, <2>8, <3>1 DEF Stage
    <3> QED BY <1>1, <2>4, <3>1, <3>2 DEF Stage, x, y, p
  <2>9. CASE q.op = "assign"
    <3>1. /\ y.status = x.status /\ y.assignee = p.reassignee
          /\ y.created = x.created /\ y.reviewed = x.reviewed /\ y.closed = x.closed
          /\ job[w] \in {"assign", "close", "done"} /\ FinalAssignee(p) = p.reassignee
      BY <2>1, <2>3, <2>5, <2>9 DEF Touch
    <3>2. Stage(y, p, job[w])
      BY <2>4, <3>1 DEF Stage
    <3> QED BY <1>1, <3>1, <3>2 DEF x, y, p
  <2> QED BY <2>1, <2>7, <2>8, <2>9 DEF Moves
<1> QED BY <1>2, <1>3

\* What the server does to the incidents, when it answers ...
LEMMA GrowsServed ==
    ASSUME NEW q \in Requests, db \in Db, db' = db \/ db' = Serve(db, q).db,
           q.op \in Moves /\ q.by = db.tenant => q.n \in DOMAIN db.incidents
    PROVE  Grows(db, db', q)
<1>1. Grows(db, db, q)
  BY DEF Grows
<1> QED BY <1>1, ServeGrows

\* ... and when it gets to a request that was given up: it writes what the request says,
\* and what remains of the request says the same.
LEMMA LandGrows ==
    ASSUME RunInv, WorkInv, NEW q \in late, Land(q)
    PROVE  Grows(db, db', q)
<1>1. /\ db \in Db /\ q \in Requests /\ Fits(db, told, q)
      /\ q.op \in Moves /\ q.by = db.tenant => q.n \in DOMAIN db.incidents
  BY RunFacts DEF WorkInv, LateIsKnown, IncidentOps, Moves
<1>2. \A e : e.incidents = db.incidents => Grows(db, e, q)
  BY DEF Grows
<1>3. CASE Dropped(q) \/ Served(q)
  BY <1>1, <1>3, GrowsServed DEF Dropped, Served
<1>4. CASE Begun(q)
  <2>1. db'.incidents = db.incidents
    BY <1>1, <1>4 DEF Begun, Db
  <2> QED BY <1>2, <2>1
<1>5. CASE Made(q)
  <2>1. db'.incidents = db.incidents
    BY <1>1, <1>5 DEF Made, CreateUser, Result, Db
  <2> QED BY <1>2, <2>1
<1>6. CASE Committed(q)
  <2>1. CASE q.op # "assign"
    <3>1. db'.incidents = db.incidents
      BY <1>1, <1>6, <2>1 DEF Committed, Db
    <3> QED BY <1>2, <3>1
  <2>2. CASE q.op = "assign"
    <3>1. db.tenant = q.by /\ db' = Assigned(db, q.n, q.who, q.at)
      BY <1>6, <2>2 DEF Committed
    <3>2. q.at \in Nat /\ q.n \in DOMAIN db.incidents
      BY <1>1, <2>2, <3>1, RequestFacts DEF Moves
    <3>3. Writes(db, db', q)
      BY <1>1, <2>2, <3>1, <3>2, AssignedWrites
    <3> QED BY <2>2, <3>1, <3>3 DEF Grows, Writes, Moves
  <2> QED BY <2>1, <2>2
<1>7. CASE Compensated(q)
  BY <1>2, <1>7 DEF Compensated
<1> QED BY <1>3, <1>4, <1>5, <1>6, <1>7 DEF Land

LEMMA LandLeaves ==
    ASSUME RunInv, NEW q \in late, Land(q), NEW h \in late', h.op \in Moves
    PROVE  h \in late \/ (h.op = q.op /\ h.by = q.by /\ h.n = q.n /\ h.who = q.who)
<1>1. q \in Requests
  BY RunFacts
<1>2. CASE Dropped(q) \/ Served(q) \/ Committed(q)
  BY <1>2 DEF Dropped, Served, Committed
<1>3. CASE Begun(q)
  <2>1. PICK g : g = [q EXCEPT !.stage = "begun", !.at = db.clock]
    OBVIOUS
  <2>2. g.op = q.op /\ g.by = q.by /\ g.n = q.n /\ g.who = q.who
    BY <1>1, <2>1 DEF Requests
  <2>3. late' = (late \ {q}) \cup {g}
    BY <1>3, <2>1 DEF Begun
  <2> QED BY <2>2, <2>3
<1>4. CASE Made(q)
  <2>1. PICK g : late' = (late \ {q}) \cup {g} /\ g.op = q.op
    BY <1>4, MadeIsHarmless DEF RunInv
  <2>2. q.op \notin Moves
    BY <1>4 DEF Made, Moves
  <2> QED BY <2>1, <2>2
<1>5. CASE Compensated(q)
  <2>1. PICK g : late' = (late \ {q}) \cup {g} /\ g.op = "delete"
    BY <1>5, CompensatedIsHarmless DEF RunInv
  <2> QED BY <2>1 DEF Moves
<1> QED BY <1>2, <1>3, <1>4, <1>5 DEF Land

LEMMA MarksServed ==
    ASSUME Marks, NEW q, Grows(db, db', q), db'.stamped = db.stamped
    PROVE  Marks'
<1> SUFFICES ASSUME ~db.stamped, NEW k \in DOMAIN db'.incidents PROVE Marked(db'.incidents[k])
  BY DEF Marks
<1>1. CASE k \in DOMAIN db.incidents
  BY <1>1 DEF Grows, Marks
<1>2. CASE k \notin DOMAIN db.incidents
  BY <1>2 DEF Grows
<1> QED BY <1>1, <1>2

\* A request about nobody's incidents.
LEMMA QuietKeeps ==
    ASSUME RunInv, WorkInv, Members, Marks, LateIsPlanned, NEW q, Allowed(q),
           q.op \notin IncidentOps, NEW a, Exchange(q, a), UNCHANGED <<plans, job, incident>>,
           pc \in Early, pc' \in Early \cup {"incidents", "ended"}
    PROVE  /\ Marks' /\ Staged' /\ Dated'
           /\ (pc' \in Built => pc \in Built) => LateIsPlanned'
<1>1. db \in Db /\ q \in Requests
  BY RunFacts DEF Allowed, Fits
<1>2. /\ Effect(db, db', q) /\ db' \in {db, Serve(db, q).db}
      /\ \A h \in late' : h \in late \/ h.op \notin Moves
  BY ExchangeServes DEF Moves, IncidentOps
<1>3. Serve(db, q).db.incidents = db.incidents /\ Serve(db, q).db.stamped = db.stamped
  BY <1>1, ServeOutcome DEF Outcome, IncidentOps
<1>4. db'.incidents = db.incidents /\ db'.stamped = db.stamped
  BY <1>2, <1>3
<1>5. Marks'
  BY <1>4 DEF Marks
<1>6. Staged'
  <2>1. \A t \in Task : job[t] = "file"
    BY DEF WorkInv, TasksKnow, Early
  <2> QED BY <2>1 DEF Staged, OneIncident, Tasked, Early
<1>7. Dated'
  BY DEF Dated, Early
<1>8. ASSUME pc \in Built PROVE LateIsPlanned'
  <2>1. db.tenant # 0
    BY <1>8 DEF Members
  <2>2. db'.tenant = db.tenant
    BY <1>2, <2>1, RowsServed
  <2> QED BY <1>2, <1>8, <2>2 DEF LateIsPlanned, Planned
<1>9. pc' \notin Built => LateIsPlanned'
  BY DEF LateIsPlanned
<1> QED BY <1>5, <1>6, <1>7, <1>8, <1>9

\* A step that writes nothing.
LEMMA StillKeeps ==
    ASSUME Marks, LateIsPlanned, Staged, Dated,
           UNCHANGED <<db, late, plans, mode, job, incident, known>>,
           pc' \in Built => pc \in Built, pc' \in Tasked => pc \in Tasked,
           pc' \in Tasked /\ pc' # "incidents" => pc # "incidents" \/ Gathering,
           pc' = "verify" /\ mode.backfill => pc = "verify"
    PROVE  Marks' /\ LateIsPlanned' /\ Staged' /\ Dated'
<1>1. Marks'
  BY DEF Marks
<1>2. LateIsPlanned'
  BY DEF LateIsPlanned, Planned
<1>3. Staged'
  <2> SUFFICES ASSUME pc' \in Tasked PROVE Staged'
    BY DEF Staged
  <2>1. OneIncident' /\ (pc' # "incidents" => Gathering')
    BY DEF Staged, OneIncident, Gathering
  <2> QED BY <2>1 DEF Staged
<1>4. Dated'
  BY DEF Dated
<1> QED BY <1>1, <1>2, <1>3, <1>4

\* The tasks, while the server is at work.
LEMMA ServedKeeps ==
    ASSUME RunInv, WorkInv, Members, Marks, LateIsPlanned, Staged, Dated, pc \in Built,
           NEW q, Tame(q), Effect(db, db', q), Grows(db, db', q), db'.stamped = db.stamped,
           UNCHANGED <<plans>>,
           \A h \in late' : h.op \in Moves =>
                h \in late \/ (h.op = q.op /\ h.by = q.by /\ h.n = q.n /\ h.who = q.who)
    PROVE  /\ Marks' /\ db'.tenant = db.tenant
           /\ \A h \in late' : h.op \in Moves /\ h.by = db'.tenant => \E t \in Task : Planned(h, t)
           /\ pc \in Tasked => \A w \in Task : job[w] # "file" =>
                 /\ incident[w] \in DOMAIN db'.incidents
                 /\ Stage(db'.incidents[incident[w]], plans[w], job[w])
           /\ pc = "verify" /\ mode.backfill =>
                \A w \in Task : LET inc == db'.incidents[incident[w]]
                                IN  <<inc.created, inc.reviewed, inc.closed>>
                                    = <<plans[w].created, plans[w].review, plans[w].closed>>
<1>1. db.tenant # 0
  BY DEF Members
<1>2. db'.tenant = db.tenant
  BY <1>1, RowsServed
<1>3. Marks'
  BY MarksServed
<1>4. ASSUME NEW h \in late', h.op \in Moves, h.by = db'.tenant
      PROVE  \E t \in Task : Planned(h, t)
  <2>1. CASE h \in late
    BY <1>2, <1>4, <2>1 DEF LateIsPlanned
  <2>2. CASE h.op = q.op /\ h.by = q.by /\ h.n = q.n /\ h.who = q.who
    <3>1. PICK t \in Task : Planned(q, t)
      BY <1>2, <1>4, <2>2 DEF Tame
    <3> QED BY <2>2, <3>1 DEF Planned
  <2> QED BY <1>4, <2>1, <2>2
<1>5. \A t \in Task : Truthful(plans[t]) /\ job[t] \in Jobs
  BY CleanPlans DEF WorkInv, TasksKnow
<1>6. ASSUME pc \in Tasked, NEW w \in Task, job[w] # "file"
      PROVE  /\ incident[w] \in DOMAIN db'.incidents
             /\ Stage(db'.incidents[incident[w]], plans[w], job[w])
             /\ job[w] = "done" =>
                   LET x == db.incidents[incident[w]]
                       y == db'.incidents[incident[w]]
                   IN  y.created = x.created /\ y.reviewed = x.reviewed /\ y.closed = x.closed
  BY <1>5, <1>6, StageServed DEF Staged
<1>7. ASSUME pc = "verify", mode.backfill, NEW w \in Task
      PROVE  LET inc == db'.incidents[incident[w]]
             IN  <<inc.created, inc.reviewed, inc.closed>>
                 = <<plans[w].created, plans[w].review, plans[w].closed>>
  <2>1. job[w] = "done"
    BY <1>7 DEF Staged, Tasked, Gathering
  <2> QED BY <1>6, <1>7, <2>1 DEF Dated, Tasked
<1> QED BY <1>2, <1>3, <1>4, <1>6, <1>7

LEMMA LandFaithful ==
    ASSUME RunInv, WorkInv, Members, Marks, LateIsPlanned, Staged, Dated, NEW q \in late, Land(q)
    PROVE  Members' /\ Marks' /\ LateIsPlanned' /\ Staged' /\ Dated'
<1>1. UNCHANGED <<pc, mode, ids, user, plans, job, incident, known>>
  BY DEF Land, accounts, between, tasks
<1>2. /\ Grows(db, db', q)
      /\ \A h \in late' : h.op \in Moves =>
            h \in late \/ (h.op = q.op /\ h.by = q.by /\ h.n = q.n /\ h.who = q.who)
  BY LandGrows, LandLeaves
<1>3. db'.stamped = db.stamped
  <2>1. CASE Committed(q) /\ q.op = "register"
    <3>1. db \in Db /\ db' = [db EXCEPT !.tenant = q.n, !.row[Admin] = q.n]
      BY <2>1, RunFacts DEF Committed
    <3> QED BY <3>1 DEF Db
  <2>2. CASE ~(Committed(q) /\ q.op = "register")
    BY <2>2, LandOutcome DEF Outcome
  <2> QED BY <2>1, <2>2
<1>4. CASE pc \notin Built
  <2>1. Marks'
    BY <1>2, <1>3, MarksServed
  <2> QED BY <1>1, <1>4, <2>1
          DEF Members, LateIsPlanned, Staged, Dated, Built, Crewed, Tasked
<1>5. CASE pc \in Built
  <2>0. Effect(db, db', q)
    <3>1. ~(Committed(q) /\ q.op = "register")
      BY <1>5, RegisteredIsHarmless DEF Members, RunInv
    <3> QED BY <3>1, LandOutcome
  <2>1. Tame(q)
    BY <1>5 DEF Tame, LateIsPlanned, WorkInv, LateIsKnown, Moves, IncidentOps
  <2>2. /\ Marks' /\ db'.tenant = db.tenant
        /\ \A h \in late' : h.op \in Moves /\ h.by = db'.tenant => \E t \in Task : Planned(h, t)
        /\ pc \in Tasked => \A w \in Task : job[w] # "file" =>
              /\ incident[w] \in DOMAIN db'.incidents
              /\ Stage(db'.incidents[incident[w]], plans[w], job[w])
        /\ pc = "verify" /\ mode.backfill =>
             \A w \in Task : LET inc == db'.incidents[incident[w]]
                             IN  <<inc.created, inc.reviewed, inc.closed>>
                                 = <<plans[w].created, plans[w].review, plans[w].closed>>
    BY <1>1, <1>2, <1>3, <1>5, <2>0, <2>1, ServedKeeps
  <2>3. Members'
    <3>1. /\ db'.tenant = ids'[Admin] /\ db'.tenant # 0
          /\ \A m \in Mailbox : Joined(m) => Joined(m)'
      BY <1>1, <1>5, <2>0, MembersServed
    <3>2. Admin \in Mailbox /\ \A k \in DOMAIN Users : Users[k] \in Mailbox
      BY DEF Mailbox
    <3> QED BY <1>1, <1>5, <3>1, <3>2 DEF Members
  <2>4. LateIsPlanned'
    BY <1>1, <2>2 DEF LateIsPlanned, Planned
  <2>5. Staged'
    <3> SUFFICES ASSUME pc \in Tasked PROVE Staged'
      BY <1>1 DEF Staged
    <3>1. OneIncident' /\ (pc' # "incidents" => Gathering')
      BY <1>1 DEF Staged, OneIncident, Gathering
    <3> QED BY <1>1, <2>2, <3>1 DEF Staged
  <2>6. Dated'
    BY <1>1, <2>2 DEF Dated
  <2> QED BY <2>2, <2>3, <2>4, <2>5, <2>6
<1> QED BY <1>4, <1>5

\* The request of a task is a planned one.
LEMMA JobIsTame ==
    ASSUME RunInv, WorkInv, Members, Staged, pc = "incidents", NEW t \in Task, job[t] # "done"
    PROVE  LET q == JobRequest(t)
           IN  /\ Allowed(q) /\ q \in Requests /\ Tame(q)
               /\ q.op = job[t] /\ q.n = incident[t] /\ q.by = db.tenant
               /\ q.op = "assign" => q.who = plans[t].reassignee
<1> DEFINE q == JobRequest(t)
           p == plans[t]
<1>1. /\ Allowed(q) /\ q \in Requests /\ q.op = job[t] /\ q.n = incident[t] /\ q.by = db.tenant
      /\ q.op # "file" => q.n \in DOMAIN db.incidents
  BY JobRequestFacts DEF Allowed, Fits
<1>2. /\ job[t] = "claim" => q.who = p.reviewer
      /\ job[t] = "assign" => q.who = p.reassignee
  BY DEF JobRequest, Request
<1> HIDE DEF q
<1>3. job[t] # "file" => Stage(db.incidents[incident[t]], p, job[t])
  BY DEF Staged, Tasked
<1>4. ASSUME q.op \in Moves PROVE Planned(q, t)
  <2>1. job[t] # "file"
    BY <1>1, <1>4 DEF Moves
  <2> QED BY <1>1, <1>2, <1>3, <2>1 DEF Planned, Stage
<1>5. Tame(q)
  BY <1>1, <1>4 DEF Tame, Moves
<1> QED BY <1>1, <1>2, <1>5 DEF q

\* What an answer says of the incident, and what it leaves to do.
LEMMA JobAnswered ==
    ASSUME NEW inc, NEW p, Truthful(p), NEW step \in {"claim", "assign", "close"},
           Stage(inc, p, step), Marked(inc),
           step = "claim" => inc.status = "in_review",
           step = "assign" => inc.assignee = p.reassignee,
           step = "close" => inc.status = "closed"
    PROVE  LET next == FollowingJob(p, step)
           IN  /\ next \in {"claim", "assign", "close", "done"}
               /\ Stage(inc, p, next)
               /\ next = "done" => Timeline(inc) = PlannedTimeline(p)
               /\ step \in {"assign", "close"} => next \in {"close", "done"}
               /\ step = "close" => next = "done"
<1> DEFINE next == FollowingJob(p, step)
<1>1. /\ p.reviewer # NoReviewer
      /\ step = "close" => p.closer # NoReviewer
      /\ step = "assign" => p.reassignee # NoReviewer
  BY DEF Stage
<1>2. /\ next \in {"claim", "assign", "close", "done"}
      /\ step = "claim" => next \in {"assign", "close", "done"}
      /\ step = "claim" /\ next # "assign" => p.reassignee = NoReviewer
      /\ next = "assign" => p.reassignee # NoReviewer
      /\ step = "assign" => next \in {"close", "done"}
      /\ next = "close" => p.closer # NoReviewer
      /\ step \in {"claim", "assign"} /\ next = "done" => p.status = "in_review"
      /\ step = "close" => next = "done" /\ p.status = "closed"
  BY <1>1, NextJob DEF Jobs
<1> HIDE DEF next
<1>3. /\ inc.status = IF step = "close" THEN "closed" ELSE "in_review"
      /\ inc.assignee = IF step = "claim" THEN p.reviewer ELSE FinalAssignee(p)
  BY <1>1 DEF Stage, FinalAssignee
<1>4. Stage(inc, p, next)
  BY <1>1, <1>2, <1>3 DEF Stage, FinalAssignee
<1>5. next = "done" => Timeline(inc) = PlannedTimeline(p)
  <2>1. next = "done" => inc.status = p.status
    BY <1>2, <1>3
  <2> QED BY <2>1 DEF Timeline, PlannedTimeline, Marked
<1> QED BY <1>2, <1>4, <1>5 DEF next

LEMMA JobFiled ==
    ASSUME NEW inc, NEW p, Truthful(p), inc.status = "open", inc.assignee = NoReviewer,
           Marked(inc)
    PROVE  LET next == FollowingJob(p, "file")
           IN  /\ next \in {"claim", "done"}
               /\ Stage(inc, p, next)
               /\ next = "done" => Timeline(inc) = PlannedTimeline(p)
<1> DEFINE next == FollowingJob(p, "file")
<1>1. \/ next = "claim" /\ p.reviewer # NoReviewer
      \/ next = "done" /\ p.status = "open"
  BY NextJob DEF Jobs
<1>2. p.status = "open" => p.reviewer = NoReviewer /\ p.reassignee = NoReviewer
  BY DEF Truthful
<1> HIDE DEF next
<1>3. Stage(inc, p, next)
  BY <1>1, <1>2 DEF Stage, FinalAssignee
<1>4. next = "done" => Timeline(inc) = PlannedTimeline(p)
  BY <1>1 DEF Timeline, PlannedTimeline, Marked
<1> QED BY <1>1, <1>3, <1>4 DEF next

\* A task goes on only when it was answered, and from what the answer says.
LEMMA RunTaskFaithful ==
    ASSUME RunInv, WorkInv, Members, Marks, LateIsPlanned, Staged, Dated, DOMAIN known = Task,
           NEW t \in Task, RunTask(t)
    PROVE  Members' /\ Marks' /\ LateIsPlanned' /\ Staged' /\ Dated'
<1> DEFINE q == JobRequest(t)
           good == IF job[t] = "file" THEN 201 ELSE 200
<1>1. /\ pc = "incidents" /\ job[t] # "done" /\ UNCHANGED <<mode, plans, ids, user>>
      /\ pc' \in {"incidents", "ended"}
  BY DEF RunTask, between, accounts, Exit
<1>2. /\ Allowed(q) /\ q \in Requests /\ Tame(q)
      /\ q.op = job[t] /\ q.n = incident[t] /\ q.by = db.tenant
      /\ q.op = "assign" => q.who = plans[t].reassignee
  BY <1>1, JobIsTame
<1>3. PICK a \in {Lost, Reply(q)} :
        LET ok == a.code = (IF job[t] = "file" THEN 201 ELSE 200)
        IN  /\ Exchange(q, a)
            /\ IF ok \/ (a = Lost /\ jobTries[t] < Attempts)
               THEN UNCHANGED <<pc, tries, exit>> ELSE Exit("failed")
            /\ jobTries' = [jobTries EXCEPT ![t] = IF ok THEN 1 ELSE @ + 1]
            /\ job' = [job EXCEPT ![t] = IF ok THEN FollowingJob(plans[t], @) ELSE @]
            /\ incident' = [incident EXCEPT ![t] = IF ok THEN a.n ELSE @]
            /\ known' = [known EXCEPT ![t] = IF ok THEN Timeline(db'.incidents[a.n]) ELSE @]
  BY Zenon DEF RunTask
<1> HIDE DEF q
<1>4. pc \in Built /\ pc \in Crewed /\ pc \in Tasked /\ db \in Db /\ db.tenant # 0
      /\ ~db.stamped
  BY <1>1, RunFacts DEF Built, Crewed, Tasked, Members, WorkInv, WorkingFacts, Working, Seeding
<1>5. /\ Effect(db, db', q) /\ db' \in {db, Serve(db, q).db}
      /\ \A h \in late' : h \in late \/ h = q
      /\ a # Lost => db' = Serve(db, q).db /\ a = Reply(q)
  BY <1>2, <1>3, ExchangeServes
<1>6. Grows(db, db', q) /\ db'.stamped = db.stamped
  <2>1. Grows(db, db', q)
    BY <1>2, <1>4, <1>5, GrowsServed DEF Tame
  <2>2. Serve(db, q).db.stamped = db.stamped
    BY <1>2, <1>4, ServeOutcome DEF Outcome, Tame, Moves
  <2> QED BY <1>5, <2>1, <2>2
<1>7. /\ Marks' /\ db'.tenant = db.tenant
      /\ \A h \in late' : h.op \in Moves /\ h.by = db'.tenant => \E w \in Task : Planned(h, w)
      /\ \A w \in Task : job[w] # "file" =>
            /\ incident[w] \in DOMAIN db'.incidents
            /\ Stage(db'.incidents[incident[w]], plans[w], job[w])
  BY <1>1, <1>2, <1>4, <1>5, <1>6, ServedKeeps
<1>8. Members'
  <2>1. pc' \in Crewed \cup {"ended"}
    BY <1>1 DEF Crewed
  <2> QED BY <1>1, <1>4, <1>5, <2>1, CrewedMembers
<1>9. Dated'
  BY <1>1 DEF Dated
<1>10. job \in [Task -> Jobs] /\ incident \in [Task -> Nat]
  BY DEF WorkInv, TasksKnow
<1>11. CASE a.code # good
  <2>1. \A w \in Task : job'[w] = job[w] /\ incident'[w] = incident[w] /\ known'[w] = known[w]
    BY <1>3, <1>10, <1>11
  <2>2. LateIsPlanned'
    BY <1>1, <1>7, <2>1 DEF LateIsPlanned, Planned
  <2>3. OneIncident'
    BY <1>4, <2>1 DEF Staged, OneIncident
  <2>4. Staged'
    BY <1>1, <1>4, <1>7, <2>1, <2>3 DEF Staged, Tasked
  <2> QED BY <1>7, <1>8, <1>9, <2>2, <2>4
<1>12. CASE a.code = good
  <2>0. PICK n : n = a.n
    OBVIOUS
  <2> DEFINE next == FollowingJob(plans[t], job[t])
             inc == db'.incidents[n]
             p == plans[t]
  <2>1. /\ job'[t] = next /\ incident'[t] = n /\ known'[t] = Timeline(inc)
        /\ \A w \in Task \ {t} : /\ job'[w] = job[w] /\ incident'[w] = incident[w]
                                 /\ known'[w] = known[w]
    BY <1>3, <1>10, <1>12, <2>0
  <2>2. /\ a # Lost /\ db' = Serve(db, q).db
        /\ n = Serve(db, q).n /\ Serve(db, q).code = good
    <3>1. a # Lost
      BY <1>12 DEF Lost
    <3> QED BY <1>5, <1>12, <2>0, <3>1 DEF Reply
  <2>3. Truthful(p)
    BY CleanPlans
  <2>4. \A k \in DOMAIN db'.incidents : Marked(db'.incidents[k])
    BY <1>4, <1>6, <1>7 DEF Marks
  <2>5. /\ n \in DOMAIN db'.incidents /\ Stage(inc, p, next)
        /\ next \in {"claim", "assign", "close", "done"}
        /\ next = "done" => Timeline(inc) = PlannedTimeline(p)
        /\ job[t] \in {"assign", "close"} => next \in {"close", "done"}
        /\ job[t] = "close" => next = "done"
        /\ IF job[t] = "file" THEN n \notin DOMAIN db.incidents ELSE n = incident[t]
    <3>1. CASE job[t] = "file"
      <4>1. Serve(db, q) = FileIncident(db)
        BY <1>2, <3>1 DEF Serve
      <4>2. /\ n \in DOMAIN db'.incidents /\ n \notin DOMAIN db.incidents
            /\ inc.status = "open" /\ inc.assignee = NoReviewer
        BY <1>4, <2>2, <4>1, FileAnswer
      <4>3. Marked(inc)
        BY <2>4, <4>2
      <4> HIDE DEF inc, p
      <4> QED BY <2>3, <3>1, <4>2, <4>3, JobFiled DEF p
    <3>2. CASE job[t] # "file"
      <4>1. /\ job[t] \in {"claim", "assign", "close"}
            /\ q.n \in DOMAIN db.incidents /\ incident[t] \in DOMAIN db'.incidents
        BY <1>1, <1>2, <1>7, <1>10, <3>2 DEF Jobs, Tame, Moves
      <4>2. /\ n = incident[t]
            /\ job[t] = "claim" => inc.status = "in_review"
            /\ job[t] = "assign" => inc.assignee = p.reassignee
            /\ job[t] = "close" => inc.status = "closed"
        <5>1. CASE job[t] = "claim"
          <6>1. Serve(db, q) = MoveIncident(db, q.n, "in_review", q.who)
            BY <1>2, <5>1 DEF Serve
          <6> QED BY <1>2, <1>4, <2>2, <4>1, <5>1, <6>1, ClaimWrites
        <5>2. CASE job[t] = "close"
          <6>1. Serve(db, q) = MoveIncident(db, q.n, "closed", q.who)
            BY <1>2, <5>2 DEF Serve
          <6> QED BY <1>2, <1>4, <2>2, <4>1, <5>2, <6>1, CloseWrites
        <5>3. CASE job[t] = "assign"
          <6>1. Serve(db, q) = AssignIncident(db, q.n, q.who)
            BY <1>2, <5>3 DEF Serve
          <6> QED BY <1>2, <1>4, <2>2, <4>1, <5>3, <6>1, AssignWrites
        <5> QED BY <4>1, <5>1, <5>2, <5>3
      <4>3. Stage(inc, p, job[t]) /\ Marked(inc)
        BY <1>7, <2>4, <3>2, <4>1, <4>2
      <4> HIDE DEF inc, p
      <4> QED BY <2>3, <3>2, <4>1, <4>2, <4>3, JobAnswered DEF p
    <3> QED BY <3>1, <3>2
  <2> HIDE DEF next, inc, p
  <2>6. \A w \in Task \ {t} : job[w] # "file" => incident[w] # n
    BY <1>4, <2>5 DEF Staged, OneIncident
  <2>7. OneIncident'
    BY <1>4, <2>1, <2>5, <2>6 DEF Staged, OneIncident
  <2>8. ASSUME NEW w \in Task, job'[w] # "file"
        PROVE  /\ incident'[w] \in DOMAIN db'.incidents
               /\ Stage(db'.incidents[incident'[w]], plans'[w], job'[w])
               /\ job'[w] = "done" => known'[w] = PlannedTimeline(plans'[w])
    <3>1. CASE w = t
      BY <1>1, <2>1, <2>5, <3>1 DEF inc, p
    <3>2. CASE w # t
      BY <1>1, <1>4, <1>7, <2>1, <2>8, <3>2 DEF Staged
    <3> QED BY <3>1, <3>2
  <2>9. Staged'
    BY <1>1, <2>7, <2>8 DEF Staged, Tasked
  <2>10. LateIsPlanned'
    <3> SUFFICES ASSUME NEW h \in late', h.op \in Moves, h.by = db'.tenant
                 PROVE  \E w \in Task : Planned(h, w)'
      BY DEF LateIsPlanned
    <3>1. PICK w \in Task : Planned(h, w)
      BY <1>7
    <3>2. CASE w # t
      <4>1. job'[w] = job[w] /\ incident'[w] = incident[w] /\ plans' = plans
        BY <1>1, <2>1, <3>2
      <4>2. Planned(h, w)'
        BY <3>1, <4>1 DEF Planned
      <4> QED BY <4>2
    <3>3. CASE w = t
      <4>1. /\ job'[t] = next /\ incident'[t] = incident[t] /\ plans' = plans
            /\ job[t] # "file" /\ next # "file"
            /\ job[t] = "done" => FALSE
        BY <1>1, <2>1, <2>5, <3>1, <3>3 DEF Planned
      <4>2. Planned(h, t)'
        BY <2>5, <3>1, <3>3, <4>1 DEF Planned
      <4> QED BY <4>2
    <3> QED BY <3>2, <3>3
  <2> QED BY <1>7, <1>8, <1>9, <2>9, <2>10
<1> QED BY <1>11, <1>12

\* The backfill dates each incident by the plan of its task, and changes nothing else of it.
LEMMA StampedOf ==
    ASSUME RunInv, WorkInv, Marks, Staged, pc = "backfill", NEW t \in Task
    PROVE  LET k == incident[t]
               x == db.incidents[k]
               y == Stamped(db)[k]
           IN  /\ k \in DOMAIN db.incidents
               /\ y.status = x.status /\ y.assignee = x.assignee
               /\ <<y.created, y.reviewed, y.closed>>
                  = <<plans[t].created, plans[t].review, plans[t].closed>>
<1> DEFINE k == incident[t]
           x == db.incidents[k]
           y == Stamped(db)[k]
           p == plans[t]
<1>1. /\ k \in DOMAIN db.incidents /\ Stage(x, p, "done")
      /\ known[t] = PlannedTimeline(p)
  BY DEF Staged, Tasked, Gathering
<1>2. \A w \in Task : incident[w] = k => w = t
  BY DEF Staged, Tasked, Gathering, OneIncident
<1>3. y = Stamp(x, p, known[t], seen[t])
  <2>1. \E w \in Task : incident[w] = k
    OBVIOUS
  <2>2. (CHOOSE w \in Task : incident[w] = k) = t
    BY <1>2
  <2> QED BY <1>1, <2>1, <2>2 DEF Stamped
<1>4. x \in Incident
  <2>1. db.incidents \in Seq(Incident)
    BY RunFacts DEF Db
  <2> QED BY <1>1, <2>1, ElementOf
<1>5. Marked(x)
  BY <1>1 DEF Marks, WorkInv, WorkingFacts, Working
<1>6. Truthful(p)
  BY CleanPlans
<1> HIDE DEF x, y, p
<1>7. y.status = x.status /\ y.assignee = x.assignee
  BY <1>3, <1>4 DEF Stamp, Incident
<1>8. /\ "in_review" \in known[t] <=> p.review # Never
      /\ "closed" \in known[t] <=> p.closed # Never
  BY <1>1, <1>6 DEF PlannedTimeline, Truthful
<1>9. /\ x.status = p.status
      /\ x.reviewed # Never <=> x.status # "open"
      /\ x.closed # Never <=> x.status = "closed"
  BY <1>1, <1>5 DEF Stage, Marked
<1>10. /\ p.review = Never => x.reviewed = Never
       /\ p.closed = Never => x.closed = Never
  BY <1>6, <1>9 DEF Truthful
<1>11. y.created = p.created /\ y.reviewed = p.review /\ y.closed = p.closed
  BY <1>3, <1>4, <1>8, <1>10, StampFields
<1> QED BY <1>1, <1>7, <1>11 DEF x, y, p

LEMMA BackfillFaithful ==
    ASSUME RunInv, WorkInv, Members, Marks, LateIsPlanned, Staged, Backfill
    PROVE  Members' /\ Marks' /\ LateIsPlanned' /\ Staged' /\ Dated'
<1> DEFINE rewritten == Stamped(db)
           e == [db EXCEPT !.incidents = rewritten, !.stamped = TRUE]
<1>1. /\ pc = "backfill"
      /\ UNCHANGED <<late, mode, ids, user, plans, job, incident, known>>
      /\ \/ db' = e /\ pc' = "verify"
         \/ db' = db /\ pc' = "ended"
  BY DEF Backfill, Goto, Exit, between, accounts, tasks
<1>2. CASE db' = db /\ pc' = "ended"
  BY <1>1, <1>2, MembersKept
     DEF Members, Marks, LateIsPlanned, Staged, Dated, Built, Crewed, Tasked
<1>3. CASE db' = e /\ pc' = "verify"
  <2>1. /\ e.tenant = db.tenant /\ e.row = db.row /\ e.incidents = rewritten
        /\ e.stamped = TRUE
    <3> HIDE DEF rewritten
    <3> QED BY RunFacts DEF Db
  <2> HIDE DEF e
  <2>2. db'.tenant = db.tenant /\ db'.row = db.row /\ db'.incidents = rewritten /\ db'.stamped
    BY <1>3, <2>1
  <2>3. Members'
    BY <1>1, <1>3, <2>2, MembersKept DEF Built, Crewed
  <2>4. Marks'
    BY <2>2 DEF Marks
  <2>5. LateIsPlanned'
    BY <1>1, <2>2 DEF LateIsPlanned, Planned, Built, Crewed
  <2>6. DOMAIN rewritten = DOMAIN db.incidents
    BY StampedFacts
  <2>7. /\ OneIncident /\ Gathering
        /\ \A t \in Task : /\ incident[t] \in DOMAIN db.incidents
                           /\ Stage(db.incidents[incident[t]], plans[t], "done")
                           /\ known[t] = PlannedTimeline(plans[t])
    BY <1>1 DEF Staged, Tasked, Gathering
  <2>8. \A t \in Task : LET x == db.incidents[incident[t]]
                            y == rewritten[incident[t]]
                        IN  /\ y.status = x.status /\ y.assignee = x.assignee
                            /\ <<y.created, y.reviewed, y.closed>>
                               = <<plans[t].created, plans[t].review, plans[t].closed>>
    BY <1>1, StampedOf
  <2> HIDE DEF rewritten
  <2>9. Staged'
    <3>1. OneIncident' /\ Gathering'
      BY <1>1, <2>7 DEF OneIncident, Gathering
    <3>2. \A t \in Task : Stage(rewritten[incident[t]], plans[t], "done")
      BY <2>7, <2>8 DEF Stage
    <3>3. \A t \in Task : job'[t] = "done"
      BY <1>1, <2>7 DEF Gathering
    <3> QED BY <1>1, <2>2, <2>6, <2>7, <3>1, <3>2, <3>3 DEF Staged
  <2>10. Dated'
    BY <1>1, <2>2, <2>8 DEF Dated
  <2> QED BY <2>3, <2>4, <2>5, <2>9, <2>10
<1> QED BY <1>1, <1>2, <1>3

LEMMA ReadingFaithful ==
    ASSUME Members, Marks, LateIsPlanned, Staged, Dated,
           \/ Preflight \/ FindTenant \/ Purged \/ Gathered \/ AgeNotifications
           \/ ReadNotifications \/ Verify \/ GiveUp \/ Crash
    PROVE  Members' /\ Marks' /\ LateIsPlanned' /\ Staged' /\ Dated'
<1> USE DEF Goto, Exit, StartSeeding, server, between, accounts, tasks
<1>1. UNCHANGED <<db, late, mode, plans, job, incident, known>>
  BY DEF Preflight, FindTenant, Purged, Gathered, AgeNotifications, ReadNotifications,
         Verify, GiveUp, Crash
<1>2. /\ pc' \in Built => pc \in Built /\ UNCHANGED <<ids, user>>
      /\ pc' \in Crewed => pc \in Crewed
      /\ pc' \in Tasked => pc \in Tasked
      /\ pc' \in Tasked /\ pc' # "incidents" => pc # "incidents" \/ Gathering
      /\ pc' = "verify" /\ mode.backfill => pc = "verify"
  BY DEF Preflight, FindTenant, Purged, Gathered, AgeNotifications, ReadNotifications,
         Verify, GiveUp, Crash, Built, Crewed, Tasked, Gathering
<1>3. Members'
  BY <1>1, <1>2 DEF Members, Joined
<1> QED BY <1>1, <1>2, <1>3, StillKeeps

\* The requests of the script before its tasks.
LEMMA ProvisioningFaithful ==
    ASSUME RunInv, WorkInv, Members, Marks, LateIsPlanned,
           \/ \E id \in listed : PurgeAccount(id)
           \/ Register \/ GiveAdminPassword \/ CreateAccount \/ Provision \/ AddCategory
    PROVE  Members' /\ Marks' /\ LateIsPlanned' /\ Staged' /\ Dated'
<1>0. Admin \in Mailbox /\ ids[Admin] \in Nat /\ 0 \in Nat
      /\ NoReviewer \in Reviewer \cup {NoReviewer}
  BY DEF Mailbox, RunInv, ScriptIsCareful
<1>1. ASSUME NEW q, Allowed(q), q.op \notin IncidentOps, NEW a, Exchange(q, a),
             pc \in Early, pc' \in Early \cup {"incidents", "ended"},
             UNCHANGED <<plans, job, incident>>, Members', pc' \in Built => pc \in Built
      PROVE  Members' /\ Marks' /\ LateIsPlanned' /\ Staged' /\ Dated'
  BY <1>1, QuietKeeps
<1>2. ASSUME NEW id \in listed, PurgeAccount(id)
      PROVE  Members' /\ Marks' /\ LateIsPlanned' /\ Staged' /\ Dated'
  <2>0. PICK q : q = Request("delete", 0, Admin, id, NoReviewer)
    OBVIOUS
  <2>1. /\ pc = "accounts" /\ pc' \in {"accounts", "ended"} /\ UNCHANGED <<plans, job, incident>>
        /\ \E a : Exchange(q, a)
    BY <1>2, <2>0 DEF PurgeAccount, Advance, Goto, Exit, between, tasks
  <2>2. Allowed(q) /\ q.op = "delete"
    BY <2>0, <2>1, PurgeRequest
  <2>3. Members'
    BY <2>1 DEF Members, Built, Crewed
  <2> QED BY <1>1, <2>1, <2>2, <2>3 DEF IncidentOps, Early, Built, Crewed
<1>3. CASE Register
  <2>0. PICK q : q = Request("register", 0, Admin, 0, NoReviewer)
    OBVIOUS
  <2>1. Allowed(q) /\ q.op = "register"
    BY <1>0, <2>0, RequestType
  <2>2. /\ pc = "register" /\ pc' \in {"register", "password", "ended"}
        /\ UNCHANGED <<plans, job, incident>> /\ \E a : Exchange(q, a)
    BY <1>3, <2>0 DEF Register, Advance, Goto, Exit, between, tasks
  <2>3. Marks' /\ Staged' /\ Dated'
    BY <2>1, <2>2, QuietKeeps DEF IncidentOps, Early
  <2> QED BY <1>3, <2>3, RegisterJoins
<1>4. CASE GiveAdminPassword
  <2>0. PICK q : q = Request("password", 0, Admin, ids[Admin], NoReviewer)
    OBVIOUS
  <2>1. Allowed(q) /\ q.op = "password"
    BY <1>0, <2>0, RequestType
  <2>2. /\ pc = "password" /\ pc' \in {"password", "create", "category", "ended"}
        /\ UNCHANGED <<plans, job, incident>> /\ \E a : Exchange(q, a)
    BY <1>4, <2>0 DEF GiveAdminPassword, Advance, Goto, Exit, between, tasks
  <2> QED BY <1>1, <1>4, <2>1, <2>2, PasswordJoins DEF IncidentOps, Early, Built, Crewed
<1>5. CASE CreateAccount
  <2>0. PICK q : q = Request("create", 0, Users[user], 0, NoReviewer)
    OBVIOUS
  <2>1. pc = "create" /\ Users[user] \in Mailbox
    BY <1>5, UserFacts DEF CreateAccount
  <2>2. Allowed(q) /\ q.op = "create"
    BY <1>0, <2>0, <2>1, RequestType
  <2>3. /\ pc' \in {"create", "invite", "ended"}
        /\ UNCHANGED <<plans, job, incident>> /\ \E a : Exchange(q, a)
    BY <1>5, <2>0, <2>1 DEF CreateAccount, Advance, Goto, Exit, between, tasks
  <2> QED BY <1>1, <1>5, <2>1, <2>2, <2>3, CreateAccountJoins DEF IncidentOps, Early, Built,
             Crewed
<1>6. CASE Provision
  <2>0. PICK q : q = Request("invite", ids[Admin], Users[user], 0, NoReviewer)
    OBVIOUS
  <2>1. pc = "invite"
    BY <1>6 DEF Provision
  <2>2. Allowed(q) /\ q.op = "invite"
    BY <2>0, <2>1, InviteRequest
  <2>3. /\ pc' \in {"create", "invite", "category", "ended"}
        /\ UNCHANGED <<plans, job, incident>> /\ \E a : Exchange(q, a)
    BY <1>6, <2>0, <2>1 DEF Provision, Advance, Goto, Exit, between, tasks
  <2> QED BY <1>1, <1>6, <2>1, <2>2, <2>3, ProvisionJoins DEF IncidentOps, Early, Built, Crewed
<1>7. CASE AddCategory
  <2>0. PICK q : q = Request("category", ids[Admin], Admin, 0, NoReviewer)
    OBVIOUS
  <2>1. Allowed(q) /\ q.op = "category"
    BY <1>0, <2>0, RequestType
  <2>2. /\ pc = "category" /\ pc' \in {"category", "incidents", "ended"}
        /\ UNCHANGED <<plans, job, incident>> /\ \E a : Exchange(q, a)
    BY <1>7, <2>0 DEF AddCategory, Advance, Goto, Exit, between, tasks
  <2> QED BY <1>1, <1>7, <2>1, <2>2, CategoryJoins DEF IncidentOps, Early, Built, Crewed
<1> QED BY <1>2, <1>3, <1>4, <1>5, <1>6, <1>7

\* Between runs, and where the purge empties the organisation.
LEMMA BetweenRunsFaithful ==
    ASSUME RunInv, Marks, (\E m \in Modes : StartRun(m)) \/ PurgeRows \/ Rename
    PROVE  Members' /\ Marks' /\ LateIsPlanned' /\ Staged' /\ Dated'
<1>1. pc' \in {"preflight", "accounts", "ended"}
  BY DEF StartRun, PurgeRows, Rename, Goto
<1>2. Members' /\ LateIsPlanned' /\ Staged' /\ Dated'
  BY <1>1 DEF Members, LateIsPlanned, Staged, Dated, Built, Crewed, Tasked
<1>3. db \in Db
  BY RunFacts
<1>4. \/ db'.stamped = db.stamped /\ db'.incidents = db.incidents
      \/ db'.incidents = << >>
  <2>1. CASE Rename
    <3>1. PICK same : db' = [db EXCEPT !.tenant = 0, !.folded = same, !.row = NoMailboxes,
                             !.category = FALSE, !.incidents = << >>, !.stamped = FALSE]
      BY <2>1 DEF Rename
    <3> QED BY <1>3, <3>1 DEF Db
  <2>2. CASE PurgeRows
    <3>1. \/ db' = db
          \/ db' = [db EXCEPT !.tenant = 0, !.row = NoMailboxes, !.category = FALSE,
                              !.incidents = << >>, !.stamped = FALSE]
      BY <2>2 DEF PurgeRows
    <3> QED BY <1>3, <3>1 DEF Db
  <2>3. CASE \E m \in Modes : StartRun(m)
    BY <2>3 DEF StartRun
  <2> QED BY <2>1, <2>2, <2>3
<1> QED BY <1>2, <1>4 DEF Marks

\* A run has no outcome before its end.
LEMMA ExitKept ==
    ASSUME pc # "ended" => exit = "none", [Next]_vars
    PROVE  pc' # "ended" => exit' = "none"
<1> USE DEF Exit, Goto, Advance, StartSeeding
<1>1. CASE Script
  <2>1. CASE \/ Preflight \/ FindTenant \/ PurgeRows \/ Purged \/ Gathered \/ AgeNotifications
             \/ ReadNotifications \/ Backfill \/ Verify \/ GiveUp
    BY <2>1 DEF Preflight, FindTenant, PurgeRows, Purged, Gathered, AgeNotifications,
                ReadNotifications, Backfill, Verify, GiveUp
  <2>2. CASE \/ \E id \in listed : PurgeAccount(id)
             \/ Register \/ GiveAdminPassword \/ CreateAccount \/ Provision \/ AddCategory
    <3>1. \/ pc' = "ended"
          \/ exit' = exit /\ pc # "ended"
      BY <2>2 DEF PurgeAccount, Register, GiveAdminPassword, CreateAccount, Provision,
                  AddCategory
    <3> QED BY <3>1
  <2>3. CASE \E t \in Task : RunTask(t)
    BY <2>3 DEF RunTask
  <2> QED BY <1>1, <2>1, <2>2, <2>3 DEF Script
<1>2. CASE \/ \E m \in Modes : StartRun(m)
           \/ Crash \/ SignUp \/ Rename \/ Terminating \/ UNCHANGED vars
           \/ \E q \in late : Land(q)
  BY <1>2 DEF StartRun, Crash, SignUp, Rename, Terminating, Land, vars
<1> QED BY <1>1, <1>2 DEF Next
-----------------------------------------------------------------------------
Trusty == SeedInv /\ DOMAIN known = Task /\ Faithful

LEMMA InitTrusty == Init => Trusty
<1> SUFFICES ASSUME Init PROVE DOMAIN known = Task /\ Faithful
  BY InitSeed DEF Trusty
<1>1. /\ pc = "ended" /\ exit = "none" /\ known = [t \in Task |-> {}]
      /\ db.incidents = << >>
  BY DEF Init
<1>2. Members /\ LateIsPlanned /\ Staged /\ Dated
  BY <1>1 DEF Members, LateIsPlanned, Staged, Dated, Built, Crewed, Tasked
<1>3. Marks
  BY <1>1 DEF Marks
<1> QED BY <1>1, <1>2, <1>3 DEF Faithful

LEMMA StepTrusty == Trusty /\ [Next]_vars => Trusty'
<1> SUFFICES ASSUME Trusty, [Next]_vars
             PROVE  Members' /\ Marks' /\ LateIsPlanned' /\ Staged' /\ Dated'
  BY StepSeed, KnownKept, ExitKept DEF Trusty, Faithful
<1>1. /\ RunInv /\ WorkInv /\ Members /\ Marks /\ LateIsPlanned /\ Staged /\ Dated
      /\ DOMAIN known = Task
  BY DEF Trusty, Faithful, SeedInv
<1>2. CASE \/ Preflight \/ FindTenant \/ Purged \/ Gathered \/ AgeNotifications
           \/ ReadNotifications \/ Verify \/ GiveUp \/ Crash
  BY <1>1, <1>2, ReadingFaithful
<1>3. CASE \/ \E id \in listed : PurgeAccount(id)
           \/ Register \/ GiveAdminPassword \/ CreateAccount \/ Provision \/ AddCategory
  BY <1>1, <1>3, ProvisioningFaithful
<1>4. ASSUME NEW t \in Task, RunTask(t)
      PROVE  Members' /\ Marks' /\ LateIsPlanned' /\ Staged' /\ Dated'
  BY <1>1, <1>4, RunTaskFaithful
<1>5. CASE Backfill
  BY <1>1, <1>5, BackfillFaithful
<1>6. CASE PurgeRows \/ Rename \/ \E m \in Modes : StartRun(m)
  BY <1>1, <1>6, BetweenRunsFaithful
<1>7. ASSUME NEW q \in late, Land(q)
      PROVE  Members' /\ Marks' /\ LateIsPlanned' /\ Staged' /\ Dated'
  BY <1>1, <1>7, LandFaithful
<1>8. CASE SignUp \/ Terminating \/ UNCHANGED vars
  <2>1. /\ UNCHANGED <<db, late, plans, mode, job, incident, known>>
        /\ UNCHANGED <<pc, ids, user>>
    BY <1>8 DEF SignUp, Terminating, vars, server, between, accounts, tasks
  <2>2. Members'
    BY <1>1, <2>1 DEF Members, Joined
  <2> QED BY <1>1, <2>1, <2>2, StillKeeps
<1> QED BY <1>2, <1>3, <1>4, <1>5, <1>6, <1>7, <1>8 DEF Next, Script

\* Each status has as many incidents as tasks, and every task has an incident of its
\* own that is where it should be: no incident is left over.
LEMMA CountsLeaveNoOther ==
    ASSUME db \in Db, DOMAIN plans = Task, \A t \in Task : plans[t].status \in PlanStatus,
           \A t \in Task : /\ incident[t] \in DOMAIN db.incidents
                           /\ db.incidents[incident[t]].status = plans[t].status,
           \A t, w \in Task : incident[t] = incident[w] => t = w,
           Distribution(db) = StatusCounts(plans)
    PROVE  Cardinality(DOMAIN db.incidents) = Cardinality(Task)
<1> DEFINE D == DOMAIN db.incidents
           f == [t \in Task |-> incident[t]]
<1>1. IsFiniteSet(D)
  <2>1. D = 1..Len(db.incidents) /\ Len(db.incidents) \in Nat
    BY DEF Db
  <2> QED BY <2>1, FS_Interval
<1>2. f \in Injection(Task, D)
  BY DEF Injection, IsInjective
<1>3. ASSUME NEW k \in D PROVE \E t \in Task : incident[t] = k
  <2>1. PICK s \in PlanStatus : db.incidents[k].status = s
    <3>1. db.incidents \in Seq(Incident) /\ k \in DOMAIN db.incidents
      BY <1>3 DEF Db
    <3>2. db.incidents[k] \in Incident
      BY <3>1, ElementOf
    <3> QED BY <3>2 DEF Incident
  <2> DEFINE T == {t \in DOMAIN plans : plans[t].status = s}
             K == {j \in DOMAIN db.incidents : db.incidents[j].status = s}
             g == [t \in T |-> incident[t]]
  <2>2. Cardinality(T) = Cardinality(K)
    BY DEF Distribution, StatusCounts
  <2>3. g \in Injection(T, K)
    BY DEF Injection, IsInjective
  <2>4. IsFiniteSet(K)
    BY <1>1, FS_Subset
  <2>5. k \in K
    BY <2>1
  <2>6. \A t \in T : t \in Task /\ g[t] = incident[t]
    OBVIOUS
  <2> HIDE DEF T, K, g
  <2>7. g \in Surjection(T, K)
    BY <2>2, <2>3, <2>4, FS_Injection
  <2> QED BY <2>5, <2>6, <2>7 DEF Surjection
<1>4. f \in Surjection(Task, D)
  BY <1>2, <1>3 DEF Surjection, Injection
<1> HIDE DEF D, f
<1>5. Cardinality(Task) = Cardinality(D)
  BY <1>1, <1>2, <1>4, FS_Injection
<1> QED BY <1>5 DEF D

\* What a run finds that has come to its verification with the counts it wants.
LEMMA VerifiedIsExact ==
    ASSUME Trusty, pc = "verify", Distribution(db) = StatusCounts(plans)
    PROVE  Exact
<1>1. /\ RunInv /\ WorkInv /\ Members /\ Staged /\ Dated /\ db \in Db
  BY RunFacts DEF Trusty, Faithful, SeedInv
<1>2. /\ OneIncident /\ Gathering
      /\ \A t \in Task : job[t] # "file" =>
            /\ incident[t] \in DOMAIN db.incidents
            /\ Stage(db.incidents[incident[t]], plans[t], job[t])
  BY <1>1 DEF Staged, Tasked
<1>3. \A t \in Task : /\ incident[t] \in DOMAIN db.incidents
                      /\ db.incidents[incident[t]].status = plans[t].status
                      /\ db.incidents[incident[t]].assignee = FinalAssignee(plans[t])
  BY <1>2 DEF Gathering, Stage
<1>4. \A t, w \in Task : incident[t] = incident[w] => t = w
  BY <1>2 DEF Gathering, OneIncident
<1>5. mode.backfill => \A t \in Task :
          LET inc == db.incidents[incident[t]]
          IN  <<inc.created, inc.reviewed, inc.closed>>
              = <<plans[t].created, plans[t].review, plans[t].closed>>
  BY <1>1 DEF Dated
<1>6. Cardinality(DOMAIN db.incidents) = Cardinality(Task)
  <2>1. DOMAIN plans = Task
    BY <1>1, RunAssumption DEF WorkInv, TasksKnow
  <2>2. \A t \in Task : plans[t].status \in PlanStatus
    BY <1>1, CleanPlans DEF WorkInv, TasksKnow, Truthful, Plan
  <2> QED BY <1>1, <1>3, <1>4, <2>1, <2>2, CountsLeaveNoOther
<1>7. db.row = ids /\ db.account = ids
  <2>1. \A m \in Mailbox : Joined(m)
    BY <1>1 DEF Members, Built, Crewed, Mailbox
  <2>2. /\ db.row \in [Mailbox -> Nat] /\ db.account \in [Mailbox -> Nat]
        /\ ids \in [Mailbox -> Nat]
        /\ ids[Admin] \in {0, told}
        /\ \A m \in Mailbox : /\ db.account[m] \in Nat /\ db.row[m] \in Nat
                              /\ db.row[m] # 0 => db.account[m] = db.row[m]
                                                 \/ (m = Admin /\ db.row[m] # told)
    BY <1>1, RunFacts DEF RunInv, Sound, Kept, ScriptIsCareful, Db
  <2>3. \A m \in Mailbox : db.row[m] = ids[m] /\ db.account[m] = ids[m]
    BY <2>1, <2>2 DEF Joined
  <2> QED BY <2>2, <2>3
<1> QED BY <1>3, <1>4, <1>5, <1>6, <1>7 DEF Exact

\* A run that reports success has carried out its plan and nothing else, although its
\* requests were sent twice, landed late, in another run or in another order, and whatever
\* runs before it left behind (execute_incident, provision_org, verify).
THEOREM SuccessIsThePlan == Spec => SuccessMeansPlan
<1>1. Trusty /\ [Next]_vars => [pc = "verify" /\ exit' = "ok" => Exact]_vars
  <2> SUFFICES ASSUME Trusty, [Next]_vars, pc = "verify", exit' = "ok"
               PROVE  Exact
    OBVIOUS
  <2>1. exit = "none"
    BY DEF Trusty, Faithful
  <2>2. Verify
    <3>1. CASE UNCHANGED exit
      BY <2>1, <3>1
    <3>2. CASE GiveUp \/ Crash
      BY <3>2 DEF GiveUp, Crash, Exit
    <3>3. CASE (\E q \in late : Land(q)) \/ SignUp \/ Rename \/ Terminating
      BY <3>1, <3>3 DEF Land, SignUp, Rename, Terminating, vars
    <3>4. CASE \E m \in Modes : StartRun(m)
      BY <3>4 DEF StartRun
    <3>5. CASE /\ Script /\ ~GiveUp
      BY <3>5 DEF Script, Preflight, FindTenant, PurgeRows, PurgeAccount, Purged, Register,
                  GiveAdminPassword, CreateAccount, Provision, AddCategory, RunTask, Gathered,
                  AgeNotifications, ReadNotifications, Backfill
    <3> QED BY <3>1, <3>2, <3>3, <3>4, <3>5 DEF Next, vars
  <2>3. Distribution(db) = StatusCounts(plans)
    BY <2>2 DEF Verify, Exit
  <2> QED BY <2>3, VerifiedIsExact
<1> QED BY <1>1, InitTrusty, StepTrusty, PTL DEF Spec, SuccessMeansPlan
=============================================================================
