------------------------------- MODULE SeedPlan -------------------------------
(***************************************************************************)
(* The plan of the demo data and the history its backfill writes: pure     *)
(* functions of scripts/seed_fixtures.py, seed_demo.py and seed_db.py.     *)
(*                                                                         *)
(* Instants are numbers.  The planned ones lie below Now, the moment the   *)
(* plan is drawn; what the API writes is dated Now or later.  The random   *)
(* draws are arguments.                                                    *)
(***************************************************************************)
EXTENDS Integers, FiniteSets

CONSTANTS
    Now,         \* ceiling of every planned instant
    Reviewer,    \* the organisation's reviewers
    NoReviewer

ASSUME PlanAssumption ==
    /\ Now \in Nat \ {0}
    /\ NoReviewer \notin Reviewer

\* None, in a field that holds an instant.
Never == 0

PlanStatus == {"open", "in_review", "closed"}

\* What is drawn for one incident: gaps (an hour at least) and who acts.
Draw == {d \in [review : Nat \ {0}, reassign : Nat \ {0}, close : Nat \ {0},
                moves : BOOLEAN, reviewer : Reviewer, other : Reviewer] : d.reviewer # d.other}

Plan == [status : PlanStatus,
         created : Nat, review : Nat, reassign : Nat, closed : Nat,
         reviewer : Reviewer \cup {NoReviewer}, reassignee : Reviewer \cup {NoReviewer},
         closer : Reviewer \cup {NoReviewer}]

\* An IncidentPlan before _fill_workflow.
OpenPlan(created) ==
    [status |-> "open",
     created |-> created, review |-> Never, reassign |-> Never, closed |-> Never,
     reviewer |-> NoReviewer, reassignee |-> NoReviewer, closer |-> NoReviewer]

\* Steps that would not lie before Now are left out, and the plan is demoted to
\* the status the others reach.
FillWorkflow(wanted, created, d) ==
    LET review == created + d.review
        moved == d.moves /\ review + d.reassign < Now
        closed == review + (IF moved THEN d.reassign ELSE 0) + d.close
        reviewed == [OpenPlan(created) EXCEPT
                        !.status = "in_review", !.review = review, !.reviewer = d.reviewer,
                        !.reassign = IF moved THEN review + d.reassign ELSE Never,
                        !.reassignee = IF moved THEN d.other ELSE NoReviewer]
    IN  IF wanted = "open" \/ review >= Now THEN OpenPlan(created)
        ELSE IF wanted = "in_review" \/ closed >= Now THEN reviewed
        ELSE [reviewed EXCEPT !.status = "closed", !.closed = closed,
                              !.closer = IF moved THEN d.other ELSE d.reviewer]

\* Whoever is assigned once the plan has been carried out.
FinalAssignee(p) == IF p.reassignee # NoReviewer THEN p.reassignee ELSE p.reviewer

\* IncidentPlan.event_times and .updated_at.
EventTimes(p) == {p.review, p.reassign, p.closed} \ {Never}

UpdatedAt(p) ==
    CHOOSE t \in {p.created} \cup EventTimes(p) : \A u \in {p.created} \cup EventTimes(p) : u <= t

\* A plan that can be carried out: its steps lie after one another and before Now,
\* and each is there exactly when the plan's status needs it.
Truthful(p) ==
    /\ p \in Plan
    /\ 0 < p.created /\ p.created < Now
    /\ p.review # Never <=> p.status # "open"
    /\ p.closed # Never <=> p.status = "closed"
    /\ p.reassign # Never => p.review # Never
    /\ p.review # Never => p.created < p.review /\ p.review < Now
    /\ p.reassign # Never => p.review < p.reassign /\ p.reassign < Now
    /\ p.closed # Never => p.review < p.closed /\ p.reassign < p.closed /\ p.closed < Now
    /\ p.reviewer # NoReviewer <=> p.review # Never
    /\ p.reassignee # NoReviewer <=> p.reassign # Never
    /\ p.closer = IF p.closed = Never THEN NoReviewer ELSE FinalAssignee(p)

\* OrgPlan.status_counts.
StatusCounts(plans) ==
    [s \in PlanStatus |-> Cardinality({t \in DOMAIN plans : plans[t].status = s})]

\* age_notifications: two fifths stay unread, and one in any case.
KeepUnread(n) ==
    LET share == (2 * n) \div 5
    IN  IF n > 0 /\ share = 0 THEN 1 ELSE share
-----------------------------------------------------------------------------
(***************************************************************************)
(* An incident row with its timeline (reviewed, closed: created_at of the  *)
(* row that reached the status) and its notifications, in insertion order. *)
(***************************************************************************)
NoteKind == {"in_review", "reassigned", "closed"}

\* build_stamps: the instant planned for a notification, by its kind.
NoteTime(p, kind) ==
    LET planned == CASE kind = "in_review"  -> p.review
                     [] kind = "reassigned" -> p.reassign
                     [] kind = "closed"     -> p.closed
    IN  IF planned = Never THEN UpdatedAt(p) ELSE planned

\* The transitions in known and the first n notifications get their stamps.
Stamp(inc, p, known, n) ==
    [inc EXCEPT
        !.created = p.created,
        !.updated = UpdatedAt(p),
        !.reviewed = IF "in_review" \in known /\ p.review # Never THEN p.review ELSE @,
        !.closed = IF "closed" \in known /\ p.closed # Never THEN p.closed ELSE @,
        !.notes = [k \in DOMAIN inc.notes |->
                      IF k <= n THEN [inc.notes[k] EXCEPT !.at = NoteTime(p, inc.notes[k].kind)]
                      ELSE inc.notes[k]]]

Within(inc, t) == inc.created <= t /\ t <= inc.updated

\* The checks of _verify on one incident and its timeline ...
Timely(inc, now) ==
    /\ inc.created <= inc.updated
    /\ inc.created <= now
    /\ \A t \in {inc.reviewed, inc.closed} \ {Never} : Within(inc, t)
    /\ (inc.reviewed # Never /\ inc.closed # Never) => inc.reviewed # inc.closed

\* ... and on its notifications.
Verified(inc, now) ==
    /\ Timely(inc, now)
    /\ \A k \in DOMAIN inc.notes : Within(inc, inc.notes[k].at)
=============================================================================
