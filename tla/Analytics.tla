----------------------------- MODULE Analytics ------------------------------
(***************************************************************************)
(* The weekly volume chart (GET /analytics/volume): how many incidents     *)
(* were created in each ISO week of a window, in the organisation's own    *)
(* time zone, while incidents are filed, the zone is changed and the clock *)
(* runs.                                                                   *)
(*                                                                         *)
(* Days count from date.min, a Monday, so Mondays are the multiples of 7.  *)
(* Instants are UTC.  LocalDay and Midnight are what the time zone         *)
(* database says of them.                                                  *)
(***************************************************************************)
EXTENDS Integers, FiniteSets

CONSTANTS
    Tenant,
    AllTenants,      \* the scope of a System Admin, and no tenant_id in the query
    Zone, PlatformZone,
    LastDay,         \* date.max
    Instant, Start,  \* the instants the clock can show, the first one
    LocalDay,        \* LocalDay[z][t]: the date in zone z at instant t
    Midnight,        \* Midnight[z][d]: the instant at which day d begins in zone z
    DefaultWeeks, MaxWeeks,
    Incident, OwnerOf, SeverityOf,
    Severity, AnySeverity,
    Request, Calls,
    NoDay,           \* a date left out of the query
    NoWindow,
    InitialZone,     \* tenants.timezone when the run starts
    MaxZoneChanges   \* bound on changes of a tenant's zone

Day == 0..LastDay
Monday == {d \in Day : d % 7 = 0}

Call == [scope : Tenant \cup {AllTenants}, tenant_id : Tenant \cup {AllTenants},
         from : Day \cup {NoDay}, to : Day \cup {NoDay},
         severity : Severity \cup {AnySeverity}]

\* A zone's date never goes back, and no clock change straddles the midnight
\* that begins a Monday.
ASSUME CalendarAssumption ==
    /\ LastDay \in Nat
    /\ Instant \subseteq Nat
    /\ Start \in Instant
    /\ PlatformZone \in Zone
    /\ LocalDay \in [Zone -> [Instant -> Day]]
    /\ \A z \in Zone : \A s, t \in Instant : s <= t => LocalDay[z][s] <= LocalDay[z][t]
    /\ Midnight \in [Zone -> [Day -> Int]]
    /\ \A z \in Zone, d \in Monday, t \in Instant :
        t < Midnight[z][d] <=> LocalDay[z][t] < d

ASSUME ConstantsAssumption ==
    /\ AllTenants \notin Tenant
    /\ DefaultWeeks \in Nat \ {0}
    /\ MaxWeeks \in Nat
    /\ DefaultWeeks <= MaxWeeks
    /\ IsFiniteSet(Incident)
    /\ OwnerOf \in [Incident -> Tenant]
    /\ SeverityOf \in [Incident -> Severity]
    /\ AnySeverity \notin Severity
    /\ NoDay \notin Int
    /\ Calls \subseteq Call
    /\ Calls # {}
    /\ InitialZone \in [Tenant -> Zone]
    /\ MaxZoneChanges \in Nat

\* What resolve_window may return: whole weeks, no more than the cap.
Window == {w \in [zone : Zone, first : Monday, last : Monday] :
             w.first <= w.last /\ w.last < w.first + 7 * MaxWeeks}

ASSUME WindowAssumption == NoWindow \notin Window

VARIABLES
    now,           \* the clock of the server and of the database
    zoneOf,        \* tenants.timezone
    begun,         \* incidents whose INSERT has begun its transaction
    createdAt,     \* incidents.created_at: when that transaction began
    stored,        \* incidents committed
    zoneChanges,   \* counts against MaxZoneChanges
    pc, call,
    known,         \* history: incidents stored when the request arrived
    window,        \* the zone and the weeks the handler resolved
    answer,
    body           \* the buckets of the response

environment == <<now, zoneOf, begun, createdAt, stored, zoneChanges>>
vars == <<environment, pc, call, known, window, answer, body>>

Init ==
    /\ now = Start
    /\ zoneOf = InitialZone
    /\ begun = {}
    /\ createdAt = [i \in Incident |-> Start]
    /\ stored = {}
    /\ zoneChanges = 0
    /\ pc = [q \in Request |-> "idle"]
    /\ call = [q \in Request |-> CHOOSE c \in Calls : TRUE]
    /\ known = [q \in Request |-> {}]
    /\ window = [q \in Request |-> NoWindow]
    /\ answer = [q \in Request |-> "none"]
    /\ body = [q \in Request |-> [m \in {} |-> 0]]
-----------------------------------------------------------------------------
(***************************************************************************)
(* Resolving the window.  An operator whose name starts with Buggy is a    *)
(* wrong version of the one after it; nothing in the model uses it.        *)
(***************************************************************************)
\* Weeks that begin on Sunday.
BuggyWeekStart(d) == d - ((d + 1) % 7)

\* week_start: the Monday on or before a day.
WeekStart(d) == d - (d % 7)

\* PostgreSQL's date_trunc('week', ...), ISO.
DateTrunc(d) == d - (d % 7)

\* The tenant whose rows are counted: a tenant_id from anyone but a System Admin
\* is ignored.
TargetOf(c) == IF c.scope = AllTenants THEN c.tenant_id ELSE c.scope

\* resolve_timezone.
ZoneFor(c) == IF TargetOf(c) = AllTenants THEN PlatformZone ELSE zoneOf[TargetOf(c)]

BuggyToday(z) == LocalDay[PlatformZone][now]

\* today_local: not the date of the server's clock.
Today(z) == LocalDay[z][now]

To(z, c) == IF c.to = NoDay THEN Today(z) ELSE c.to

From(z, c) ==
    IF c.from = NoDay THEN WeekStart(To(z, c)) - 7 * (DefaultWeeks - 1) ELSE c.from

\* Snapping inward, so that the first week is whole.
BuggyFirst(z, c) == WeekStart(From(z, c) + 6)

First(z, c) == WeekStart(From(z, c))

Last(z, c) == WeekStart(To(z, c))

BuggyWeeks(z, c) == (Last(z, c) - First(z, c)) \div 7

Weeks(z, c) == (Last(z, c) - First(z, c)) \div 7 + 1

BuggyVerdict(z, c) ==
    IF From(z, c) < 0 THEN "500"
    ELSE IF From(z, c) > To(z, c) THEN "422"
    ELSE IF Last(z, c) + 7 > LastDay \/ Midnight[z][First(z, c)] < 0 THEN "500"
    ELSE "200"

\* resolve_window, then the bounds of the query.  A date before date.min or after
\* date.max, or a bound that is before it in UTC, raises OverflowError.
Verdict(z, c) ==
    IF From(z, c) < 0 THEN "500"
    ELSE IF From(z, c) > To(z, c) \/ Weeks(z, c) > MaxWeeks THEN "422"
    ELSE IF Last(z, c) + 7 > LastDay \/ Midnight[z][First(z, c)] < 0 THEN "500"
    ELSE "200"
-----------------------------------------------------------------------------
Respond(q, code) ==
    /\ pc' = [pc EXCEPT ![q] = "done"]
    /\ answer' = [answer EXCEPT ![q] = code]

\* An admin's request has been authenticated.
Accept(q, c) ==
    /\ pc[q] = "idle"
    /\ call' = [call EXCEPT ![q] = c]
    /\ known' = [known EXCEPT ![q] = stored]
    /\ pc' = [pc EXCEPT ![q] = "resolve"]
    /\ UNCHANGED <<environment, window, answer, body>>

\* The zone is read from the database; everything up to the query follows without
\* an await.
Resolve(q) ==
    LET c == call[q]
        z == ZoneFor(c)
    IN  /\ pc[q] = "resolve"
        /\ IF Verdict(z, c) = "200"
           THEN /\ window' = [window EXCEPT ![q] =
                    [zone |-> z, first |-> First(z, c), last |-> Last(z, c)]]
                /\ pc' = [pc EXCEPT ![q] = "query"]
                /\ UNCHANGED answer
           ELSE Respond(q, Verdict(z, c)) /\ UNCHANGED window
        /\ UNCHANGED <<environment, call, known, body>>

\* _scope_conds and the severity filter.
Concerns(c, i) ==
    /\ TargetOf(c) \in {AllTenants, OwnerOf[i]}
    /\ c.severity \in {AnySeverity, SeverityOf[i]}

BuggyInWindow(w, t) == Midnight[w.zone][w.first] <= t /\ t < Midnight[w.zone][w.last]

\* window_bounds: half-open, up to the end of the last week.
InWindow(w, t) == Midnight[w.zone][w.first] <= t /\ t < Midnight[w.zone][w.last + 7]

\* week_series.
Series(w) == {w.first + 7 * k : k \in 0..((w.last - w.first) \div 7)}

\* The grouped SELECT sees what has been committed; the weeks it has no rows for
\* are filled in with zeros, and a week outside the series is dropped.
Query(q) ==
    LET w == window[q]
        selected == {i \in stored : Concerns(call[q], i) /\ InWindow(w, createdAt[i])}
    IN  /\ pc[q] = "query"
        /\ body' = [body EXCEPT ![q] =
            [m \in Series(w) |->
                Cardinality({i \in selected :
                    DateTrunc(LocalDay[w.zone][createdAt[i]]) = m})]]
        /\ Respond(q, "200")
        /\ UNCHANGED <<environment, call, known, window>>
-----------------------------------------------------------------------------
Tick ==
    /\ now' \in {t \in Instant : t > now}
    /\ UNCHANGED <<zoneOf, begun, createdAt, stored, zoneChanges,
                   pc, call, known, window, answer, body>>

\* create_incident: created_at is now(), the time its transaction began.
BeginFiling(i) ==
    /\ i \notin begun
    /\ begun' = begun \cup {i}
    /\ createdAt' = [createdAt EXCEPT ![i] = now]
    /\ UNCHANGED <<now, zoneOf, stored, zoneChanges, pc, call, known, window, answer, body>>

CommitFiling(i) ==
    /\ i \in begun \ stored
    /\ stored' = stored \cup {i}
    /\ UNCHANGED <<now, zoneOf, begun, createdAt, zoneChanges,
                   pc, call, known, window, answer, body>>

\* update_settings.
SetZone(t, z) ==
    /\ zoneChanges < MaxZoneChanges
    /\ zoneOf' = [zoneOf EXCEPT ![t] = z]
    /\ zoneChanges' = zoneChanges + 1
    /\ UNCHANGED <<now, begun, createdAt, stored, pc, call, known, window, answer, body>>

\* Every request has been answered.
Terminating ==
    /\ \A q \in Request : pc[q] = "done"
    /\ UNCHANGED vars

Next ==
    \/ \E q \in Request : Resolve(q) \/ Query(q) \/ \E c \in Calls : Accept(q, c)
    \/ \E i \in Incident : BeginFiling(i) \/ CommitFiling(i)
    \/ \E t \in Tenant, z \in Zone : SetZone(t, z)
    \/ Tick
    \/ Terminating

Spec == Init /\ [][Next]_vars
-----------------------------------------------------------------------------
\* A count for each of some Mondays.
IsChart(b) == DOMAIN b \subseteq Monday /\ \A m \in DOMAIN b : b[m] \in Nat

\* Every variable holds a value of its type; a window is whole weeks within the
\* cap (resolve_window).
TypeOK ==
    /\ now \in Instant
    /\ zoneOf \in [Tenant -> Zone]
    /\ begun \subseteq Incident
    /\ createdAt \in [Incident -> Instant]
    /\ stored \subseteq begun
    /\ zoneChanges \in 0..MaxZoneChanges
    /\ pc \in [Request -> {"idle", "resolve", "query", "done"}]
    /\ call \in [Request -> Calls]
    /\ known \in [Request -> SUBSET Incident]
    /\ window \in [Request -> Window \cup {NoWindow}]
    /\ answer \in [Request -> {"none", "200", "422", "500"}]
    /\ DOMAIN body = Request
    /\ \A q \in Request : IsChart(body[q])

\* Is this day in the week that begins on Monday m?
InWeek(m, d) == m <= d /\ d <= m + 6

ExactVolume(q) ==
    LET w == window[q]
    IN  body'[q] = [m \in {d \in Monday : w.first <= d /\ d <= w.last} |->
            Cardinality({i \in stored :
                /\ Concerns(call[q], i)
                /\ InWeek(m, LocalDay[w.zone][createdAt[i]])})]

\* The chart is exact in the zone it names: every Monday of the window once, each
\* with all incidents of the scope created in that local week, also at a clock
\* change and at the edges (incident_volume: what the bounds in UTC select and
\* what date_trunc groups in local time never disagree).
VolumeIsExact ==
    [][\A q \in Request : pc[q] = "query" /\ pc'[q] = "done" => ExactVolume(q)]_vars

\* A chart up to "today" ends in a week that no incident filed before the
\* request is past, whatever zone the server's clock is in (today_local).
CurrentWeekShown ==
    \A q \in Request : window[q] # NoWindow /\ call[q].to = NoDay =>
        \A i \in known[q] : LocalDay[window[q].zone][createdAt[i]] <= window[q].last + 6

\* How many weeks a range of days touches.
TouchedWeeks(from, to) == Cardinality({m \in Monday : from <= m + 6 /\ m <= to})

\* A range is refused only when it is inverted or touches more than MaxWeeks
\* weeks, one that touches exactly MaxWeeks is not, and the default range never is
\* (resolve_window).
RefusalsAreDue ==
    \A q \in Request :
        LET c == call[q]
            due == c.from > c.to \/ TouchedWeeks(c.from, c.to) > MaxWeeks
        IN  /\ answer[q] = "422" => c.from # NoDay
            /\ c.from # NoDay /\ c.to # NoDay /\ pc[q] \in {"query", "done"} =>
                (answer[q] = "422" <=> due)

\* Snapping is outward and no further than it must: the window holds every day
\* that was asked for, and no week without one (resolve_window).
WindowCoversRequest ==
    \A q \in Request : window[q] # NoWindow =>
        LET c == call[q]
        IN  /\ c.from # NoDay => InWeek(window[q].first, c.from)
            /\ c.to # NoDay => InWeek(window[q].last, c.to)
(***************************************************************************)
(* What makes the invariants inductive (proved in AnalyticsProofs).        *)
(***************************************************************************)
\* No incident is from the future, and what was stored when a request arrived
\* has its creation time for good.
HistoryIsFixed ==
    /\ \A i \in Incident : createdAt[i] <= now
    /\ \A q \in Request : known[q] \subseteq begun

\* A window is there from its resolution on, and its end is a date.
WindowIsReady ==
    \A q \in Request :
        /\ pc[q] \in {"idle", "resolve"} => window[q] = NoWindow
        /\ pc[q] = "query" => window[q] # NoWindow
        /\ window[q] # NoWindow => window[q].last + 7 <= LastDay

IInv == TypeOK /\ HistoryIsFixed /\ WindowIsReady /\ CurrentWeekShown /\ WindowCoversRequest
=============================================================================
