--------------------------- MODULE AnalyticsProofs --------------------------
(***************************************************************************)
(* Proofs about Analytics, for every calendar, set of zones and stream of  *)
(* incidents that satisfy its assumptions.                                 *)
(***************************************************************************)
EXTENDS Analytics, FiniteSetTheorems, FunctionTheorems, TLAPS

\* week_start is the Monday on or before a day.
LEMMA WeekStartFacts ==
    ASSUME NEW d \in Int
    PROVE  /\ WeekStart(d) \in Int
           /\ WeekStart(d) % 7 = 0
           /\ InWeek(WeekStart(d), d)
BY DEF WeekStart, InWeek

\* date_trunc finds the one Monday whose week a day is in.
LEMMA DateTruncFacts ==
    ASSUME NEW d \in Int, NEW m \in Int, m % 7 = 0
    PROVE  DateTrunc(d) = m <=> InWeek(m, d)
BY DEF DateTrunc, InWeek

\* week_series lists the Mondays from the first to the last.
LEMMA SeriesFacts ==
    ASSUME NEW w \in Window
    PROVE  Series(w) = {d \in Monday : w.first <= d /\ d <= w.last}
<1> DEFINE S == {d \in Monday : w.first <= d /\ d <= w.last}
<1>1. /\ w.first \in Int /\ w.last \in Int /\ w.first % 7 = 0 /\ w.last % 7 = 0
      /\ w.first \in Day /\ w.last \in Day /\ LastDay \in Nat
  BY CalendarAssumption DEF Window, Monday, Day
<1>2. ASSUME NEW d \in Series(w) PROVE d \in S
  <2>1. PICK k \in 0..((w.last - w.first) \div 7) : d = w.first + 7 * k
    BY DEF Series
  <2>2. k \in Int /\ 0 <= k /\ 7 * k <= w.last - w.first
    BY <1>1, <2>1
  <2>3. d \in Int /\ w.first <= d /\ d <= w.last /\ d % 7 = 0
    BY <1>1, <2>1, <2>2
  <2> QED
    BY <1>1, <2>3 DEF Monday, Day
<1>3. ASSUME NEW d \in S PROVE d \in Series(w)
  <2>1. d \in Int /\ d % 7 = 0 /\ w.first <= d /\ d <= w.last
    BY DEF Monday, Day
  <2> DEFINE k == (d - w.first) \div 7
  <2>2. k \in 0..((w.last - w.first) \div 7) /\ d = w.first + 7 * k
    BY <1>1, <2>1
  <2> QED
    BY <2>2 DEF Series
<1> QED
  BY <1>2, <1>3
-----------------------------------------------------------------------------
\* A window that resolve_window lets pass is whole weeks within the cap, ends at a
\* date, and snaps outward.
LEMMA ResolvedWindow ==
    ASSUME TypeOK, NEW c \in Calls, NEW z \in Zone, Verdict(z, c) = "200"
    PROVE  LET w == [zone |-> z, first |-> First(z, c), last |-> Last(z, c)]
           IN  /\ w \in Window
               /\ w.last + 7 <= LastDay
               /\ InWeek(w.first, From(z, c)) /\ InWeek(w.last, To(z, c))
<1>1. c \in Call /\ LastDay \in Nat /\ MaxWeeks \in Nat /\ NoDay \notin Int
  BY CalendarAssumption, ConstantsAssumption
<1>2. Today(z) \in Day
  BY CalendarAssumption DEF Today, TypeOK
<1>3. To(z, c) \in Day
  BY <1>1, <1>2 DEF To, Call
<1>4. To(z, c) \in Int /\ 0 <= To(z, c) /\ To(z, c) <= LastDay
  BY <1>1, <1>3 DEF Day
<1>5. From(z, c) \in Int
  <2>1. CASE c.from = NoDay
    BY <2>1, <1>4, WeekStartFacts, ConstantsAssumption DEF From
  <2>2. CASE c.from # NoDay
    BY <2>2, <1>1 DEF From, Call, Day
  <2> QED
    BY <2>1, <2>2
<1>6. /\ 0 <= From(z, c) /\ From(z, c) <= To(z, c)
      /\ Weeks(z, c) <= MaxWeeks
      /\ Last(z, c) + 7 <= LastDay
  <2>1. Last(z, c) \in Int /\ First(z, c) \in Int
    BY <1>4, <1>5, WeekStartFacts DEF First, Last
  <2>2. Weeks(z, c) \in Int
    BY <2>1 DEF Weeks
  <2> QED
    BY <1>1, <1>4, <1>5, <2>1, <2>2 DEF Verdict
<1>7. /\ First(z, c) \in Int /\ First(z, c) % 7 = 0 /\ InWeek(First(z, c), From(z, c))
      /\ Last(z, c) \in Int /\ Last(z, c) % 7 = 0 /\ InWeek(Last(z, c), To(z, c))
  BY <1>4, <1>5, WeekStartFacts DEF First, Last
<1>8. 0 <= First(z, c) /\ First(z, c) <= Last(z, c)
  BY <1>4, <1>5, <1>6, <1>7 DEF InWeek
<1>9. Last(z, c) < First(z, c) + 7 * MaxWeeks
  BY <1>1, <1>6, <1>7, <1>8 DEF Weeks
<1>10. First(z, c) \in Monday /\ Last(z, c) \in Monday
  BY <1>1, <1>6, <1>7, <1>8 DEF Monday, Day
<1> QED
  BY <1>6, <1>7, <1>8, <1>9, <1>10 DEF Window

THEOREM InitInv == Init => IInv
<1> SUFFICES ASSUME Init PROVE IInv
  OBVIOUS
<1>1. (CHOOSE c \in Calls : TRUE) \in Calls
  BY ConstantsAssumption
<1>2. TypeOK
  <2>1. DOMAIN body = Request /\ \A q \in Request : IsChart(body[q])
    BY DEF Init, IsChart
  <2> QED
    BY <1>1, <2>1, CalendarAssumption, ConstantsAssumption DEF Init, TypeOK
<1>3. HistoryIsFixed
  BY CalendarAssumption DEF Init, HistoryIsFixed
<1>4. WindowIsReady /\ CurrentWeekShown /\ WindowCoversRequest
  BY DEF Init, WindowIsReady, CurrentWeekShown, WindowCoversRequest
<1> QED
  BY <1>2, <1>3, <1>4 DEF IInv

-----------------------------------------------------------------------------
(***************************************************************************)
(* One lemma per action, one step per conjunct it can disturb.             *)
(***************************************************************************)
LEMMA AcceptStep ==
    ASSUME IInv, NEW q \in Request, NEW c \in Calls, Accept(q, c)
    PROVE  IInv'
<1> USE DEF IInv
<1>1. window[q] = NoWindow
  BY DEF Accept, WindowIsReady
<1>2. TypeOK'
  BY DEF TypeOK, Accept, environment
<1>3. HistoryIsFixed'
  BY DEF HistoryIsFixed, TypeOK, Accept, environment
<1>4. WindowIsReady'
  BY <1>1 DEF WindowIsReady, TypeOK, Accept, environment
<1>5. CurrentWeekShown'
  BY <1>1 DEF CurrentWeekShown, TypeOK, Accept, environment
<1>6. WindowCoversRequest'
  BY <1>1 DEF WindowCoversRequest, TypeOK, Accept, environment
<1> QED
  BY <1>2, <1>3, <1>4, <1>5, <1>6

\* The zone is a tenant's or the platform's.
LEMMA ZoneType ==
    ASSUME TypeOK, NEW c \in Calls
    PROVE  ZoneFor(c) \in Zone
BY CalendarAssumption, ConstantsAssumption DEF ZoneFor, TargetOf, TypeOK, Call

\* The window "up to today" is resolved no earlier than the request arrived, and
\* dates do not go back: what was stored by then is not past its last week.
LEMMA ResolveStep ==
    ASSUME IInv, NEW q \in Request, Resolve(q)
    PROVE  IInv'
<1> DEFINE c == call[q]
           z == ZoneFor(c)
           w == [zone |-> z, first |-> First(z, c), last |-> Last(z, c)]
<1>1. c \in Calls /\ z \in Zone /\ TypeOK
  BY ZoneType DEF IInv, TypeOK
<1>2. CASE Verdict(z, c) = "200"
  <2>1. /\ w \in Window /\ w.last + 7 <= LastDay
        /\ InWeek(w.first, From(z, c)) /\ InWeek(w.last, To(z, c))
    BY <1>1, <1>2, ResolvedWindow
  <2>2. /\ window' = [window EXCEPT ![q] = w] /\ pc' = [pc EXCEPT ![q] = "query"]
        /\ UNCHANGED <<environment, call, known, body, answer>>
    BY <1>2 DEF Resolve
  <2>3. TypeOK'
    BY <1>1, <2>1, <2>2 DEF TypeOK, environment
  <2>4. HistoryIsFixed'
    BY <2>2 DEF IInv, HistoryIsFixed, environment
  <2>5. WindowIsReady'
    BY <1>1, <2>1, <2>2, WindowAssumption DEF IInv, TypeOK, WindowIsReady
  <2>6. ASSUME c.to = NoDay, NEW i \in known[q]
        PROVE  LocalDay[z][createdAt[i]] <= w.last + 6
    <3>1. i \in Incident /\ createdAt[i] <= now /\ createdAt[i] \in Instant /\ now \in Instant
      BY <1>1 DEF IInv, HistoryIsFixed, TypeOK
    <3>2. LocalDay[z][createdAt[i]] <= LocalDay[z][now]
      BY <1>1, <3>1, CalendarAssumption
    <3>3. LocalDay[z][createdAt[i]] \in Int /\ LocalDay[z][now] \in Int
      BY <1>1, <3>1, CalendarAssumption DEF Day
    <3>4. LocalDay[z][now] <= w.last + 6
      BY <2>1, <2>6 DEF InWeek, To, Today
    <3>5. w.last \in Int
      BY <2>1 DEF Window, Monday, Day
    <3> QED
      BY <3>2, <3>3, <3>4, <3>5
  <2>7. CurrentWeekShown'
    BY <1>1, <2>2, <2>6 DEF IInv, TypeOK, CurrentWeekShown, environment
  <2>8. /\ c.from # NoDay => InWeek(w.first, c.from)
        /\ c.to # NoDay => InWeek(w.last, c.to)
    BY <2>1 DEF From, To
  <2>9. WindowCoversRequest'
    BY <1>1, <2>2, <2>8 DEF IInv, TypeOK, WindowCoversRequest
  <2> QED
    BY <2>3, <2>4, <2>5, <2>7, <2>9 DEF IInv
<1>3. CASE Verdict(z, c) # "200"
  <2>1. /\ Respond(q, Verdict(z, c))
        /\ UNCHANGED <<environment, call, known, body, window>>
    BY <1>3 DEF Resolve
  <2>2. Verdict(z, c) \in {"422", "500"}
    BY <1>3 DEF Verdict
  <2>3. TypeOK'
    BY <1>1, <2>1, <2>2 DEF TypeOK, Respond, environment
  <2>4. WindowIsReady'
    BY <1>1, <2>1 DEF IInv, TypeOK, WindowIsReady, Respond
  <2> QED
    BY <2>1, <2>3, <2>4
       DEF IInv, HistoryIsFixed, CurrentWeekShown, WindowCoversRequest, environment
<1> QED
  BY <1>2, <1>3

LEMMA QueryStep ==
    ASSUME IInv, NEW q \in Request, Query(q)
    PROVE  IInv'
<1> DEFINE w == window[q]
           selected == {i \in stored : Concerns(call[q], i) /\ InWindow(w, createdAt[i])}
           counted(m) == {i \in selected : DateTrunc(LocalDay[w.zone][createdAt[i]]) = m}
           chart == [m \in Series(w) |-> Cardinality(counted(m))]
<1>1. /\ Respond(q, "200")
      /\ body' = [body EXCEPT ![q] = chart]
      /\ UNCHANGED <<environment, call, known, window>>
  BY DEF Query
<1>2. IsChart(chart)
  <2>1. w \in Window
    BY DEF IInv, TypeOK, WindowIsReady, Query
  <2>2. Series(w) \subseteq Monday
    BY <2>1, SeriesFacts
  <2>3. ASSUME NEW m \in Series(w) PROVE Cardinality(counted(m)) \in Nat
    <3>1. counted(m) \subseteq Incident
      BY DEF IInv, TypeOK
    <3>2. IsFiniteSet(counted(m))
      BY <3>1, FS_Subset, ConstantsAssumption
    <3> QED
      BY <3>2, FS_CardinalityType
  <2> QED
    BY <2>2, <2>3 DEF IsChart
<1>3. TypeOK'
  <2>1. DOMAIN body' = Request /\ \A p \in Request : IsChart(body'[p])
    BY <1>1, <1>2 DEF IInv, TypeOK
  <2> QED
    BY <1>1, <2>1 DEF IInv, TypeOK, Respond, environment
<1>4. WindowIsReady'
  BY <1>1 DEF IInv, TypeOK, WindowIsReady, Respond
<1> QED
  BY <1>1, <1>3, <1>4
     DEF IInv, HistoryIsFixed, CurrentWeekShown, WindowCoversRequest, environment

\* A filing that begins cannot change what an earlier request knows.
LEMMA BeginFilingStep ==
    ASSUME IInv, NEW i \in Incident, BeginFiling(i)
    PROVE  IInv'
<1>1. \A q \in Request : i \notin known[q]
  BY DEF IInv, HistoryIsFixed, BeginFiling
<1>2. TypeOK'
  BY DEF IInv, TypeOK, BeginFiling
<1>3. HistoryIsFixed'
  BY CalendarAssumption DEF IInv, TypeOK, HistoryIsFixed, BeginFiling
<1>4. CurrentWeekShown'
  BY <1>1 DEF IInv, TypeOK, CurrentWeekShown, BeginFiling
<1> QED
  BY <1>2, <1>3, <1>4 DEF IInv, WindowIsReady, WindowCoversRequest, BeginFiling

LEMMA CommitFilingStep ==
    ASSUME IInv, NEW i \in Incident, CommitFiling(i)
    PROVE  IInv'
BY DEF IInv, TypeOK, HistoryIsFixed, WindowIsReady, CurrentWeekShown,
       WindowCoversRequest, CommitFiling

LEMMA SetZoneStep ==
    ASSUME IInv, NEW t \in Tenant, NEW z \in Zone, SetZone(t, z)
    PROVE  IInv'
<1>1. TypeOK'
  BY ConstantsAssumption DEF IInv, TypeOK, SetZone
<1> QED
  BY <1>1 DEF IInv, HistoryIsFixed, WindowIsReady, CurrentWeekShown,
              WindowCoversRequest, SetZone

LEMMA TickStep ==
    ASSUME IInv, Tick
    PROVE  IInv'
<1>1. now \in Nat /\ now' \in Nat /\ now < now' /\ \A i \in Incident : createdAt[i] \in Nat
  BY CalendarAssumption DEF IInv, TypeOK, Tick
<1>2. TypeOK'
  BY DEF IInv, TypeOK, Tick
<1>3. HistoryIsFixed'
  BY <1>1 DEF IInv, HistoryIsFixed, Tick
<1> QED
  BY <1>2, <1>3 DEF IInv, WindowIsReady, CurrentWeekShown, WindowCoversRequest, Tick

\* IInv is inductive.
LEMMA StepInv == IInv /\ [Next]_vars => IInv'
<1> SUFFICES ASSUME IInv, [Next]_vars PROVE IInv'
  OBVIOUS
<1>1. CASE UNCHANGED vars
  BY <1>1 DEF IInv, TypeOK, HistoryIsFixed, WindowIsReady, CurrentWeekShown,
              WindowCoversRequest, vars, environment
<1>2. ASSUME NEW q \in Request, NEW c \in Calls, Accept(q, c) PROVE IInv'
  BY <1>2, AcceptStep
<1>3. ASSUME NEW q \in Request, Resolve(q) PROVE IInv'
  BY <1>3, ResolveStep
<1>4. ASSUME NEW q \in Request, Query(q) PROVE IInv'
  BY <1>4, QueryStep
<1>5. ASSUME NEW i \in Incident, BeginFiling(i) PROVE IInv'
  BY <1>5, BeginFilingStep
<1>6. ASSUME NEW i \in Incident, CommitFiling(i) PROVE IInv'
  BY <1>6, CommitFilingStep
<1>7. ASSUME NEW t \in Tenant, NEW z \in Zone, SetZone(t, z) PROVE IInv'
  BY <1>7, SetZoneStep
<1>8. CASE Tick
  BY <1>8, TickStep
<1>9. CASE Terminating
  BY <1>1, <1>9 DEF Terminating
<1> QED
  BY <1>1, <1>2, <1>3, <1>4, <1>5, <1>6, <1>7, <1>8, <1>9 DEF Next

\* Every reachable state satisfies the invariant.
THEOREM Inductive == Spec => []IInv
BY InitInv, StepInv, PTL DEF Spec

\* Every variable has its type; a window is whole weeks within the cap.
THEOREM TypeCorrect == Spec => []TypeOK
<1>1. IInv => TypeOK
  BY DEF IInv
<1> QED
  BY <1>1, Inductive, PTL

\* A chart up to today ends in a week that no incident filed before the request
\* is past.
THEOREM CurrentWeek == Spec => []CurrentWeekShown
<1>1. IInv => CurrentWeekShown
  BY DEF IInv
<1> QED
  BY <1>1, Inductive, PTL

\* The window holds the days that were asked for and snaps no further.
THEOREM Covers == Spec => []WindowCoversRequest
<1>1. IInv => WindowCoversRequest
  BY DEF IInv
<1> QED
  BY <1>1, Inductive, PTL

-----------------------------------------------------------------------------
\* For an incident of a listed week, the bounds in UTC say nothing new: the two
\* ways the query speaks of time agree.
LEMMA BoundsAgree ==
    ASSUME NEW w \in Window, w.last + 7 <= LastDay, NEW t \in Instant,
           NEW m \in Monday, w.first <= m, m <= w.last
    PROVE  InWindow(w, t) /\ DateTrunc(LocalDay[w.zone][t]) = m
           <=> InWeek(m, LocalDay[w.zone][t])
<1> DEFINE d == LocalDay[w.zone][t]
<1>1. /\ w.zone \in Zone /\ w.first \in Monday /\ w.last \in Monday
      /\ d \in Int /\ t \in Int /\ LastDay \in Int
  BY CalendarAssumption DEF Window, Day
<1>2. /\ m \in Int /\ w.first \in Int /\ w.last \in Int /\ m % 7 = 0
      /\ w.last + 7 \in Monday
  BY <1>1 DEF Monday, Day
<1>3. DateTrunc(d) = m <=> InWeek(m, d)
  BY <1>1, <1>2, DateTruncFacts
<1>4. /\ Midnight[w.zone][w.first] \in Int
      /\ Midnight[w.zone][w.last + 7] \in Int
  BY <1>1, <1>2, CalendarAssumption DEF Monday
<1>5. /\ t < Midnight[w.zone][w.first] <=> d < w.first
      /\ t < Midnight[w.zone][w.last + 7] <=> d < w.last + 7
  BY <1>1, <1>2, CalendarAssumption
<1>6. InWeek(m, d) => InWindow(w, t)
  BY <1>1, <1>2, <1>4, <1>5 DEF InWeek, InWindow
<1> QED
  BY <1>3, <1>6

\* The fill with zeros drops no row the SELECT has counted, and the SELECT leaves out
\* no row of a listed week: an instant lies between the bounds in UTC exactly if
\* its local week is in week_series, and then in one week of it only.
THEOREM NothingIsDropped ==
    ASSUME NEW w \in Window, w.last + 7 <= LastDay, NEW t \in Instant
    PROVE  InWindow(w, t) <=> DateTrunc(LocalDay[w.zone][t]) \in Series(w)
<1> DEFINE d == LocalDay[w.zone][t]
           m == DateTrunc(d)
<1>1. /\ w.zone \in Zone /\ w.first \in Monday /\ w.last \in Monday
      /\ d \in Int /\ 0 <= d /\ d <= LastDay /\ t \in Int /\ LastDay \in Int
  BY CalendarAssumption DEF Window, Day
<1>2. /\ w.first \in Int /\ w.last \in Int /\ w.first % 7 = 0 /\ w.last % 7 = 0
      /\ w.last + 7 \in Monday
  BY <1>1 DEF Monday, Day
<1>3. m \in Int /\ m % 7 = 0 /\ m <= d /\ d <= m + 6 /\ 0 <= m
  BY <1>1 DEF DateTrunc
<1>4. InWindow(w, t) <=> w.first <= d /\ d < w.last + 7
  <2>1. /\ Midnight[w.zone][w.first] \in Int
        /\ Midnight[w.zone][w.last + 7] \in Int
    BY <1>1, <1>2, CalendarAssumption DEF Monday
  <2>2. /\ t < Midnight[w.zone][w.first] <=> d < w.first
        /\ t < Midnight[w.zone][w.last + 7] <=> d < w.last + 7
    BY <1>1, <1>2, CalendarAssumption
  <2> QED
    BY <1>1, <1>2, <2>1, <2>2 DEF InWindow
<1>5. m \in Series(w) <=> w.first <= m /\ m <= w.last
  BY <1>1, <1>2, <1>3, SeriesFacts DEF Monday, Day
<1> HIDE DEF d, m
<1>6. w.first <= d /\ d < w.last + 7 <=> w.first <= m /\ m <= w.last
  BY <1>1, <1>2, <1>3
<1> QED
  BY <1>4, <1>5, <1>6 DEF d, m

\* The chart is exact, for every zone of the time zone database.
THEOREM VolumeCorrect == Spec => VolumeIsExact
<1>1. ASSUME IInv, NEW q \in Request, Query(q)
      PROVE  ExactVolume(q)
  <2> DEFINE w == window[q]
             Listed == {d \in Monday : w.first <= d /\ d <= w.last}
             Selected(m) == {i \in {j \in stored : Concerns(call[q], j)
                                                   /\ InWindow(w, createdAt[j])} :
                               DateTrunc(LocalDay[w.zone][createdAt[i]]) = m}
             Created(m) == {i \in stored : /\ Concerns(call[q], i)
                                           /\ InWeek(m, LocalDay[w.zone][createdAt[i]])}
  <2>1. w \in Window /\ w.last + 7 <= LastDay
    BY <1>1 DEF IInv, TypeOK, WindowIsReady, Query
  <2>2. Series(w) = Listed
    BY <2>1, SeriesFacts
  <2>3. body'[q] = [m \in Series(w) |-> Cardinality(Selected(m))]
    BY <1>1 DEF Query, IInv, TypeOK
  <2>4. ASSUME NEW m \in Listed PROVE Selected(m) = Created(m)
    <3>1. \A i \in stored : createdAt[i] \in Instant
      BY <1>1 DEF IInv, TypeOK
    <3>2. \A i \in stored :
            InWindow(w, createdAt[i]) /\ DateTrunc(LocalDay[w.zone][createdAt[i]]) = m
            <=> InWeek(m, LocalDay[w.zone][createdAt[i]])
      BY <2>1, <3>1, BoundsAgree
    <3> QED
      BY <3>2
  <2>5. body'[q] = [m \in Listed |-> Cardinality(Created(m))]
    BY <2>2, <2>3, <2>4
  <2> QED
    BY <2>5 DEF ExactVolume
<1>2. ASSUME IInv, [Next]_vars, NEW q \in Request, pc[q] = "query", pc'[q] = "done"
      PROVE  Query(q)
  BY <1>2 DEF IInv, TypeOK, Next, vars, Accept, Resolve, Query, Respond, BeginFiling,
              CommitFiling, SetZone, Tick, Terminating
<1>3. IInv /\ [Next]_vars =>
        [\A q \in Request : pc[q] = "query" /\ pc'[q] = "done" => ExactVolume(q)]_vars
  BY <1>1, <1>2
<1> QED
  BY <1>3, Inductive, PTL DEF VolumeIsExact, Spec

-----------------------------------------------------------------------------
\* The weeks that a range of days touches are those of week_series.
LEMMA TouchedWeeksFacts ==
    ASSUME NEW from \in Day, NEW to \in Day, from <= to
    PROVE  TouchedWeeks(from, to) = (WeekStart(to) - WeekStart(from)) \div 7 + 1
<1> DEFINE a == WeekStart(from)
           b == WeekStart(to)
           n == (b - a) \div 7
           S == {m \in Monday : from <= m + 6 /\ m <= to}
           f == [k \in 0..n |-> a + 7 * k]
<1>1. /\ from \in Int /\ to \in Int /\ LastDay \in Nat /\ 0 <= from /\ to <= LastDay
  BY CalendarAssumption DEF Day
<1>2. /\ a \in Int /\ b \in Int /\ a % 7 = 0 /\ b % 7 = 0
      /\ a <= from /\ from <= a + 6 /\ b <= to /\ to <= b + 6 /\ 0 <= a
  BY <1>1 DEF WeekStart
<1> HIDE DEF a, b
<1>3. n \in Nat /\ b = a + 7 * n
  BY <1>1, <1>2
<1> HIDE DEF n
<1>4. \A k \in 0..n : f[k] \in S
  BY <1>1, <1>2, <1>3 DEF Monday, Day
<1>5. ASSUME NEW m \in S
      PROVE  \E k \in 0..n : f[k] = m
  <2>1. m \in Int /\ m % 7 = 0 /\ from <= m + 6 /\ m <= to
    BY <1>1 DEF Monday, Day
  <2>2. a <= m /\ m <= b
    BY <1>1, <1>2, <2>1
  <2>3. (m - a) \div 7 \in 0..n /\ m = a + 7 * ((m - a) \div 7)
    BY <1>2, <1>3, <2>1, <2>2
  <2> QED
    BY <2>3
<1>6. \A j, k \in 0..n : f[j] = f[k] => j = k
  BY <1>2, <1>3
<1>7. f \in Bijection(0..n, S)
  <2>1. f \in [0..n -> S]
    BY <1>4
  <2> HIDE DEF f, S
  <2> QED
    BY <1>5, <1>6, <2>1, Fun_IsBij
<1>8. IsFiniteSet(0..n) /\ Cardinality(0..n) = n + 1
  BY <1>3, FS_Interval
<1>9. Cardinality(S) = Cardinality(0..n)
  <2> HIDE DEF S, f
  <2>1. ExistsBijection(0..n, S)
    BY <1>7 DEF ExistsBijection
  <2> QED
    BY <1>8, <2>1, FS_Bijection
<1> QED
  BY <1>8, <1>9 DEF TouchedWeeks, n, a, b

\* The default range is as long as it says: within the cap.
LEMMA DefaultRange ==
    ASSUME NEW z \in Zone, NEW c \in Calls, c.from = NoDay, To(z, c) \in Day
    PROVE  Verdict(z, c) # "422"
<1>1. To(z, c) \in Int /\ DefaultWeeks \in Nat /\ MaxWeeks \in Nat /\ 1 <= DefaultWeeks
      /\ DefaultWeeks <= MaxWeeks
  BY ConstantsAssumption DEF Day
<1> DEFINE a == WeekStart(To(z, c))
           f == a - 7 * (DefaultWeeks - 1)
<1>2. a \in Int /\ a % 7 = 0 /\ a <= To(z, c)
  BY <1>1 DEF WeekStart
<1>3. From(z, c) = f /\ Last(z, c) = a
  BY DEF From, Last
<1> HIDE DEF a
<1>4. f \in Int /\ f % 7 = 0 /\ f <= To(z, c) /\ a - f = 7 * (DefaultWeeks - 1)
  BY <1>1, <1>2
<1> HIDE DEF f
<1>5. WeekStart(f) = f
  BY <1>4 DEF WeekStart
<1>6. Weeks(z, c) = DefaultWeeks
  BY <1>1, <1>3, <1>4, <1>5 DEF Weeks, First
<1> QED
  BY <1>1, <1>3, <1>4, <1>6 DEF Verdict

\* A range of two given days.
LEMMA GivenRange ==
    ASSUME NEW z \in Zone, NEW c \in Calls, c.from # NoDay, c.to # NoDay
    PROVE  Verdict(z, c) = "422"
           <=> (c.from > c.to \/ TouchedWeeks(c.from, c.to) > MaxWeeks)
<1>1. c.from \in Day /\ c.to \in Day /\ c.from \in Int /\ 0 <= c.from
  BY ConstantsAssumption DEF Call, Day
<1>2. From(z, c) = c.from /\ To(z, c) = c.to
  BY DEF From, To
<1>3. c.from <= c.to => Weeks(z, c) = TouchedWeeks(c.from, c.to)
  BY <1>1, <1>2, TouchedWeeksFacts DEF Weeks, First, Last
<1>4. c.to \in Int
  BY <1>1 DEF Day
<1> QED
  BY <1>1, <1>2, <1>3, <1>4 DEF Verdict

\* Who has an answer is done, and refusals are due.
Judged ==
    /\ \A q \in Request : pc[q] # "done" => answer[q] = "none"
    /\ RefusalsAreDue

\* Every step judges right.
LEMMA JudgedStep ==
    ASSUME IInv, Judged, [Next]_vars
    PROVE  Judged'
<1>0. TypeOK
  BY DEF IInv
<1>1. ASSUME NEW q \in Request, Resolve(q) \/ Query(q) \/ \E c \in Calls : Accept(q, c)
      PROVE  Judged'
  <2>1. \A p \in Request \ {q} : pc'[p] = pc[p] /\ call'[p] = call[p] /\ answer'[p] = answer[p]
    BY <1>0, <1>1 DEF Resolve, Query, Accept, Respond, TypeOK
  <2>2. CASE \E c \in Calls : Accept(q, c)
    <3>1. pc'[q] = "resolve" /\ answer'[q] = "none"
      BY <1>0, <2>2 DEF Accept, Judged, TypeOK
    <3> QED
      BY <2>1, <3>1 DEF Judged, RefusalsAreDue
  <2>3. CASE Query(q)
    <3>1. /\ pc[q] = "query" /\ pc'[q] = "done" /\ call' = call
          /\ answer[q] = "none" /\ answer'[q] = "200"
      BY <1>0, <2>3 DEF Query, Respond, Judged, TypeOK
    <3> QED
      BY <2>1, <3>1 DEF Judged, RefusalsAreDue
  <2>4. CASE Resolve(q)
    <3> DEFINE c == call[q]
               z == ZoneFor(c)
               v == Verdict(z, c)
    <3>1. c \in Calls /\ z \in Zone /\ now \in Instant
      BY <1>0, ZoneType DEF TypeOK
    <3>2. To(z, c) \in Day
      BY <3>1, CalendarAssumption, ConstantsAssumption DEF To, Today, Call
    <3>3. /\ call' = call /\ answer[q] = "none"
          /\ v = "200" => pc'[q] = "query" /\ answer'[q] = "none"
          /\ v # "200" => pc'[q] = "done" /\ answer'[q] = v
      BY <1>0, <2>4 DEF Resolve, Respond, Judged, TypeOK
    <3> HIDE DEF z, v
    <3>4. answer'[q] = "422" <=> v = "422"
      BY <3>3
    <3>5. v = "422" => c.from # NoDay
      BY <3>1, <3>2, DefaultRange DEF v
    <3>6. c.from # NoDay /\ c.to # NoDay =>
            (v = "422" <=> (c.from > c.to \/ TouchedWeeks(c.from, c.to) > MaxWeeks))
      BY <3>1, GivenRange DEF v
    <3>7. pc'[q] # "done" => answer'[q] = "none"
      BY <3>3
    <3> QED
      BY <2>1, <3>3, <3>4, <3>5, <3>6, <3>7 DEF Judged, RefusalsAreDue
  <2> QED
    BY <1>1, <2>2, <2>3, <2>4
<1>2. CASE UNCHANGED <<pc, call, answer>>
  BY <1>2 DEF Judged, RefusalsAreDue
<1> QED
  BY <1>1, <1>2 DEF Next, BeginFiling, CommitFiling, SetZone, Tick, Terminating, vars

\* A range is refused only when it is inverted or touches too many weeks, and the
\* default range never is, for any calendar and any cap.
THEOREM RefusalsCorrect == Spec => []RefusalsAreDue
<1>1. Init => Judged
  BY DEF Init, Judged, RefusalsAreDue
<1>2. Judged => RefusalsAreDue
  BY DEF Judged
<1> QED
  BY <1>1, <1>2, JudgedStep, Inductive, PTL DEF Spec
=============================================================================
