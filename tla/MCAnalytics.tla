---------------------------- MODULE MCAnalytics -----------------------------
(***************************************************************************)
(* A calendar of five weeks that ends on a Friday, as date.max does, with  *)
(* two instants a day.  Zone east is half a day ahead of UTC; dst is, too, *)
(* until it puts its clocks back in the third week.                        *)
(***************************************************************************)
EXTENDS Analytics, TLC

CONSTANTS utc, east, dst, t1, t2, i1, i2, low, high

ClockChange == 33

MCLocalDay ==
    [z \in Zone |-> [t \in Instant |->
        CASE z = utc  -> t \div 2
          [] z = east -> (t + 1) \div 2
          [] z = dst  -> (IF t < ClockChange THEN t + 1 ELSE t) \div 2]]

MCMidnight ==
    [z \in Zone |-> [d \in Day |->
        CASE z = utc  -> 2 * d
          [] z = east -> 2 * d - 1
          [] z = dst  -> IF 2 * d - 1 < ClockChange THEN 2 * d - 1 ELSE 2 * d]]

\* Either side of the Mondays 14 and 21, and of the clock change.
MCInstants == {26, 27, 28, 32, 33, 41, 42}

MCOwner == [i \in Incident |-> IF i = i1 THEN t1 ELSE t2]
MCSeverity == [i \in Incident |-> IF i = i1 THEN low ELSE high]
MCZone == [t \in Tenant |-> IF t = t1 THEN east ELSE utc]

Chart(s, t, from, to, sev) ==
    [scope |-> s, tenant_id |-> t, from |-> from, to |-> to, severity |-> sev]

\* Charts up to today, of one organisation and of all, and ranges at the cap,
\* over it, inverted and at either end of the calendar.
MCCalls ==
    {Chart(t1, AllTenants, NoDay, NoDay, AnySeverity),
     Chart(t2, t1, 14, NoDay, AnySeverity),
     Chart(AllTenants, AllTenants, NoDay, NoDay, low),
     Chart(AllTenants, t1, 8, 22, AnySeverity),
     Chart(t1, AllTenants, 13, 17, high),
     Chart(t1, AllTenants, 6, 21, AnySeverity),
     Chart(t1, AllTenants, 20, 8, AnySeverity),
     Chart(t1, AllTenants, 14, 29, AnySeverity),
     Chart(t1, AllTenants, NoDay, 5, AnySeverity),
     Chart(t1, AllTenants, 0, 9, AnySeverity)}
=============================================================================
