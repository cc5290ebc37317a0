\* A chart while two incidents are filed, a zone changes and the clock runs.
SPECIFICATION Spec
CONSTANTS
    utc = utc
    east = east
    dst = dst
    t1 = t1
    t2 = t2
    i1 = i1
    i2 = i2
    low = low
    high = high
    AllTenants = AllTenants
    AnySeverity = AnySeverity
    NoDay = NoDay
    NoWindow = NoWindow
    Tenant = {t1, t2}
    Zone = {utc, east, dst}
    PlatformZone = utc
    LastDay = 32
    Instant <- MCInstants
    Start = 26
    LocalDay <- MCLocalDay
    Midnight <- MCMidnight
    DefaultWeeks = 2
    MaxWeeks = 3
    Incident = {i1, i2}
    OwnerOf <- MCOwner
    SeverityOf <- MCSeverity
    Severity = {low, high}
    Request = {q1}
    Calls <- MCCalls
    InitialZone <- MCZone
    MaxZoneChanges = 1
INVARIANTS
    TypeOK
    CurrentWeekShown
    RefusalsAreDue
    WindowCoversRequest
PROPERTIES
    VolumeIsExact
