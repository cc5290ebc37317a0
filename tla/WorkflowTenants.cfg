\* Two tenants, every kind of request, accounts changing meanwhile.
SPECIFICATION FairSpec
CONSTANTS
    staff = staff
    rev1 = rev1
    rev2 = rev2
    admin = admin
    outsider = outsider
    root = root
    t1 = t1
    t2 = t2
    i1 = i1
    i2 = i2
    NoUser = NoUser
    NoRequest = NoRequest
    User = {staff, rev1, admin, outsider, root}
    Tenant = {t1, t2}
    TenantOf <- MCTenantOf
    InitialRole <- MCInitialRole
    Incident = {i1, i2}
    Filed <- MCFiled
    Request = {q1, q2}
    Calls <- TenantCalls
    MaxAdminChanges = 1
INVARIANTS
    TenantIsolation
    NotificationsAreAtomic
PROPERTIES
    EventuallyAnswered
    ImplementsLifecycle
