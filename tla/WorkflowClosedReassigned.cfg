\* A close and a reassignment race for one open incident.
SPECIFICATION Spec
CONSTANTS
    staff = staff
    rev1 = rev1
    rev2 = rev2
    admin = admin
    outsider = outsider
    root = root
    t1 = t1
    t2 = t2
    i1 = i1
    i2 = i2
    NoUser = NoUser
    NoRequest = NoRequest
    User = {staff, rev1, rev2, admin}
    Tenant = {t1, t2}
    TenantOf <- MCTenantOf
    InitialRole <- MCInitialRole
    Incident = {i1}
    Filed <- MCFiled
    Request = {q1, q2, q3}
    Calls <- RaceCalls
    MaxAdminChanges = 0
SYMMETRY Symmetry
PROPERTIES
    ClosedNeverReassigned
