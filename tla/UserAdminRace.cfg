\* Three administrative requests over two tenants.
SPECIFICATION Spec
CONSTANTS
    ada = ada
    alan = alan
    rev = rev
    root = root
    edna = edna
    t1 = t1
    t2 = t2
    NoCall = NoCall
    User = {ada, alan, rev, root, edna}
    Tenant = {t1, t2}
    TenantOf <- MCTenantOf
    InitialRole <- MCInitialRole
    Request = {q1, q2, q3}
    Calls <- AdminCalls
SYMMETRY Symmetry
INVARIANTS
PROPERTIES
    LastAdminFallsOnlyToARace
    GuardSparesTheOthers
    OkMeansDone
    WritesAreAuthorised
