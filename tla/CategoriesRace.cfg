\* Three requests after the same category.
SPECIFICATION Spec
CONSTANTS
    c1 = c1
    c2 = c2
    t1 = t1
    t2 = t2
    hardware = hardware
    software = software
    NoCall = NoCall
    NoRow = NoRow
    NoName = NoName
    Request = {q1, q2, q3}
    Existing = {c1, c2}
    Tenant = {t1, t2}
    InitialRow <- MCInitialRow
    Name = {hardware, software}
    Calls <- CategoryCalls
SYMMETRY Symmetry
INVARIANTS
    IncidentsKeepTheirCategory
    AnswersAreTrue
