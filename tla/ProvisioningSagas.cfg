\* Three requests after the same names and mailboxes, two faults.
SPECIFICATION Spec
CONSTANTS
    t1 = t1
    t2 = t2
    acme = acme
    ACME = ACME
    globex = globex
    initech = initech
    ann = ann
    Ann = Ann
    bob = bob
    NoId = NoId
    NoName = NoName
    NoCall = NoCall
    Request = {q1, q2, q3}
    Existing = {t1, t2}
    InitialName <- MCInitialName
    Name = {acme, globex, initech}
    Fold <- MCFold
    Address = {ann, Ann, bob}
    Mailbox <- MCMailbox
    Calls <- SagaCalls
    MaxFaults = 2
SYMMETRY Symmetry
INVARIANTS
    OrphansAreAccountedFor
    RegistrationIsWhole
    DanglingRowsAreExplained
    AnswersAreTrue
PROPERTIES
    CompensatesOnlyItsOwn
    ImplementsIdentities
