\* Two invitations of the same person, nothing fails.
SPECIFICATION Spec
CONSTANTS
    t1 = t1
    t2 = t2
    acme = acme
    ACME = ACME
    globex = globex
    initech = initech
    ann = ann
    Ann = Ann
    bob = bob
    NoId = NoId
    NoName = NoName
    NoCall = NoCall
    Request = {q1, q2}
    Existing = {t1, t2}
    InitialName <- MCInitialName
    Name = {acme, globex, initech}
    Fold <- MCFold
    Address = {ann, Ann, bob}
    Mailbox <- MCMailbox
    Calls <- InviteCalls
    MaxFaults = 0
SYMMETRY Symmetry
INVARIANTS
    RowsHaveAccounts
