\* Two clients of one panel.
SPECIFICATION FairSpec
CONSTANTS
    u = u
    v = v
    NoClient = NoClient
    User = {u, v}
    Note = {1, 2, 3}
    Old = {2, 3}
    Recipient <- MCRecipient
    Client = {q1, q2}
    Calls <- PanelCalls
    MaxStamp = 1
INVARIANTS
    AnsweredMeansRead
    PagesMissNothing
PROPERTIES
    FlipsAreReal
    OnlyTheRecipient
    EventuallyAnswered
