SPECIFICATION FairSpec
CONSTANTS
    States = {"s1", "s2"}
    InitialState = "s1"
    Limit = 2
    Confirmable = TRUE
    MaxCommands = 3
CHECK_DEADLOCK FALSE
INVARIANTS
    TypeOK
    NoLostWakeup
    AckCache
    NoAckMissed
PROPERTIES
    OutcomeHonest
    CommandEnds
