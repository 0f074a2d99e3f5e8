SPECIFICATION Spec
CONSTANTS
    Callers = {c1, c2}
    Beverages = {b1}
    NoOne = NoOne
    NoBeverage = NoBeverage
    LearnsFromApp = TRUE
    ConnectedProperty = TRUE
    ResponseProperty = FALSE
    AckEnabled = TRUE
    OfferedKinds = {"start", "stop", "sync"}
    MonitorStates = {"ready", "preparing"}
    SessionHolders = {"free", "device"}
    StreamStates = {TRUE}
    OnlineStates = {TRUE}
SYMMETRY CallerSymmetry
INVARIANTS
    TypeOK
    OneTransaction
    WritesInOwnSession
PROPERTIES
    StartKeepsStop
    StatusTellsOutcome
    ImplementsSerialCommands
