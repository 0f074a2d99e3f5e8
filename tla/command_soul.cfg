SPECIFICATION Spec
CONSTANTS
    Callers = {c1, c2}
    Beverages = {b1}
    NoOne = NoOne
    NoBeverage = NoBeverage
    LearnsFromApp = FALSE
    ConnectedProperty = FALSE
    ResponseProperty = FALSE
    AckEnabled = TRUE
    OfferedKinds = {"start", "stop", "standby", "rawStart", "rawStop", "rawPower", "sync"}
    MonitorStates = {"empty", "error", "ready", "pouring"}
    SessionHolders = {"unset"}
    StreamStates = {TRUE, FALSE}
    OnlineStates = {TRUE, FALSE}
SYMMETRY CallerSymmetry
PROPERTIES
    StartKeepsStop
    ImplementsSerialCommands
