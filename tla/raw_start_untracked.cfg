SPECIFICATION Spec
CONSTANTS
    Callers = {c1, c2}
    Beverages = {b1}
    NoOne = NoOne
    NoBeverage = NoBeverage
    LearnsFromApp = TRUE
    ConnectedProperty = TRUE
    ResponseProperty = FALSE
    AckEnabled = TRUE
    OfferedKinds = {"rawStart", "stop"}
    MonitorStates = {"ready", "preparing"}
    SessionHolders = {"free"}
    StreamStates = {TRUE}
    OnlineStates = {TRUE}
PROPERTIES
    StopAvailableAfterWrite
