SPECIFICATION Spec
CONSTANTS
    Callers = {c1, c2}
    Beverages = {b1}
    NoOne = NoOne
    NoBeverage = NoBeverage
    LearnsFromApp = TRUE
    ConnectedProperty = TRUE
    ResponseProperty = FALSE
    AckEnabled = FALSE
    OfferedKinds = {"wake", "stop"}
    MonitorStates = {"ready"}
    SessionHolders = {"free"}
    StreamStates = {FALSE}
    OnlineStates = {TRUE}
INVARIANTS
    StatusOfRunningCommandKept
