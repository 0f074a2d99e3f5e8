SPECIFICATION FairSpec
CONSTANTS
    Callers = {c1, c2}
    Beverages = {}
    NoOne = NoOne
    NoBeverage = NoBeverage
    LearnsFromApp = TRUE
    ConnectedProperty = TRUE
    ResponseProperty = TRUE
    AckEnabled = TRUE
    OfferedKinds = {"wake"}
    MonitorStates = {"standby", "ready"}
    SessionHolders = {"free", "other"}
    StreamStates = {TRUE, FALSE}
    OnlineStates = {TRUE}
PROPERTIES
    AcknowledgedOnEvidence
    TransactionEnds
