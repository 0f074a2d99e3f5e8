SPECIFICATION FairSpec
CONSTANTS
    Properties = {"monitor", "command"}
    Monitor = "monitor"
    Channels = {"command"}
    Stamped = {"monitor"}
    Form <- MCForm
    Readings = {"garbled", "busy", "ready", "standby"}
    Steady = {"ready", "standby"}
    Reading <- MCReading
    MaxVersion <- MCMaxVersion
    MaxEvents = 2
INVARIANTS
    TypeOK
    MonitorIsNewest
    NothingUndecoded
    NoFutureEventRefused
PROPERTIES
    GoesBackOnlyInTheWindow
    MaintenanceForward
    SettlesOnCloud
