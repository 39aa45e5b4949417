SPECIFICATION FairSpec
CONSTANTS
    Calls = {c1, c2}
    Builtin = {"android", "browser"}
    Dialed = {"acme"}
    ServedBy <- MCServedBy
    ModuleServices <- MCModuleServices
    Installs <- MCInstalls
    MaxConns = 2
    MaxDials = 1
    MaxSessions = 1
    MaxServices = 1
    MayCrash = {"service", "dialed"}
INVARIANTS NoStray CapturesAreStopped
PROPERTIES TablesFollow ShutdownEnds
