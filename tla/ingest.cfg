SPECIFICATION Spec
CONSTANTS
    None = None
    s1 = s1 s2 = s2 a = a j1 = j1 j2 = j2
    Sockets = {s1, s2}
    Imeis = {a}
    Speaks <- OneDevice
    Reports = {1, 2, 3}
    Owner <- AllOfA
    Undecodable = {3}
    Jobs = {j1, j2}
    MaxCrashes = 1
INVARIANTS
    TypeOK
    RegisteredSocketIsLive
    OnlineIsExact
    AnnouncementsAreTrue
    InsertFindsItsDevice
    AckedIsStoredOrFailed
    PublishedIsStored
    EveryReportIsAnswered
    ConnectedColumnIsExact
    
PROPERTIES
    ImplementsPipeline
SYMMETRY Alike
CHECK_DEADLOCK FALSE
