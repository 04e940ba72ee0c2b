SPECIFICATION Spec
CONSTANTS
    None = None
    s1 = s1 s2 = s2 a = a r1 = r1 r2 = r2 r3 = r3
    lat = lat long = long ignition = ignition
    Sockets = {s1, s2}
    Devices = {a}
    Speaks <- OneDevice
    Reports = {r1, r2, r3}
    Owner <- AllOfA
    Columns = {lat, long, ignition}
    Carries <- SomeColumns
    Lat = lat
    Long = long
    MaxCrashes = 1
INVARIANTS
    TypeOK
    OnlineIsExact
    ConnectedColumnIsExact
    PositionIsOneReports
    SnapshotIsLatest
PROPERTIES
    NothingKnownIsForgotten
    ImplementsPipeline
SYMMETRY Alike
CHECK_DEADLOCK FALSE
