SPECIFICATION Spec
CONSTANTS
    None = None
    s1 = s1 s2 = s2 a = a j1 = j1 j2 = j2
    Sockets = {s1, s2}
    Imeis = {a}
    Speaks <- OneDevice
    Reports = {1}
    Owner <- AllOfA
    Undecodable = {}
    Jobs = {}
    MaxCrashes = 0
INVARIANT
    LiveDeviceIsRegistered
CHECK_DEADLOCK FALSE
