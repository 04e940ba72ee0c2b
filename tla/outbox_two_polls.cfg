SPECIFICATION Spec
CONSTANTS
    p1 = p1 p2 = p2
    MaxEvents = 1
    Requests = {p1, p2}
    Limit = 2
    MaxCrashes = 0
INVARIANT
    NoEventReturnedTwice
