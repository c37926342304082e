SPECIFICATION Spec
CONSTANTS
    s1 = s1
    s2 = s2
    a = a
    b = b
    NoSession = NoSession
    Session = {s1, s2}
    Tab = {a, b}
    Grace = 2
    AccessTtl = 2
    RefreshTtl = 4
    SessionMax = 4
    RoundTrip = 1
    Requests = 2
    Changes = 1
    MaxTime = 3
SYMMETRY BrowserSymmetry
CONSTRAINT TabsOrChange
INVARIANTS
    ShutOut
    LeftIsOver
    SuspectedWasStrained
