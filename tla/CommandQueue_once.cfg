SPECIFICATION Spec
CONSTANTS
    c1 = c1
    c2 = c2
    NoCommand = NoCommand
    Command = {c1, c2}
    TypeOf <- Same
    Long = {c1}
    Unknown = {}
    Deploy = {c1}
    Ttl = 1
    Retention = 1
    Backlog = 1
    QueueMax = 1
    Admins = 1
    Strays = 1
    MaxTime = 4
CONSTRAINT OneOrPair
INVARIANTS
    AtMostOnce
    NeverRunUnseen
    VerdictTruthful
    VerdictKept
    OneLivePerType
PROPERTIES
    RunsOnceOnly
