SPECIFICATION ServerFairSpec
CONSTANTS
    c1 = c1
    c2 = c2
    NoCommand = NoCommand
    Command = {c1}
    TypeOf <- Same
    Long = {c1}
    Unknown = {}
    Deploy = {}
    Ttl = 1
    Retention = 1
    Backlog = 1
    QueueMax = 1
    Admins = 1
    Strays = 1
    MaxTime = 3
PROPERTIES
    QueueSettles
    VerdictLands
