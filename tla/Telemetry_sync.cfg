SPECIFICATION FairSpec
CONSTANTS
    p = p
    q = q
    d1 = d1
    d2 = d2
    None = None
    Block = {"updates", "inventory"}
    Item = {p}
    Detection = {d1}
    Old = {}
    Late = 0
    Gens = 2
INVARIANTS AckedIsStored AlertedOnce
PROPERTIES ThreatsSettle
