CONSTANTS
  Postes = {p, q}
  RoomIds = {"r1", "r2"}
  BuildingIds = {"A"}
  Sites = {"north"}
  Keys = {"ou1", "ou2"}
  Names <- MCNames
  NameOf <- MCNameOf
  Scopes <- MCScopes
  Checks = {c1, c2}
  Cycles = {0, 1}
  CycleDays = 1
  DueSoon = 0
  Slots = {s1, s2}
  MaxTime = 3
  MaxLoad = 6
  Load <- MCLoad
SYMMETRY Alike
CHECK_DEADLOCK FALSE
SPECIFICATION Spec
INVARIANTS FiledRight LastKept JournalFollows 
PROPERTIES ScopeHolds
