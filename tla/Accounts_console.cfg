CONSTANTS
  root = root
  manager = manager
  other = other
  admins = admins
  managers = managers
  composed = composed
  Users = {root, manager, other}
  Groups = {admins, managers, composed}
  Admins = admins
  Catalogue = {"user:write", "machine:read"}
  UserWrite = "user:write"
  Places = {"site"}
  Elsewhere = "elsewhere"
  Member <- MCMember
  Composed = {managers}
  Grants <- MCGrants
  Confined <- MCConfined
  a = a
  b = b
  Addresses = {a, b}
  MaxHits <- MCMaxHits
  Window = 2
  MaxKeys = 1
  MaxFailed = 2
  LockTime = 1
  LinkTtl = 1
  LinkGrace = 1
  Links = {1, 2}
  Slots = {1, 2}
  AdminSlots = {1}
  MaxTime = 3
  MaxLoad = 30
  Load <- MCLoad
CHECK_DEADLOCK FALSE
SYMMETRY SameAddresses
SPECIFICATION Spec
INVARIANTS RateBounded SerialGuessesLock 
PROPERTIES NoEscalation
