CONSTANTS
  None = None
  Postes = {p, q}
  Reports <- MCReports
  Windows = {2}
  Thresholds = {15, 30}
  Ages = {2}
  Mails = {"on"}
  Env <- MCEnv
  DayHours = 24
  HourParts = 2
  Offline = 3
  Retention = 1
  Slots = {s1, s2}
  MaxTime = 3
  MaxLoad = 5
  Load <- MCLoad
SYMMETRY Alike
SPECIFICATION Spec
CHECK_DEADLOCK FALSE
INVARIANTS SettingsHold VerdictInForce HoursCounted
