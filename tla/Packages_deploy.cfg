CONSTANTS
  None = None
  PackageIds = {p, q}
  Names = {"a", "b"}
  Contents = {c1, c2}
  Programs = {"a", None}
  Postes = {m1, m2}
  Publishers = {}
  Slots = {s1, s2}
  MaxDownloads = 1
  MaxLoad = 3
  Load <- MCLoad
SYMMETRY Alike
CHECK_DEADLOCK FALSE
SPECIFICATION Spec
INVARIANTS SignedAsIs   RanAsSigned
