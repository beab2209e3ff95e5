CONSTANTS
  p1 = p1
  p2 = p2
  p3 = p3
  v1 = v1
  v2 = v2
  Procs <- MCThree
  Versions <- MCVersions
  Chunks = 2
  Faults = TRUE
  Overlap = TRUE
  NoVerify = TRUE
  None = None
SPECIFICATION Spec
CHECK_DEADLOCK FALSE
SYMMETRY MCSymmetry
INVARIANTS TypeOK NoTempLeft VerifiedOnly VersionIsInstalled
PROPERTIES InstallRepairs
