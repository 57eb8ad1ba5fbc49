CONSTANTS
  Loads = {t1, t2, t3, t4}
  Batch = {t1, t2}
  Names = {manifest, a}
  Manifest = manifest
  x = x
  y = y
  z = z
  Contents <- MCContents
  Size <- MCSize
  StagingBytes = 4
  SnapshotBytes = 4
  PackageMax = 4
  Leases = {l1}
  None = None
SPECIFICATION Spec
SYMMETRY LeaseSymmetry
CHECK_DEADLOCK FALSE
INVARIANTS
  QuotasHold
  ReservationsExact
  ObjectsExact
  ReservationHonoured
