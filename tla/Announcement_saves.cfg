SPECIFICATION Spec
CONSTANTS
  Id = {a1, a2}
  Request = {r1, r2}
  Content <- MCContent
  Setting <- OneSetting
  SNAPSHOT_INTERVAL = 3
  MaxVersion = 3
  MaxHistory = 3
  other = a2
CONSTRAINT Bound
SYMMETRY Symmetry
INVARIANTS VersionsComplete DeltasJoinVersions RowIsLatest DetailsAreSaved SnapshotsComplete
