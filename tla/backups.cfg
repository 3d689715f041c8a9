SPECIFICATION Spec
CONSTANTS
  Image = {x, y}
  MaxItem = 1
  Request = {r1}
  Process = {b1, b2}
  NoImage = NoImage
  Gone = Gone
  Nobody = Nobody
  MaxClock = 2
  MaxBackups = 2
  Retention = 1
  Absent = Absent
SYMMETRY Symmetry
INVARIANT BackupTypeOK
INVARIANT CopyFindsItsImages
INVARIANT ReservedNamesAreOwned
PROPERTY VerifiedArchivesStay
PROPERTY ArchivesAreSnapshots
