SPECIFICATION CatalogSpec
CONSTANTS
  Image = {x, y, z}
  MaxItem = 2
  Request = {r1, r2, r3}
  Process = {}
  NoImage = NoImage
  Gone = Gone
  Nobody = Nobody
SYMMETRY Symmetry
INVARIANT CatalogTypeOK
INVARIANT RowsHaveFiles
INVARIANT NoSharedImage
