SPECIFICATION Spec
CONSTANTS
  Calls = {c1}
  Destroyers = {d1}
  Nobody = nobody
  a = a
  z = z
  v1 = v1
  v2 = v2
  Paths <- MCPaths
  Deep <- MCDeep
  File = a
  Contents <- MCContents
  Folder = folder
  Absent = absent
  Missing = missing
  MaxEdits = 2
INVARIANTS
  TypeOK
  ReadsAreTrue
  ListingsAreTrue
  LateRequestsFail
