SPECIFICATION Spec
CONSTANTS
  Writers = {u, v, w}
  Chunk = {x, y}
  MaxWrites = 2
  Hash <- TaggedHash
  NoDigest = none
  NoBlob = nothing
  Faults = TRUE
SYMMETRY Symmetry
CHECK_DEADLOCK FALSE
INVARIANTS
  TypeOK
  LinkedWhole
  CreationAccounted
PROPERTIES
  LinkedForGood
  ImplementsContentStore
