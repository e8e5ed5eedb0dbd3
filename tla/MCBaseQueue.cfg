CONSTANTS
  Producers = {p1, p2}
  Consumers = {c1}
  Items = {a, b, c, d}
  Slots = 2
  NULL = NULL
SPECIFICATION Spec
INVARIANTS
  TypeOK
  OneOwner
  CellsMatchCursors
PROPERTY FifoSpec
