SPECIFICATION Spec
CONSTANTS
  Null = Null
  Subs = {s1, s2}
  Blocks = {b1, b2}
  BatchSize = 2
  MaxLines = 4
  MaxEvents = 1
SYMMETRY Symmetry
INVARIANTS TypeOK StoredOnce NothingDropped HolderIsNamed
PROPERTY EvidenceKept
CHECK_DEADLOCK FALSE
