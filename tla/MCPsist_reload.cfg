CONSTANTS
  m1 = m1
  m2 = m2
  m3 = m3
  None = None
  Messages <- ThreeMessages
  CountLimit = 4
  QueueLimit = 2
SPECIFICATION Spec
SYMMETRY Symmetry
INVARIANTS StoredDurably IdsTrue LoadMissesLastOnly
PROPERTY OverwritesInOrder
