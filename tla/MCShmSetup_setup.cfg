CONSTANTS
  p1 = p1
  p2 = p2
  Attachers <- TwoAttachers
  Configs <- OneOrTwo
  MaxQues = 2
  ShmemSize = 8
  ShmQueSize = 7
  CellSize = 2
  OffSize = 8
  Margin = 4
  MaxStarts = 2
SPECIFICATION Spec
SYMMETRY Interchangeable
INVARIANTS AttachMatches LayoutFits
CHECK_DEADLOCK FALSE
