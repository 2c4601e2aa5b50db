SPECIFICATION Spec
CONSTANTS
  Proc = {p, q}
  Key = {k1, k2}
  Value = {v1}
  Unset = Unset
  Absent = Absent
  Torn = Torn
  MaxStarts = 2
CHECK_DEADLOCK FALSE
SYMMETRY Symmetric
INVARIANTS TypeOK LatestIsRead FileIsWhole
