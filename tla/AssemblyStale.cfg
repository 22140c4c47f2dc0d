SPECIFICATION Spec
CONSTANTS
  Singles = {s1}
  Pairs = {p1}
  Triples = {t1}
  Msgs <- MCMsgs
  Length <- MCLength
  Cells = {c1, c2}
  NumPorts = 2
  FirstIds = {3, 5}
  Null = Null
  Lossy <- MCLossy
  Lossless = {s1, p1, t1}
  Quiet = FALSE
CHECK_DEADLOCK FALSE
SYMMETRY Symmetry
INVARIANT AlwaysAssigned
