SPECIFICATION Spec
CONSTANTS
  Singles = {s1}
  Pairs = {p1,p2}
  Triples = {t1}
  Lossless = {s1,p1,p2}
  Msgs <- MCMsgs
  Length <- MCLength
  Lossy <- MCLossy
  Cells = {c1, c2, c3}
  NumPorts = 2
  FirstIds = {3, 4}
  Null = Null
  Quiet = TRUE
CHECK_DEADLOCK FALSE
SYMMETRY Symmetry
INVARIANT TypeOK ListWellFormed RemainingExact DeliveredToAddressee
PROPERTY ImplementsAssembly
