SPECIFICATION Spec
CONSTANTS
  p1 = p1
  p2 = p2
  c1 = c1
  c2 = c2
  c3 = c3
  Producer = {p1}
  Consumer = {c1, c2}
  MaxSize = 1
  MaxPushes = 1
  Usages = {"wait"}
PROPERTIES WaitHolds
