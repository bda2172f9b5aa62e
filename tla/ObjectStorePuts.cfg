SPECIFICATION FairSpec
CONSTANTS
  a = a
  b = b
  Objs = {o1, o2}
  Values = {a, b}
  Size <- MCSize
  MaxSize = 2
  Budget = 1
  MaxRefs = 1
  PutOnce = FALSE
  Putters = {c1, c2}
  Pollers = {p1}
  Spillers = {}
  Torn = Torn
  None = None
INVARIANT OvershootBounded
INVARIANT PollSeesStored
PROPERTY CallsReturn
