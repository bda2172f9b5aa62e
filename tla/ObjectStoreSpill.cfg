SPECIFICATION Spec
CONSTANTS
  a = a
  b = b
  Objs = {o1}
  Values = {a, b}
  Size <- MCSize
  MaxSize = 2
  Budget = 2
  MaxRefs = 2
  PutOnce = FALSE
  Putters = {c1}
  Pollers = {}
  Spillers = {s1, s2}
  Torn = Torn
  None = None
INVARIANT RefsPositive
INVARIANT SpillFaithful
PROPERTY RestoreFaithful
PROPERTY GoneStaysGone
