SPECIFICATION FairSpec
CONSTANTS
  s1 = s1
  s2 = s2
  s3 = s3
  t1 = t1
  t2 = t2
  Res <- MCRes
  Total <- MCTotal
  Subs = {s1, s2}
  TaskIds = {t1, t2}
  TaskOf <- MCTaskOf2
  Need <- MCNeed2
  ChanCap = 2
  Clients = {c1}
CHECK_DEADLOCK FALSE
PROPERTY EndsAreReported
