SPECIFICATION FairSpec
CONSTANTS
  s1 = s1
  s2 = s2
  s3 = s3
  t1 = t1
  t2 = t2
  Res <- MCRes
  Total <- MCTotal
  Subs = {s1, s2, s3}
  TaskIds = {t1, t2}
  TaskOf <- MCTaskOf
  Need <- MCNeed
  ChanCap = 2
  Clients = {c1}
CHECK_DEADLOCK FALSE
INVARIANT Conservation
INVARIANT ExactlyOnce
INVARIANT StatusAgrees
INVARIANT ReadYourSubmit
PROPERTY CancelSticks
PROPERTY AllocSafe
PROPERTY AllocFair
PROPERTY EverySubmissionHandled
PROPERTY EveryQueryAnswered
PROPERTY PolledTasksStart
