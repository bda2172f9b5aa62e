SPECIFICATION FairServerSpec
CONSTANTS
  a = a
  Byte = {0, 1}
  ObjectIdLen = 1
  Objs <- MCObjs
  Values = {a}
  Size <- MCSize
  MaxSize = 1
  Budget = 1
  MaxRefs = 2
  PutOnce = FALSE
  Putters = {h2}
  Pollers = {h1}
  Spillers = {h2}
  Deleters = {h2}
  IdLists <- MCIdLists
  PutLists <- MCPutLists
  PutItems <- MCPutItems
  GetIds <- MCGetIds
  SpillLists <- MCSpillLists
  RefIds <- MCRefIds
  Torn = Torn
  None = None
INVARIANT BatchAccounts
INVARIANT BatchGetAligned
INVARIANT BatchGetSeesStored
PROPERTY ImplementsStore
PROPERTY RequestsAnswered
