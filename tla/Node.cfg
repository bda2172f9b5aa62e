SPECIFICATION NodeSpec
CONSTANTS
  rpc = rpc
  fn = fn
  lease = lease
  Res = {"CPU"}
  Total <- MCTotal
  Subs = {rpc, fn}
  TaskIds <- MCTaskIds
  TaskOf <- MCTaskOf
  Need <- MCNeed
  ChanCap = 1
  Clients = {c1}
  Byte = {0, 1, 2}
  IdLen = 1
  ObjectIdLen = 1
  TaskMsg <- MCTaskMsg
  FnSubs = {fn}
  FnReturn <- MCFnReturn
  FnName <- MCFnName
  Fns = {f1, f2}
  Leases = {lease}
  LeaseMsg <- MCLeaseMsg
  IdMsgs <- MCIdMsgs
  PutIds <- MCPutIds
  DeleteIds <- MCDeleteIds
  GetIds <- MCGetIds
  Lists <- MCLists
  Readers = {r1}
  NoFn = NoFn
SYMMETRY FnSymmetry
INVARIANT NodeConservation
INVARIANT ResultsGenuine
INVARIANT LocationsRight
CHECK_DEADLOCK FALSE
