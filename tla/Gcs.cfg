SPECIFICATION Spec
CONSTANTS
  Res = {"CPU"}
  Byte = {0, 1}
  IdLen = 2
  ObjectIdLen = 3
  NodeMsgs <- MCNodeMsgs
  ActorMsgs <- MCActorMsgs
  JobMsgs <- MCJobMsgs
  UsageMsgs <- MCUsageMsgs
  IdMsgs <- MCIdMsgs
  Avails <- MCAvails
  Reporters = {r1, r2}
INVARIANT MembershipFaithful
INVARIANT RepliesUsable
