SPECIFICATION FairSpec
CONSTANTS
  h1 = h1
  v1 = v1
  v2 = v2
  c1 = c1
  c2 = c2
  bot = bot
  None = None
  Bot = bot
  Humans = {h1}
  Virtuals = {v1, v2}
  Channels = {c1}
  Rooms = {r1, r2}
  TransactionThreads = {t1}
  WebhookThreads = {w1}
  Account <- MCAccount
  RcMembers <- MembersBoth
  MaxRequests = 4
  MaxFaults = 0
CHECK_DEADLOCK FALSE
INVARIANT ReportedBridgeIsTwoWay
PROPERTY HandlersFinish
