SPECIFICATION Spec
CONSTANTS
  h1 = h1
  v1 = v1
  v2 = v2
  c1 = c1
  c2 = c2
  bot = bot
  None = None
  Bot = bot
  Humans = {h1}
  Virtuals = {v1}
  Channels = {c1}
  Rooms = {r1, r2}
  TransactionThreads = {t1}
  WebhookThreads = {}
  Account <- MCAccount
  RcMembers <- MembersBoth
  MaxRequests = 2
  MaxFaults = 1
CHECK_DEADLOCK FALSE
PROPERTY FailedBridgeIsNotBridged
