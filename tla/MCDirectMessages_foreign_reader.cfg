SPECIFICATION Spec
CONSTANTS
  h1 = h1
  h2 = h2
  v1 = v1
  v2 = v2
  v3 = v3
  c1 = c1
  c2 = c2
  bot = bot
  None = None
  Bot = bot
  Humans <- MCHumans
  Virtuals <- MCVirtuals
  Channels = {c1, c2}
  Ends <- OneSender
  Account <- MCAccount
  Rooms = {r1, r2}
  Registered = {v1}
  WebhookThreads = {w1}
  MaxRequests = 2
  MaxFaults = 0
CHECK_DEADLOCK FALSE
INVARIANT NoForeignReader
