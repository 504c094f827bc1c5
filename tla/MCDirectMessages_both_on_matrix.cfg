SPECIFICATION FairSpec
CONSTANTS
  h1 = h1
  h2 = h2
  v1 = v1
  v2 = v2
  v3 = v3
  c1 = c1
  c2 = c2
  bot = bot
  None = None
  Bot = bot
  Humans <- MCHumans
  Virtuals = {v1, v2}
  Channels = {c1}
  Ends <- BothOnMatrix
  Account <- MCAccount
  Rooms = {r1, r2}
  Registered = {v1}
  WebhookThreads = {w1, w2}
  MaxRequests = 3
  MaxFaults = 1
CHECK_DEADLOCK FALSE
INVARIANT TypeOK
INVARIANT RoomIsTheSenders
INVARIANT ReceiverHasAccess
INVARIANT AnswersComeBack
PROPERTY BotLeaves
PROPERTY DroppedOnlyInARace
