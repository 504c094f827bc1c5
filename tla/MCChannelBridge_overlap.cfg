SPECIFICATION Spec
CONSTANTS
  h1 = h1
  v1 = v1
  v2 = v2
  c1 = c1
  c2 = c2
  bot = bot
  None = None
  Bot = bot
  Humans = {h1}
  Virtuals = {v1}
  Channels = {c1, c2}
  Rooms = {r1, r2}
  TransactionThreads = {t1, t2}
  WebhookThreads = {w1}
  Account <- MCAccount
  RcMembers <- MembersBoth
  MaxRequests = 3
  MaxFaults = 2
CHECK_DEADLOCK FALSE
SYMMETRY RoomThreadSymmetry
INVARIANT TypeOK
INVARIANT AliasedRoomHasBot
INVARIANT UnbridgedRoomIsLeft
PROPERTY NotTakenUpAgain
PROPERTY ImplementsContract
PROPERTY RefusedOnlyInARace
