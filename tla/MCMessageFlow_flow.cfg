SPECIFICATION Spec
CONSTANTS
  h1 = h1  m1 = m1  m2 = m2  n1 = n1  u1 = u1  w1 = w1
  Humans = {h1}
  MatrixMessages = {m1, m2, n1, u1}
  RcMessages = {w1}
  Notices = {n1}
  Untyped = {u1}
  Parts <- MCParts
  Author <- MCAuthor
  None = None
  TransactionThreads = {x1, x2}
  WebhookThreads = {k1, k2}
  Threshold = 0
  MaxBatch = 2
  MaxWritten = 2
  MaxPosts = 2
  MaxTime = 2
  MaxFaults = 1
SYMMETRY ThreadSymmetry
INVARIANTS TypeOK NoLoop OncePerPush InOrder OnlyLateEchoes AnsweredIsPosted CopiesAreWhole
CHECK_DEADLOCK FALSE
