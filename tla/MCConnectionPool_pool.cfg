SPECIFICATION FairSpec
CONSTANTS
  TransactionThreads = {t1}
  WebhookThreads = {w1, w2}
  None = None
  Connections = 2
  RocketchatUsers <- MCRocketchatUsers
  PageSize = 1
  MaxRequests = 2
  MaxServed = 3
  MaxChanges = 2
CHECK_DEADLOCK FALSE
INVARIANT TypeOK
INVARIANT PoolWaitsForWork
INVARIANT MissedOnlyIfSomebodyWent
INVARIANT RepeatedOnlyIfSomebodyCame
PROPERTY EveryRequestIsAnswered
