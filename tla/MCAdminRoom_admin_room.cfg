SPECIFICATION FairSpec
CONSTANTS
  Humans = {h1, h2}
  Virtuals = {v1}
  Bot = bot
  AcceptRemoteInvites = FALSE
  MaxBatch = 2
  MaxEvents = 5
  MaxFaults = 1
CHECK_DEADLOCK FALSE
INVARIANT TypeOK
INVARIANT CrowdIsNoticed
INVARIANT CrowdIsNotObeyed
INVARIANT RefusedForAThird
PROPERTY BotLeaves
