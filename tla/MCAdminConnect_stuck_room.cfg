SPECIFICATION Spec
CONSTANTS
  Letters = {"b"}  Capitals = {"B"}  LowerCase <- MCLowerCase  Underscore = "_"  Hash = "#"
  MaxIdLength = 2
  RocketchatIds <- MCRocketchatIds
  SenderLocalparts <- MCSenderLocalparts
  h1 = h1  h2 = h2  r1 = r1  r2 = r2  r3 = r3
  Humans = {h1, h2}
  Rooms = {r1, r2, r3}
  Owner <- MCOwner
  Urls = {u1, u2}
  Ids <- MCIds
  ValidIds <- MCValidIds
  Tokens = {k1, k2}
  None = None
  Tx = tx
  LoginThreads = {l1}
  MaxRequests = 3
  MaxFaults = 1
SYMMETRY ConnectSymmetry
INVARIANT AlreadyConnectedIsTrue
CHECK_DEADLOCK FALSE
