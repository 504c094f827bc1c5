SPECIFICATION Spec
CONSTANTS
  Letters = {"b"}  Capitals = {"B"}  LowerCase <- MCLowerCase  Underscore = "_"  Hash = "#"
  MaxIdLength = 2
  RocketchatIds <- MCRocketchatIds
  SenderLocalparts <- MCSenderLocalparts
  h1 = h1  h2 = h2  r1 = r1  r2 = r2  r3 = r3
  Humans = {h1, h2}
  Rooms = {r1, r2, r3}
  Owner <- MCOwner
  Urls = {u1, u2}
  Ids <- MCIds
  ValidIds <- MCValidIds
  Tokens = {k1, k2}
  None = None
  Tx = tx
  LoginThreads = {l1, l2}
  MaxRequests = 6
  MaxFaults = 2
SYMMETRY ConnectSymmetry
INVARIANT TypeOK
INVARIANT ServerHasAUser
INVARIANT ConnectedRoomIsUsable
INVARIANT ReportedLoginLasts
INVARIANT VirtualUserIsTakenApart
INVARIANT VirtualUsersDiffer
INVARIANT RoomAliasIsTakenApart
CHECK_DEADLOCK FALSE
