-------------------------- MODULE ConnectedServers ---------------------------
(***************************************************************************)
(* The servers that connect has accepted, and the names that are made with *)
(* their ids: nothing but the check of connect keeps an id out of the      *)
(* database that would make two names equal, or lead a message of a room   *)
(* or of a virtual user to another server.                                 *)
(***************************************************************************)

EXTENDS AdminConnect, Identifiers

CONSTANTS
  SenderLocalparts,  \* values of sender_localpart, which the configuration does not check
  RocketchatIds      \* ids of users and channels, which Rocket.Chat chooses and nothing checks

ASSUME ServersAreNamed ==
  /\ Ids \cup SenderLocalparts \cup RocketchatIds \subseteq Seq(Chars)
  /\ ValidIds = {name \in Ids : IsServerId(name)}

\* The server and the user that a virtual user stands for are read out of its Matrix id as they
\* were put in, up to capitals, although a user's id can contain the separator.  (If
\* sender_localpart contains an underscore the parts are shifted.)
VirtualUserIsTakenApart ==
  \A localpart \in SenderLocalparts, s \in servers, user \in RocketchatIds :
    Underscore \notin ToSet(localpart) =>
      ServerAndUser(BuildUserId(localpart, user, s.id)) = <<s.id, Lower(user)>>

\* Two Rocket.Chat users, of one connected server or of two, share a virtual user only if they
\* are of one server and their ids differ in nothing but capitals, whatever sender_localpart is.
VirtualUsersDiffer ==
  \A localpart \in SenderLocalparts :
    Cardinality({BuildUserId(localpart, user, s.id) : user \in RocketchatIds, s \in servers}) =
    Cardinality({<<s.id, Lower(user)>> : user \in RocketchatIds, s \in servers})

\* The server is read out of the alias of a room as it was put in, whatever the channel's id is,
\* and so is the channel, unless its id contains a number sign: then the alias ends there for
\* the bridge, and a message of the room goes to a channel that nobody bridged.  (If
\* sender_localpart contains a number sign the parts are shifted.)
RoomAliasIsTakenApart ==
  \A localpart \in SenderLocalparts, s \in servers, channel \in RocketchatIds :
    LET alias == BuildRoomAliasName(localpart, channel, s.id) IN
    Hash \notin ToSet(localpart) =>
      /\ ServerOfAlias(alias) = s.id
      /\ ChannelOfAlias(alias) = channel <=> Hash \notin ToSet(channel)

=============================================================================
