----------------------------- MODULE Identifiers -----------------------------
(***************************************************************************)
(* The names by which the bridge finds everything again.  It stores        *)
(* neither the rooms of channels nor its virtual users: which server and   *)
(* channel a room belongs to is read out of the room's canonical alias,    *)
(* and which server and user a virtual user stands for is read out of its  *)
(* Matrix id.  A name is a sequence of characters; the part ":<hs_domain>" *)
(* that all of them end with is left out.                                  *)
(***************************************************************************)

EXTENDS Naturals, SequencesExt

CONSTANTS
  Letters,           \* lower-case letters and digits
  Capitals,          \* upper-case letters
  LowerCase,         \* the lower-case letter of each of them
  Underscore, Hash,  \* the characters that hold names together
  MaxIdLength        \* MAX_ROCKETCHAT_SERVER_ID_LENGTH

ASSUME IdentifiersFit ==
  /\ Letters \cap Capitals = {}
  /\ {Underscore, Hash} \cap (Letters \cup Capitals) = {}
  /\ Underscore # Hash
  /\ LowerCase \in [Capitals -> Letters]
  /\ MaxIdLength \in Nat

Chars == Letters \cup Capitals \cup {Underscore, Hash}

Lower(name) ==
  [i \in 1..Len(name) |-> IF name[i] \in Capitals THEN LowerCase[name[i]] ELSE name[i]]

-----------------------------------------------------------------------------

\* Mutant: any character that is not upper-case is accepted.
IsServerIdWithoutCapitals(name) ==
  /\ name # <<>>
  /\ Len(name) <= MaxIdLength
  /\ ToSet(name) \cap Capitals = {}

\* The check of a server id by connect_new_rocketchat_server: is_digit(36) and not upper-case.
IsServerId(name) ==
  /\ name # <<>>
  /\ Len(name) <= MaxIdLength
  /\ ToSet(name) \subseteq Letters

\* VirtualUser::build_user_id.  UserId::try_from turns the name into lower case.
BuildUserId(localpart, user, server) ==
  Lower(localpart \o <<Underscore>> \o server \o <<Underscore>> \o user)

\* RocketchatRoom::build_room_alias_name
BuildRoomAliasName(localpart, channel, server) ==
  localpart \o <<Hash>> \o server \o <<Hash>> \o channel

\* splitn(2, c): what is before the first c and what is behind it, nothing if there is none.
SplitOnce(name, c) ==
  IF c \notin ToSet(name) THEN <<name, <<>>>>
  ELSE LET i == CHOOSE j \in DOMAIN name : name[j] = c /\ \A k \in 1..(j - 1) : name[k] # c IN
       <<SubSeq(name, 1, i - 1), SubSeq(name, i + 1, Len(name))>>

\* Mutant: split at the last underscore.
ServerAndUserFromTheEnd(name) ==
  LET parts == SplitOnce(Reverse(SplitOnce(name, Underscore)[2]), Underscore) IN
  <<Reverse(parts[2]), Reverse(parts[1])>>

\* VirtualUser::rocketchat_server_and_user_id_from_matrix_id
ServerAndUser(name) == SplitOnce(SplitOnce(name, Underscore)[2], Underscore)

\* split('#').nth(2) of the alias without its leading '#'
ThirdPart(alias) == SplitOnce(SplitOnce(SplitOnce(alias, Hash)[2], Hash)[2], Hash)[1]

\* Room::rocketchat_server: split('#').nth(2) of the whole alias.
ServerOfAlias(alias) == ThirdPart(<<Hash>> \o alias)

\* Room::rocketchat_channel_id: the same of the alias' local part.
ChannelOfAlias(alias) == ThirdPart(alias)

=============================================================================
