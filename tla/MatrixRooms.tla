----------------------------- MODULE MatrixRooms -----------------------------
(***************************************************************************)
(* What the application service asks the Matrix homeserver about rooms and *)
(* what the homeserver answers.  The requests are those of                 *)
(* api/matrix/r0.rs; the homeserver itself is external, and is modelled by *)
(* when it grants a request (May...) and by what a granted request does to *)
(* the members of a room.  A request that is not granted is answered with  *)
(* an error status, which every function of r0.rs turns into an Err.       *)
(***************************************************************************)

CONSTANTS
  Humans,     \* Matrix users that are not in the application service's namespace
  Virtuals,   \* the virtual users of the Rocket.Chat users
  Bot         \* the bot user, @<sender_localpart>:<hs_domain>

ASSUME UsersAreDistinct ==
  /\ Humans \cap Virtuals = {}
  /\ Bot \notin Humans \cup Virtuals

Users == Humans \cup Virtuals \cup {Bot}

\* Config::is_application_service_user
AsUsers == Virtuals \cup {Bot}

Membership == {"out", "invite", "join"}

NoMembers == [u \in Users |-> "out"]

(***************************************************************************)
(* m is a function from rooms to the membership of every user.             *)
(***************************************************************************)

\* Room::user_ids keeps only the members whose membership is Join: a user who
\* is invited does not count.
Joined(m, r) == {u \in Users : m[r][u] = "join"}

\* The state and the members of a private room are readable by its members.
MayRead(m, r, u) == m[r][u] = "join"

\* The homeserver refuses to invite a user who is already in the room.
MayInvite(m, r, by, u) == m[r][by] = "join" /\ m[r][u] # "join"

Invite(m, r, u) == [m EXCEPT ![r][u] = "invite"]

MayJoin(m, r, u) == m[r][u] # "out"

Join(m, r, u) == [m EXCEPT ![r][u] = "join"]

MayLeave(m, r, u) == m[r][u] # "out"

Leave(m, r, u) == [m EXCEPT ![r][u] = "out"]

\* Only a user who is in the room can send a message to it.
MaySend(m, r, u) == m[r][u] = "join"

=============================================================================
