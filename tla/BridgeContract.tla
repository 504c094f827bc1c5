--------------------------- MODULE BridgeContract ----------------------------
(***************************************************************************)
(* What bridging promises, without the calls it is made of: a Rocket.Chat  *)
(* channel is bound to at most one Matrix room, a room belongs to one      *)
(* channel for ever, a room that lost its channel is never bound again,    *)
(* and a message only ever crosses between a channel and a room that was   *)
(* made for it.                                                            *)
(***************************************************************************)

CONSTANTS Channels, Rooms, None

VARIABLES
  owner,      \* the channel a room was made for, None for a room not made yet
  bound,      \* the room a channel is bound to, or None
  forwarded,  \* <<channel, room>>: a message of the channel was sent to the room
  posted      \* <<room, channel>>: a message of the room was posted in the channel

contractVars == <<owner, bound, forwarded, posted>>

Init ==
  /\ owner = [r \in Rooms |-> None]
  /\ bound = [c \in Channels |-> None]
  /\ forwarded = {}
  /\ posted = {}

Bind(c, r) ==
  /\ bound[c] = None
  /\ owner[r] = None
  /\ owner' = [owner EXCEPT ![r] = c]
  /\ bound' = [bound EXCEPT ![c] = r]
  /\ UNCHANGED <<forwarded, posted>>

Unbind(c) ==
  /\ bound[c] # None
  /\ bound' = [bound EXCEPT ![c] = None]
  /\ UNCHANGED <<owner, forwarded, posted>>

Forward(c, r) ==
  /\ owner[r] = c
  /\ forwarded' = forwarded \cup {<<c, r>>}
  /\ UNCHANGED <<owner, bound, posted>>

Post(r, c) ==
  /\ owner[r] = c
  /\ posted' = posted \cup {<<r, c>>}
  /\ UNCHANGED <<owner, bound, forwarded>>

Next ==
  \E c \in Channels :
    \/ Unbind(c)
    \/ \E r \in Rooms : Bind(c, r) \/ Forward(c, r) \/ Post(r, c)

Spec == Init /\ [][Next]_contractVars

=============================================================================
