-------------------------- MODULE MCDirectMessages ---------------------------
(***************************************************************************)
(* Small instances of DirectMessages.  Both Matrix users have an account   *)
(* on Rocket.Chat; v3 has not: in BothOnMatrix the two write to each       *)
(* other, in OneSender v3 writes to each of them.                          *)
(***************************************************************************)

EXTENDS DirectMessages, TLC

CONSTANTS h1, h2, v1, v2, v3, c1, c2, bot

MCHumans == {h1, h2}
MCVirtuals == {v1, v2, v3}
MCAccount == (h1 :> v1) @@ (h2 :> v2)

BothOnMatrix == (c1 :> {v1, v2})
OneSender == (c1 :> {v1, v3}) @@ (c2 :> {v2, v3})

RoomSymmetry == Permutations(Rooms)
RoomThreadSymmetry == Permutations(Rooms) \cup Permutations(WebhookThreads)

=============================================================================
