--------------------------- MODULE MCChannelBridge ---------------------------
(***************************************************************************)
(* Small instances of ChannelBridge.  The configurations differ in the     *)
(* threads: one transaction thread is a homeserver that pushes one         *)
(* transaction at a time, two are what a transaction that timed out and    *)
(* was pushed again makes of it.                                           *)
(***************************************************************************)

EXTENDS ChannelBridge, TLC

CONSTANTS h1, v1, v2, c1, c2, bot

MCHumans == {h1}
MCAccount == [h \in Humans |-> v1]

\* Every channel has the requester's account among its members.
MembersBoth == [c \in Channels |-> Virtuals]

RoomThreadSymmetry == Permutations(Rooms) \cup Permutations(TransactionThreads)

=============================================================================
