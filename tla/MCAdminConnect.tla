---------------------------- MODULE MCAdminConnect ----------------------------
(***************************************************************************)
(* Small instances of AdminConnect: the first human has two admin rooms,   *)
(* everybody else has one.                                                 *)
(***************************************************************************)

EXTENDS ConnectedServers, TLC

CONSTANTS h1, h2, r1, r2, r3

MCOwner == (r1 :> h1) @@ (r2 :> h1) @@ (r3 :> h2)

MCLowerCase == ("B" :> "b")

\* Two valid ids, one that is too long, and one with each character that is not allowed.
MCIds == {<<"b">>, <<"b", "b">>, <<"b", "b", "b">>, <<"b", "_">>, <<"b", "#">>, <<"b", "B">>}
MCValidIds == {name \in MCIds : IsServerId(name)}

\* Nothing checks the ids of Rocket.Chat: a separator may be anywhere in them.
MCRocketchatIds ==
  {<<"b">>, <<"B">>, <<"b", "b">>, <<"_">>, <<"_", "b">>, <<"b", "_">>, <<"#", "b">>, <<"b", "#">>}

MCSenderLocalparts == {<<"b">>, <<"b", "_">>, <<"b", "#">>}

ConnectSymmetry == Permutations(Urls) \cup Permutations(Tokens) \cup Permutations(LoginThreads)

=============================================================================
