----------------------------- MODULE MCAdminRoom -----------------------------
(***************************************************************************)
(* A small instance of AdminRoom: a room made by one of two Matrix users   *)
(* or by a virtual user.                                                   *)
(***************************************************************************)

EXTENDS AdminRoom

=============================================================================
