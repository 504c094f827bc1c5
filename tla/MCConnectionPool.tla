-------------------------- MODULE MCConnectionPool ---------------------------
(***************************************************************************)
(* A small instance of ConnectionPool: a thread that bridges a channel of  *)
(* up to three members, two threads that forward messages.  Three members  *)
(* are one too many for the requests of a read.                            *)
(***************************************************************************)

EXTENDS ConnectionPool

MCRocketchatUsers == 1..3

=============================================================================
