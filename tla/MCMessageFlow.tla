---------------------------- MODULE MCMessageFlow -----------------------------
(***************************************************************************)
(* Small instances of MessageFlow: the same human writes two of the texts  *)
(* m1 and m2, the notice n1 and the file u1 without a mime type in the     *)
(* room, and w1 with two files in the channel; m2 has the text of an       *)
(* upload, for which an echo finds no attachments.                         *)
(***************************************************************************)

EXTENDS MessageFlow, TLC

CONSTANTS h1, m1, m2, n1, u1, w1

MCAuthor == [m \in Messages |-> h1]

MCParts == [m \in Messages |-> CASE m = w1 -> 2 [] m = m2 -> 0 [] OTHER -> 1]

ThreadSymmetry == Permutations(TransactionThreads) \cup Permutations(WebhookThreads)

=============================================================================
