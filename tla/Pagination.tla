------------------------------ MODULE Pagination -----------------------------
(***************************************************************************)
(* How RocketchatApi reads a list that the Rocket.Chat server returns in   *)
(* pages: channels_members, groups_members and channels_list_joined of     *)
(* api/rocketchat/v1.rs are the same loop.  Every page is a request of its *)
(* own, and the list can change in between.  The server keeps a list in    *)
(* the order of its entries, so an entry that comes or goes moves all      *)
(* entries behind it to another place.                                     *)
(***************************************************************************)

EXTENDS Integers, Sequences, FiniteSets

CONSTANTS
  PageSize,      \* entries of a page, chosen by the Rocket.Chat server
  MaxRequests    \* MAX_REQUESTS_PER_ENDPOINT_CALL

ASSUME PaginationFits ==
  /\ PageSize \in Nat \ {0}
  /\ MaxRequests \in Nat \ {0}

\* The entries are numbers, and the server's order is theirs.
Sorted(S) ==
  [i \in 1..Cardinality(S) |-> CHOOSE e \in S : Cardinality({f \in S : f <= e}) = i]

\* The answer to one request: GET channels.members, groups.members, channels.list.joined.
Response(entries, offset) ==
  LET list == Sorted(entries)
      last == IF offset + PageSize < Len(list) THEN offset + PageSize ELSE Len(list)
      page == SubSeq(list, offset + 1, last) IN
  [entries |-> page, count |-> Len(page), offset |-> offset, total |-> Len(list)]

\* A read: what it got, the offset and the number of its next request, and how it ended.
Read == [got : Seq(Int), offset : Nat, i : 0..MaxRequests, end : {"no", "complete", "cut"}]

NewRead == [got |-> <<>>, offset |-> 0, i |-> 0, end |-> "no"]

Subtotal(response) == response.count + response.offset

\* Mutant: a read that is not complete goes on for ever.
EndWhenComplete(i, response) ==
  IF Subtotal(response) = response.total THEN "complete" ELSE "no"

\* The loop ends when the subtotal is the total, else after MaxRequests.
End(i, response) ==
  IF Subtotal(response) = response.total THEN "complete"
  ELSE IF i + 1 = MaxRequests THEN "cut" ELSE "no"

\* Mutant: the requests are not counted.
AfterResponseUncounted(read, response) ==
  [got |-> read.got \o response.entries,
   offset |-> Subtotal(response),
   i |-> read.i,
   end |-> End(read.i, response)]

\* Mutant: the next offset is behind the next entry.
AfterResponseButOne(read, response) ==
  [got |-> read.got \o response.entries,
   offset |-> Subtotal(response) + 1,
   i |-> read.i + 1,
   end |-> End(read.i, response)]

\* Mutant: the next offset is the last entry.
AfterResponseAndOne(read, response) ==
  [got |-> read.got \o response.entries,
   offset |-> IF response.count = 0 THEN response.offset ELSE Subtotal(response) - 1,
   i |-> read.i + 1,
   end |-> End(read.i, response)]

\* One turn of the loop.  The error for too many requests is never returned, because i does not
\* get as far: a read that is cut off returns what it got.
AfterResponse(read, response) ==
  [got |-> read.got \o response.entries,
   offset |-> Subtotal(response),
   i |-> read.i + 1,
   end |-> End(read.i, response)]

=============================================================================
