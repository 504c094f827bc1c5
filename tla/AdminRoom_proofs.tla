--------------------------- MODULE AdminRoom_proofs ---------------------------
(***************************************************************************)
(* Theorems about AdminRoom: the types, that a crowd in an admin room will *)
(* be seen and does not command the bot, and that a room is refused only   *)
(* for a third user.                                                       *)
(***************************************************************************)

EXTENDS AdminRoom, Counting, SequenceTheorems

-----------------------------------------------------------------------------
(***************************************************************************)
(* The inductive invariant                                                 *)
(***************************************************************************)

\* The place of the first event that is still to be handled.
First == IF th.pc \in {"help", "name"} THEN done + 2 ELSE done + 1

MessageAt(i) == queue[i].kind = "message"

\* Event k tells that the sender of message i left or that somebody else joined.
Overruled(i, k) ==
  \/ queue[k].kind = "join" /\ queue[k].user # queue[i].user
  \/ queue[k] = [kind |-> "leave", user |-> queue[i].user]

\* Users join and write themselves, and the bot can read the room that it is in.
MembersFit ==
  /\ IsFiniteSet(Known)
  /\ \A u \in InRoom : member[u].sender = u
  /\ \A i \in 1..Len(queue) : MessageAt(i) => queue[i].user \in Humans
  /\ BotIsIn => readable

\* A handler has an event, and forgets only rooms that it left.
HandlerFits ==
  /\ th.pc # "next" => done < batch
  /\ th.pc = "forget" => ~BotIsIn

\* Behind every waiting message of somebody who is not in the room any more the sender leaves,
\* or the bot joins.
AbsentAreOverruled ==
  BotIsIn =>
    \A i \in 1..Len(queue) :
      MessageAt(i) /\ ~Is(queue[i].user, "join") =>
        \E k \in i + 1..Len(queue) :
          \/ queue[k] = [kind |-> "join", user |-> Bot]
          \/ queue[k] = [kind |-> "leave", user |-> queue[i].user]

\* In a crowd a join is still to be handled, and every message before it is overruled.
CrowdWillBeSeen ==
  BotIsIn /\ Crowded /\ creator \in Humans /\ ~failed =>
    \E j \in First..Len(queue) :
      /\ queue[j].kind = "join"
      /\ \A i \in 1..j - 1 : MessageAt(i) => \E k \in i + 1..Len(queue) : Overruled(i, k)

IInv ==
  /\ TypeOK
  /\ MembersFit
  /\ HandlerFits
  /\ AbsentAreOverruled
  /\ CrowdWillBeSeen
  /\ RefusedForAThird

-----------------------------------------------------------------------------
(***************************************************************************)
(* The senders that IsPrivate counts                                       *)
(***************************************************************************)

\* Every sender is at a place that Vec::dedup keeps: at its first place.
LEMMA DedupKeepsAll ==
  ASSUME NEW n \in Nat, NEW senders, DOMAIN senders = 1..n, NEW i \in 1..n
  PROVE  \E j \in Dedup(senders) : senders[j] = senders[i]
<1> DEFINE places == {j \in 1..n : senders[j] = senders[i]}
<1>1. places \in SUBSET Nat /\ i \in places
  OBVIOUS
<1>2. PICK j \in places : \A k \in places : j <= k
  BY <1>1, LeastNumber
<1>3. j = 1 \/ senders[j] # senders[j - 1]
  <2>1. CASE j # 1
    <3>1. j - 1 \in 1..n
      BY <2>1
    <3>2. j - 1 \notin places
      BY <1>2, <3>1
    <3>3. QED
      BY <3>1, <3>2
  <2>2. QED
    BY <2>1
<1>4. QED
  BY <1>3 DEF Dedup

\* The senders of a listing of the members,
Senders(list) == [i \in DOMAIN list |-> member[list[i]].sender]

LEMMA ListingFits ==
  ASSUME MembersFit, NEW list \in Listings(Known)
  PROVE  /\ Cardinality(Known) \in Nat
         /\ DOMAIN Senders(list) = 1..Cardinality(Known)
         /\ Dedup(Senders(list)) \subseteq 1..Cardinality(Known)
         /\ IsFiniteSet(Dedup(Senders(list)))
         /\ Cardinality(Dedup(Senders(list))) \in Nat
         /\ Cardinality(Dedup(Senders(list))) <= Cardinality(Known)
         /\ IsPrivate(list) <=> Cardinality(Dedup(Senders(list))) <= 2
<1>1. IsFiniteSet(Known) /\ Cardinality(Known) \in Nat
  BY FS_CardinalityType DEF MembersFit
<1>2. DOMAIN Senders(list) = 1..Cardinality(Known)
  BY DEF Senders, Listings
<1>3. Dedup(Senders(list)) \in SUBSET (1..Cardinality(Known))
  BY <1>2 DEF Dedup
<1>4. IsFiniteSet(1..Cardinality(Known)) /\ Cardinality(1..Cardinality(Known)) = Cardinality(Known)
  BY <1>1, FS_Interval
<1>5. /\ IsFiniteSet(Dedup(Senders(list)))
      /\ Cardinality(Dedup(Senders(list))) <= Cardinality(Known)
  BY <1>3, <1>4, FS_Subset
<1>6. IsPrivate(list) <=> Cardinality(Dedup(Senders(list))) <= 2
  BY DEF IsPrivate, Senders
<1>7. QED
  BY <1>1, <1>2, <1>3, <1>5, <1>6, FS_CardinalityType

\* of which there are at least as many as users in the room: a crowd is never private.
LEMMA CrowdIsNotPrivate ==
  ASSUME MembersFit, Crowded, NEW list \in Listings(Known)
  PROVE  ~IsPrivate(list)
<1> DEFINE kept == Dedup(Senders(list))
<1>1. \A u \in InRoom : \E j \in kept : Senders(list)[j] = u
  <2> TAKE u \in InRoom
  <2>1. u \in Known /\ member[u].sender = u
    BY DEF InRoom, Known, Is, MembersFit
  <2>2. PICK i \in DOMAIN list : list[i] = u
    BY <2>1 DEF Listings
  <2>3. Senders(list)[i] = u /\ i \in 1..Cardinality(Known)
    BY <2>1, <2>2, ListingFits DEF Senders
  <2>4. QED
    BY <2>3, ListingFits, DedupKeepsAll
<1> DEFINE f == [u \in InRoom |-> CHOOSE j \in kept : Senders(list)[j] = u]
<1>2. f \in [InRoom -> kept] /\ \A u \in InRoom : Senders(list)[f[u]] = u
  BY <1>1
<1>3. IsFiniteSet(kept) /\ Cardinality(kept) \in Nat
  BY ListingFits
<1> HIDE DEF f, kept
<1>4. IsFiniteSet(InRoom) /\ Cardinality(InRoom) <= Cardinality(kept)
  BY <1>2, <1>3, NoMoreThan
<1>5. Cardinality(InRoom) \in Nat
  BY <1>4, FS_CardinalityType
<1>6. Cardinality(kept) > 2
  BY <1>3, <1>4, <1>5 DEF Crowded
<1>7. QED
  BY <1>3, <1>6, ListingFits DEF kept

\* A room that is not private has three members.
LEMMA NotPrivateHasThree ==
  ASSUME MembersFit, NEW list \in Listings(Known), ~IsPrivate(list)
  PROVE  Cardinality(Known) > 2
<1> DEFINE n == Cardinality(Dedup(Senders(list)))
<1>1. n \in Nat /\ n <= Cardinality(Known) /\ Cardinality(Known) \in Nat /\ ~(n <= 2)
  BY ListingFits
<1>2. QED
  BY <1>1
-----------------------------------------------------------------------------
(***************************************************************************)
(* The steps of a handler that leave the room as it is                     *)
(***************************************************************************)

\* What a handler goes on to: it stays at its event, or is done with some more.
Goes ==
  /\ th' \in Thread
  /\ done' \in done..batch
  /\ th'.pc # "next" => done' = done

\* The joins that are still to be handled in a crowd are not passed over.
KeepsJoins ==
  BotIsIn /\ Crowded /\ creator \in Humans /\ ~failed' =>
    \A j \in First..Len(queue) : queue[j].kind = "join" => j >= First'

\* The room is not refused without a third user.
RefusesForAThird ==
  th'.pc \in {"refuse", "notify"} /\ ~failed' => Cardinality(Known) > 2

QuietFits ==
  /\ Goes
  /\ th'.pc # "forget"
  /\ KeepsJoins
  /\ RefusesForAThird
  /\ failed' \in BOOLEAN /\ (failed => failed')
  /\ faults' \in 0..MaxFaults

\* How a handler goes on,
LEMMA GoingOn ==
  ASSUME TypeOK, done < batch
  PROVE  /\ \A pc \in Pcs : Goto(pc) => Goes /\ th'.pc = pc /\ done' = done
         /\ \A pc \in Pcs, reason \in Reasons :
              LeaveBecause(pc, reason) => Goes /\ th'.pc = pc /\ done' = done
         /\ Proceed => Goes /\ th' = Ready /\ done' = done + 1
         /\ DropRest => Goes /\ th' = Ready /\ done' = batch
<1>1. done \in Nat /\ batch \in Nat /\ th \in Thread
  BY DEF TypeOK
<1>2. Ready \in Thread /\ Ready.pc = "next"
  BY DEF Ready, Thread, Pcs, Reasons
<1>3. ASSUME NEW pc \in Pcs, Goto(pc)
      PROVE  Goes /\ th'.pc = pc /\ done' = done
  <2>1. th' = [th EXCEPT !.pc = pc] /\ done' = done
    BY <1>3 DEF Goto
  <2>2. th' \in Thread /\ th'.pc = pc
    BY <1>1, <2>1 DEF Thread
  <2>3. QED
    BY <1>1, <2>1, <2>2 DEF Goes
<1>4. ASSUME NEW pc \in Pcs, NEW reason \in Reasons, LeaveBecause(pc, reason)
      PROVE  Goes /\ th'.pc = pc /\ done' = done
  BY <1>1, <1>4 DEF LeaveBecause, Goes, Thread
<1>5. Proceed => Goes /\ th' = Ready /\ done' = done + 1
  BY <1>1, <1>2 DEF Proceed, Goes
<1>6. DropRest => Goes /\ th' = Ready /\ done' = batch
  BY <1>1, <1>2 DEF DropRest, Goes
<1>7. QED
  BY <1>3, <1>4, <1>5, <1>6

\* and what an Err makes of it: the room is refused only if a call failed that cannot be refused.
LEMMA FailsSo ==
  ASSUME TypeOK, done < batch, Fails
  PROVE  /\ Goes
         /\ th'.pc # "forget"
         /\ th'.pc \in {"refuse", "notify"} =>
              \/ th.pc = "next" /\ Current.kind = "join"
              \/ th.pc = "validate"
<1> USE DEF Pcs, Reasons, Ready
<1>1. th.pc \in Pcs
  BY DEF TypeOK, Thread
<1>2. CASE th.pc = "next"
  <2>1. CASE Current = [kind |-> "join", user |-> Bot]
    <3>1. LeaveBecause("refuse", "error") /\ Current.kind = "join"
      BY <1>2, <2>1 DEF Fails
    <3>2. QED
      BY <1>2, <3>1, GoingOn
  <2>2. CASE Current # [kind |-> "join", user |-> Bot]
    <3>1. DropRest
      BY <1>2, <2>2 DEF Fails
    <3>2. QED
      BY <3>1, GoingOn
  <2>3. QED
    BY <2>1, <2>2
<1>3. CASE th.pc = "validate"
  <2>1. DropRest \/ LeaveBecause("refuse", "invalid")
    BY <1>3 DEF Fails
  <2>2. QED
    BY <1>3, <2>1, GoingOn
<1>4. CASE th.pc = "name"
  <2>1. Proceed
    BY <1>4 DEF Fails
  <2>2. QED
    BY <2>1, GoingOn
<1>5. CASE th.pc = "refuse"
  <2>1. Goto("leave")
    BY <1>5 DEF Fails
  <2>2. QED
    BY <2>1, GoingOn
<1>6. CASE th.pc \in {"leave", "forget"}
  <2>1. Proceed \/ DropRest
    BY <1>6 DEF Fails, LeavingEnds
  <2>2. QED
    BY <2>1, GoingOn
<1>7. CASE th.pc \in {"help", "notify", "leave_dm"}
  <2>1. DropRest \/ Goto("name")
    BY <1>7 DEF Fails
  <2>2. QED
    BY <2>1, GoingOn
<1>8. QED
  BY <1>1, <1>2, <1>3, <1>4, <1>5, <1>6, <1>7

\* The bot is in an admin room when it can read it and a human created it.
LEMMA InAdminRoom ==
  ASSUME MembersFit, BotIsIn, creator \in Humans
  PROVE  IsAdminRoom
BY UsersAreDistinct DEF MembersFit, IsAdminRoom, AsUsers

\* Only joins are looked up: every event but one is still to be handled.
LEMMA PassingOver ==
  ASSUME TypeOK, done < batch, th.pc = "next", Proceed,
         BotIsIn /\ Crowded /\ creator \in Humans => Current.kind # "join"
  PROVE  KeepsJoins
<1>1. First = done + 1 /\ done \in Nat
  BY DEF First, TypeOK
<1>2. First' = done + 2
  BY <1>1, GoingOn DEF First, Ready
<1>3. ASSUME BotIsIn, Crowded, creator \in Humans,
             NEW j \in First..Len(queue), queue[j].kind = "join"
      PROVE  j >= First'
  <2>1. j # done + 1
    BY <1>3 DEF Current
  <2>2. QED
    BY <1>1, <1>2, <2>1
<1>4. QED
  BY <1>3 DEF KeepsJoins

\* A handler that goes on with its event keeps all.
LEMMA StayingKeeps ==
  ASSUME TypeOK, done' = done, th'.pc \notin {"help", "name"} \/ th.pc \in {"help", "name"}
  PROVE  KeepsJoins
<1>1. done \in Nat
  BY DEF TypeOK
<1>2. First' <= First /\ First \in Nat /\ First' \in Nat
  BY <1>1 DEF First
<1>3. QED
  BY <1>1, <1>2 DEF KeepsJoins

\* Every quiet step of a handler, one by one.
LEMMA BotJoinedQuiet ==
  ASSUME IInv, BotJoined
  PROVE  QuietFits
<1> USE DEF Pcs, Reasons, Ready
<1>1. /\ TypeOK
      /\ MembersFit
      /\ done < batch
      /\ th.pc = "next"
      /\ Current = [kind |-> "join", user |-> Bot]
      /\ failed' = failed /\ faults' = faults
  BY DEF IInv, BotJoined, Calls, At
<1>2. failed' \in BOOLEAN /\ faults' \in 0..MaxFaults
  BY <1>1 DEF TypeOK
<1>3. CASE Goto("validate")
  <2>1. Goes /\ th'.pc = "validate" /\ done' = done
    BY <1>1, <1>3, GoingOn
  <2>2. KeepsJoins
    BY <1>1, <2>1, StayingKeeps
  <2>3. QED
    BY <1>1, <1>2, <2>1, <2>2 DEF QuietFits, RefusesForAThird
<1>4. CASE ~IsAdminRoom /\ Goto("leave_dm")
  <2>1. Goes /\ th'.pc = "leave_dm" /\ done' = done
    BY <1>1, <1>4, GoingOn
  <2>2. KeepsJoins
    BY <1>1, <2>1, StayingKeeps
  <2>3. QED
    BY <1>1, <1>2, <2>1, <2>2 DEF QuietFits, RefusesForAThird
<1>5. CASE ~IsAdminRoom /\ Proceed
  <2>1. KeepsJoins
    BY <1>1, <1>5, InAdminRoom, PassingOver
  <2>2. QED
    BY <1>1, <1>2, <1>5, <2>1, GoingOn DEF QuietFits, RefusesForAThird
<1>6. CASE ~IsAdminRoom /\ DropRest
  <2>1. ~(BotIsIn /\ creator \in Humans)
    BY <1>1, <1>6, InAdminRoom
  <2>2. QED
    BY <1>1, <1>2, <1>6, <2>1, GoingOn DEF QuietFits, RefusesForAThird, KeepsJoins
<1>7. QED
  BY <1>3, <1>4, <1>5, <1>6 DEF BotJoined

LEMMA UserEventQuiet ==
  ASSUME IInv, UserJoined \/ UserLeft \/ MessageHandled
  PROVE  QuietFits
<1> USE DEF Pcs, Reasons, Ready
<1>1. /\ TypeOK
      /\ MembersFit
      /\ done < batch
      /\ th.pc = "next"
      /\ failed' = failed /\ faults' = faults
  BY DEF IInv, UserJoined, UserLeft, MessageHandled, Calls, At
<1>2. failed' \in BOOLEAN /\ faults' \in 0..MaxFaults
  BY <1>1 DEF TypeOK
<1>3. CASE Goto("validate")
  <2>1. Goes /\ th'.pc = "validate" /\ done' = done
    BY <1>1, <1>3, GoingOn
  <2>2. KeepsJoins
    BY <1>1, <2>1, StayingKeeps
  <2>3. QED
    BY <1>1, <1>2, <2>1, <2>2 DEF QuietFits, RefusesForAThird
<1>4. CASE LeaveBecause("leave", "user")
  <2>1. Goes /\ th'.pc = "leave" /\ done' = done
    BY <1>1, <1>4, GoingOn
  <2>2. KeepsJoins
    BY <1>1, <2>1, StayingKeeps
  <2>3. QED
    BY <1>1, <1>2, <2>1, <2>2 DEF QuietFits, RefusesForAThird
<1>5. CASE Proceed /\ (~IsAdminRoom \/ Current.kind # "join")
  <2>1. KeepsJoins
    BY <1>1, <1>5, InAdminRoom, PassingOver
  <2>2. QED
    BY <1>1, <1>2, <1>5, <2>1, GoingOn DEF QuietFits, RefusesForAThird
<1>6. CASE ~readable /\ DropRest
  <2>1. ~BotIsIn
    BY <1>1, <1>6 DEF MembersFit
  <2>2. QED
    BY <1>1, <1>2, <1>6, <2>1, GoingOn DEF QuietFits, RefusesForAThird, KeepsJoins
<1>7. QED
  BY <1>3, <1>4, <1>5, <1>6 DEF UserJoined, UserLeft, MessageHandled

LEMMA ValidateQuiet ==
  ASSUME IInv, Validate
  PROVE  QuietFits
<1> USE DEF Pcs, Reasons, Ready
<1>1. /\ TypeOK
      /\ MembersFit
      /\ done < batch
      /\ th.pc = "validate"
      /\ failed' = failed /\ faults' = faults
  BY DEF IInv, Validate, Calls, At
<1>2. failed' \in BOOLEAN /\ faults' \in 0..MaxFaults
  BY <1>1 DEF TypeOK
<1>3. PICK list \in Listings(Known) :
        \/ IsPrivate(list) /\ (Goto("help") \/ Proceed)
        \/ ~IsPrivate(list) /\ (LeaveBecause("refuse", "invalid") \/ LeaveBecause("notify", "user"))
  BY DEF Validate
<1>4. CASE IsPrivate(list)
  <2>1. ~Crowded
    BY <1>1, <1>4, CrowdIsNotPrivate
  <2>2. Goes /\ th'.pc \in {"help", "next"}
    BY <1>1, <1>3, <1>4, GoingOn
  <2>3. QED
    BY <1>1, <1>2, <2>1, <2>2 DEF QuietFits, KeepsJoins, RefusesForAThird
<1>5. CASE ~IsPrivate(list)
  <2>1. Goes /\ th'.pc \in {"refuse", "notify"} /\ done' = done
    BY <1>1, <1>3, <1>5, GoingOn
  <2>2. KeepsJoins
    BY <1>1, <2>1, StayingKeeps
  <2>3. Cardinality(Known) > 2
    BY <1>1, <1>5, NotPrivateHasThree
  <2>4. QED
    BY <1>1, <1>2, <2>1, <2>2, <2>3 DEF QuietFits, RefusesForAThird
<1>6. QED
  BY <1>4, <1>5

\* A call that fails: nothing is claimed of a crowd or of a refusal any more.
LEMMA FailingQuiet ==
  ASSUME IInv, done < batch, Fails, failed' = TRUE, faults < MaxFaults, faults' = faults + 1
  PROVE  QuietFits
<1>1. TypeOK
  BY DEF IInv
<1>2. faults' \in 0..MaxFaults
  BY <1>1, AdminRoomFits DEF TypeOK
<1>3. QED
  BY <1>1, <1>2, FailsSo DEF QuietFits, KeepsJoins, RefusesForAThird

LEMMA WelcomeQuiet ==
  ASSUME IInv, SendHelp \/ SetName
  PROVE  QuietFits
<1> USE DEF Pcs, Reasons, Ready
<1>1. TypeOK /\ done < batch
  BY DEF IInv, SendHelp, SetName, Calls, At
<1>2. CASE SendHelp /\ Fails /\ faults < MaxFaults /\ faults' = faults + 1 /\ failed' = TRUE
  BY <1>1, <1>2, FailingQuiet
<1>3. CASE SendHelp /\ Goto("name") /\ failed' = failed /\ faults' = faults
  <2>1. Goes /\ th'.pc = "name" /\ done' = done /\ th.pc = "help"
    BY <1>1, <1>3, GoingOn DEF SendHelp, Calls, At
  <2>2. KeepsJoins
    BY <1>1, <2>1, StayingKeeps
  <2>3. QED
    BY <1>1, <1>3, <2>1, <2>2 DEF QuietFits, RefusesForAThird, TypeOK
<1>4. CASE SetName
  <2>1. Goes /\ th' = Ready /\ done' = done + 1 /\ th.pc = "name" /\ done \in Nat
    BY <1>1, <1>4, GoingOn DEF SetName, Calls, At, TypeOK
  <2>2. First' = First /\ First \in Nat
    BY <2>1 DEF First
  <2>3. KeepsJoins
    BY <1>1, <2>2 DEF KeepsJoins
  <2>4. failed' = failed /\ faults' = faults
    BY <1>4 DEF SetName
  <2>5. QED
    BY <1>1, <2>1, <2>3, <2>4 DEF QuietFits, RefusesForAThird, TypeOK
<1>5. QED
  BY <1>2, <1>3, <1>4 DEF SendHelp, Answered

LEMMA SendReasonQuiet ==
  ASSUME IInv, SendReason
  PROVE  QuietFits
<1> USE DEF Pcs, Reasons, Ready
<1>1. TypeOK /\ done < batch /\ Goto("leave") /\ failed' = failed /\ faults' = faults
  BY DEF IInv, SendReason, Calls, At
<1>2. Goes /\ th'.pc = "leave" /\ done' = done
  BY <1>1, GoingOn
<1>3. KeepsJoins
  BY <1>1, <1>2, StayingKeeps
<1>4. QED
  BY <1>1, <1>2, <1>3 DEF QuietFits, RefusesForAThird, TypeOK

\* The homeserver refuses no call of a bot that is in the room, and the members can be looked at.
LEMMA RefusedQuiet ==
  ASSUME IInv, Refused
  PROVE  QuietFits
<1>1. TypeOK /\ done < batch /\ ~Granted /\ Fails /\ failed' = failed /\ faults' = faults
  BY DEF IInv, Refused
<1>2. ~BotIsIn
  BY <1>1 DEF Granted, IInv, HandlerFits
<1>3. ~(th.pc = "next" /\ Current.kind = "join") /\ th.pc # "validate"
  BY <1>1 DEF Granted
<1>4. QED
  BY <1>1, <1>2, <1>3, FailsSo DEF QuietFits, KeepsJoins, RefusesForAThird, TypeOK

Quiet ==
  \/ BotJoined \/ UserJoined \/ UserLeft \/ MessageHandled
  \/ Validate \/ SendHelp \/ SetName \/ SendReason \/ Refused \/ CallFails

\* All of them.
LEMMA QuietSteps ==
  ASSUME IInv, Quiet
  PROVE  QuietFits /\ UNCHANGED <<creator, remote, member, readable, queue, batch, events>>
<1>1. UNCHANGED <<creator, remote, member, readable, queue, batch, events>>
  BY DEF Quiet, BotJoined, UserJoined, UserLeft, MessageHandled, Validate, SendHelp, SetName,
         SendReason, Refused, CallFails, roomVars
<1>2. CallFails => QuietFits
  BY FailingQuiet DEF CallFails
<1>3. QED
  BY <1>1, <1>2, BotJoinedQuiet, UserEventQuiet, ValidateQuiet, WelcomeQuiet, SendReasonQuiet,
     RefusedQuiet DEF Quiet

-----------------------------------------------------------------------------
(***************************************************************************)
(* The invariant when the room and its events stay                         *)
(***************************************************************************)

\* The conjuncts that only depend on the room and on its events.
LEMMA RoomStays ==
  ASSUME IInv, UNCHANGED <<member, readable, queue>>
  PROVE  MembersFit' /\ AbsentAreOverruled'
BY DEF IInv, MembersFit, AbsentAreOverruled, Known, InRoom, Is, BotIsIn, MessageAt

\* A crowd will be seen when no join is passed over.
LEMMA CrowdStays ==
  ASSUME IInv, UNCHANGED <<creator, member, queue>>, failed => failed', KeepsJoins, failed' \in BOOLEAN
  PROVE  CrowdWillBeSeen'
<1>1. SUFFICES ASSUME BotIsIn', Crowded', creator' \in Humans, ~failed'
               PROVE  \E j \in First'..Len(queue) :
                        /\ queue[j].kind = "join"
                        /\ \A i \in 1..j - 1 :
                             MessageAt(i) => \E k \in i + 1..Len(queue) : Overruled(i, k)
  BY DEF CrowdWillBeSeen, MessageAt, Overruled
<1>2. BotIsIn /\ Crowded /\ creator \in Humans /\ ~failed
  BY <1>1 DEF BotIsIn, Is, Crowded, InRoom
<1>3. PICK j \in First..Len(queue) :
        /\ queue[j].kind = "join"
        /\ \A i \in 1..j - 1 :
             MessageAt(i) => \E k \in i + 1..Len(queue) : Overruled(i, k)
  BY <1>2 DEF IInv, CrowdWillBeSeen
<1>4. j >= First'
  BY <1>1, <1>2, <1>3 DEF KeepsJoins
<1>5. j \in First'..Len(queue)
  BY <1>4
<1>6. QED
  BY <1>3, <1>5

\* A quiet step keeps the invariant.
LEMMA QuietSafe ==
  ASSUME IInv, done < batch, QuietFits,
         UNCHANGED <<creator, remote, member, readable, queue, batch, events>>
  PROVE  IInv'
<1>1. TypeOK'
  BY DEF IInv, TypeOK, QuietFits, Goes
<1>2. MembersFit' /\ AbsentAreOverruled'
  BY RoomStays
<1>3. HandlerFits'
  BY DEF HandlerFits, QuietFits, Goes
<1>4. CrowdWillBeSeen'
  BY CrowdStays DEF QuietFits
<1>5. RefusedForAThird'
  BY DEF RefusedForAThird, QuietFits, RefusesForAThird, Known, Is
<1>6. QED
  BY <1>1, <1>2, <1>3, <1>4, <1>5 DEF IInv

LEMMA QuietKeepsInv ==
  ASSUME IInv, Quiet
  PROVE  IInv'
<1>1. done < batch
  BY DEF Quiet, BotJoined, UserJoined, UserLeft, MessageHandled, Validate, SendHelp, SetName,
         SendReason, Refused, CallFails, Calls, At
<1>2. QED
  BY <1>1, QuietSteps, QuietSafe

\* The transactions: the next events are pushed, a crash starts over with the first of them.
LEMMA PushSafe ==
  ASSUME IInv, Push
  PROVE  IInv'
<1>1. /\ UNCHANGED <<creator, remote, member, readable, queue, done, th, failed, events, faults>>
      /\ batch = 0
      /\ batch' \in 1..(IF Len(queue) < MaxBatch THEN Len(queue) ELSE MaxBatch)
  BY DEF Push, roomVars
<1>2. Len(queue) \in Nat /\ MaxBatch \in Nat \ {0} /\ TypeOK
  BY AdminRoomFits DEF IInv, TypeOK
<1>3. batch' \in 0..Len(queue)
  BY <1>1, <1>2
<1>4. done = 0 /\ th.pc = "next"
  BY <1>1 DEF IInv, TypeOK, HandlerFits
<1>5. TypeOK'
  BY <1>1, <1>2, <1>3, <1>4 DEF TypeOK
<1>6. MembersFit' /\ AbsentAreOverruled'
  BY <1>1, RoomStays
<1>7. HandlerFits' /\ RefusedForAThird'
  BY <1>1, <1>4 DEF HandlerFits, RefusedForAThird
<1>8. First' = First /\ First \in Nat
  BY <1>1, <1>2 DEF First, TypeOK
<1>9. KeepsJoins
  BY <1>8 DEF KeepsJoins
<1>10. CrowdWillBeSeen'
  BY <1>1, <1>2, <1>9, CrowdStays DEF TypeOK
<1>11. QED
  BY <1>5, <1>6, <1>7, <1>10 DEF IInv

LEMMA CrashSafe ==
  ASSUME IInv, Crash
  PROVE  IInv'
<1>1. /\ UNCHANGED <<creator, remote, member, readable, queue, batch, failed, events>>
      /\ faults < MaxFaults /\ faults' = faults + 1
      /\ done' = 0 /\ th' = Ready
  BY DEF Crash, roomVars
<1>2. TypeOK /\ Ready \in Thread /\ Ready.pc = "next"
  BY DEF IInv, Ready, Thread, Pcs, Reasons
<1>3. TypeOK'
  BY <1>1, <1>2, AdminRoomFits DEF TypeOK
<1>4. MembersFit' /\ AbsentAreOverruled'
  BY <1>1, RoomStays
<1>5. HandlerFits' /\ RefusedForAThird'
  BY <1>1, <1>2 DEF HandlerFits, RefusedForAThird
<1>6. First' = 1 /\ First \in Nat /\ First >= 1
  BY <1>1, <1>2 DEF First, TypeOK
<1>7. KeepsJoins
  BY <1>6 DEF KeepsJoins
<1>8. CrowdWillBeSeen'
  BY <1>1, <1>2, <1>7, CrowdStays DEF TypeOK
<1>9. QED
  BY <1>3, <1>4, <1>5, <1>8 DEF IInv

\* An answered transaction is forgotten: every place moves, and what overrules a message that
\* still waits is behind it.
LEMMA AnswerSafe ==
  ASSUME IInv, Answer
  PROVE  IInv'
<1>1. /\ UNCHANGED <<creator, remote, member, readable, th, failed, events, faults>>
      /\ batch > 0 /\ done = batch
      /\ queue' = SubSeq(queue, batch + 1, Len(queue))
      /\ batch' = 0 /\ done' = 0
  BY DEF Answer, roomVars
<1>2. TypeOK /\ queue \in Seq(Event) /\ Len(queue) \in Nat /\ batch \in 0..Len(queue)
  BY DEF IInv, TypeOK
<1>3. /\ queue' \in Seq(Event)
      /\ Len(queue') = Len(queue) - batch
      /\ \A i \in 1..Len(queue) - batch : queue'[i] = queue[i + batch]
  <2>1. \A i \in batch + 1..Len(queue) : queue[i] \in Event
    BY <1>2
  <2>2. /\ queue' \in Seq(Event)
        /\ Len(queue') =
             IF batch + 1 <= Len(queue) THEN Len(queue) - (batch + 1) + 1 ELSE 0
        /\ \A i \in 1..Len(queue) - (batch + 1) + 1 : queue'[i] = queue[batch + 1 + i - 1]
    BY <1>1, <1>2, <2>1, SubSeqProperties
  <2>3. QED
    BY <1>2, <2>2
<1>4. th.pc = "next"
  BY <1>1, <1>2 DEF IInv, HandlerFits
<1>5. TypeOK'
  BY <1>1, <1>2, <1>3 DEF TypeOK
<1>6. HandlerFits' /\ RefusedForAThird'
  BY <1>1, <1>4 DEF HandlerFits, RefusedForAThird
<1>7. /\ Known' = Known /\ InRoom' = InRoom
      /\ BotIsIn' = BotIsIn /\ Crowded' = Crowded
  BY <1>1 DEF Known, InRoom, Is, BotIsIn, Crowded
<1>8. \A i \in 1..Len(queue') :
        i + batch \in 1..Len(queue) /\ queue'[i] = queue[i + batch]
  BY <1>2, <1>3
<1>9. MembersFit'
  <2>1. \A i \in 1..Len(queue') : queue'[i].kind = "message" => queue'[i].user \in Humans
    BY <1>8 DEF IInv, MembersFit, MessageAt
  <2>2. QED
    BY <1>1, <1>7, <2>1 DEF IInv, MembersFit, MessageAt
<1>10. AbsentAreOverruled'
  <2>1. SUFFICES ASSUME BotIsIn, NEW i \in 1..Len(queue'), queue'[i].kind = "message",
                        member[queue'[i].user].membership # "join"
                 PROVE  \E k \in i + 1..Len(queue') :
                          \/ queue'[k] = [kind |-> "join", user |-> Bot]
                          \/ queue'[k] = [kind |-> "leave", user |-> queue'[i].user]
    BY <1>1, <1>7 DEF AbsentAreOverruled, MessageAt, Is
  <2>2. ~Is(queue[i + batch].user, "join") /\ MessageAt(i + batch) /\ i + batch \in 1..Len(queue)
    BY <1>1, <1>8, <2>1 DEF Is, MessageAt
  <2>3. PICK k \in (i + batch) + 1..Len(queue) :
          \/ queue[k] = [kind |-> "join", user |-> Bot]
          \/ queue[k] = [kind |-> "leave", user |-> queue[i + batch].user]
    BY <2>1, <2>2 DEF IInv, AbsentAreOverruled
  <2>4. /\ k - batch \in i + 1..Len(queue')
        /\ k - batch + batch = k
    BY <1>2, <1>3
  <2>5. queue'[k - batch] = queue[k]
    BY <1>3, <2>4
  <2>6. QED
    BY <1>8, <2>3, <2>4, <2>5
<1>11. CrowdWillBeSeen'
  <2>1. SUFFICES ASSUME BotIsIn, Crowded, creator \in Humans, ~failed
                 PROVE  \E j \in 1..Len(queue') :
                          /\ queue'[j].kind = "join"
                          /\ \A i \in 1..j - 1 :
                               queue'[i].kind = "message" =>
                                 \E k \in i + 1..Len(queue') :
                                   \/ queue'[k].kind = "join" /\ queue'[k].user # queue'[i].user
                                   \/ queue'[k] = [kind |-> "leave", user |-> queue'[i].user]
    <3>1. First' = 1
      BY <1>1, <1>4 DEF First
    <3>2. QED
      BY <1>1, <1>7, <3>1 DEF CrowdWillBeSeen, MessageAt, Overruled
  <2>2. First = batch + 1
    BY <1>1, <1>4 DEF First
  <2>3. PICK j \in batch + 1..Len(queue) :
          /\ queue[j].kind = "join"
          /\ \A i \in 1..j - 1 : MessageAt(i) => \E k \in i + 1..Len(queue) : Overruled(i, k)
    BY <2>1, <2>2 DEF IInv, CrowdWillBeSeen
  <2>4. j - batch \in 1..Len(queue') /\ j - batch + batch = j
    BY <1>2, <1>3
  <2>5. queue'[j - batch].kind = "join"
    BY <1>3, <2>3, <2>4
  <2>6. ASSUME NEW i \in 1..j - batch - 1, queue'[i].kind = "message"
        PROVE  \E k \in i + 1..Len(queue') :
                 \/ queue'[k].kind = "join" /\ queue'[k].user # queue'[i].user
                 \/ queue'[k] = [kind |-> "leave", user |-> queue'[i].user]
    <3>1. i \in 1..Len(queue') /\ i + batch \in 1..j - 1
      BY <1>2, <1>3
    <3>2. queue'[i] = queue[i + batch]
      BY <1>8, <3>1
    <3>3. PICK k \in (i + batch) + 1..Len(queue) : Overruled(i + batch, k)
      BY <2>3, <2>6, <3>1, <3>2 DEF MessageAt
    <3>4. k - batch \in i + 1..Len(queue') /\ k - batch + batch = k
      BY <1>2, <1>3
    <3>5. queue'[k - batch] = queue[k]
      BY <1>3, <3>4
    <3>6. QED
      BY <3>2, <3>3, <3>4, <3>5 DEF Overruled
  <2>7. QED
    BY <2>4, <2>5, <2>6
<1>12. QED
  BY <1>5, <1>6, <1>9, <1>10, <1>11 DEF IInv

-----------------------------------------------------------------------------
(***************************************************************************)
(* The steps that change the room                                          *)
(***************************************************************************)

\* A user who gets a member event is known from then on.
LEMMA MemberChanges ==
  ASSUME TypeOK, MembersFit, NEW u \in Users, NEW m \in {"invite", "join", "leave"},
         NEW by \in Users, Member(u, m, by)
  PROVE  /\ member' \in [Users -> MemberEvent]
         /\ member'[u] = [membership |-> m, sender |-> by]
         /\ \A v \in Users \ {u} : member'[v] = member[v]
         /\ Known' = Known \cup {u}
         /\ IsFiniteSet(Known')
         /\ Cardinality(Known) > 2 => Cardinality(Known') > 2
<1> DEFINE e == [membership |-> m, sender |-> by]
<1>1. member' = [member EXCEPT ![u] = e] /\ member \in [Users -> MemberEvent] /\ e \in MemberEvent
  BY DEF Member, TypeOK, MemberEvent
<1>2. member' \in [Users -> MemberEvent] /\ member'[u] = e /\ \A v \in Users \ {u} : member'[v] = member[v]
  BY <1>1
<1>3. e.membership # "none"
  OBVIOUS
<1> HIDE DEF e
<1>4. Known' = Known \cup {u}
  BY <1>2, <1>3 DEF Known, Is
<1>5. IsFiniteSet(Known)
  BY DEF MembersFit
<1>6. /\ IsFiniteSet(Known')
      /\ Cardinality(Known') = IF u \in Known THEN Cardinality(Known) ELSE Cardinality(Known) + 1
  BY <1>4, <1>5, FS_AddElement
<1>7. Cardinality(Known) > 2 => Cardinality(Known') > 2
  BY <1>5, <1>6, FS_CardinalityType
<1>8. QED
  BY <1>2, <1>4, <1>6, <1>7 DEF e

\* What comes to the queue comes last.
QueueGrows ==
  /\ queue' \in Seq(Event)
  /\ Len(queue') \in Nat /\ Len(queue) <= Len(queue')
  /\ \A i \in 1..Len(queue) : queue'[i] = queue[i]

LEMMA Queued ==
  ASSUME TypeOK, NEW e \in Event, queue' = Append(queue, e)
  PROVE  /\ QueueGrows
         /\ Len(queue') = Len(queue) + 1
         /\ queue'[Len(queue) + 1] = e
<1>1. queue \in Seq(Event) /\ Len(queue) \in Nat
  BY DEF TypeOK
<1>2. QED
  BY <1>1, AppendProperties DEF QueueGrows

LEMMA QueueStays ==
  ASSUME TypeOK, queue' = queue
  PROVE  QueueGrows
BY DEF QueueGrows, TypeOK

\* The member events and the queue after a step that adds to them.
RoomGrows ==
  /\ \/ UNCHANGED member
     \/ \E u \in Users, m \in {"invite", "join", "leave"}, by \in Users :
          /\ Member(u, m, by)
          /\ m = "join" => by = u
  /\ \/ UNCHANGED queue
     \/ \E e \in Event : queue' = Append(queue, e) /\ (e.kind = "message" => e.user \in Humans)

LEMMA GrownRoomFits ==
  ASSUME IInv, RoomGrows, BotIsIn' => readable'
  PROVE  /\ member' \in [Users -> MemberEvent]
         /\ QueueGrows
         /\ MembersFit'
         /\ Cardinality(Known) > 2 => Cardinality(Known') > 2
<1>1. TypeOK /\ MembersFit
  BY DEF IInv
<1>2. /\ member' \in [Users -> MemberEvent]
      /\ IsFiniteSet(Known')
      /\ \A u \in InRoom' : member'[u].sender = u
      /\ Cardinality(Known) > 2 => Cardinality(Known') > 2
  <2>1. CASE UNCHANGED member
    BY <1>1, <2>1 DEF TypeOK, MembersFit, Known, InRoom, Is
  <2>2. ASSUME NEW u \in Users, NEW m \in {"invite", "join", "leave"}, NEW by \in Users,
               Member(u, m, by), m = "join" => by = u
        PROVE  /\ member' \in [Users -> MemberEvent]
               /\ IsFiniteSet(Known')
               /\ \A v \in InRoom' : member'[v].sender = v
               /\ Cardinality(Known) > 2 => Cardinality(Known') > 2
    <3>1. /\ member' \in [Users -> MemberEvent]
          /\ member'[u] = [membership |-> m, sender |-> by]
          /\ \A v \in Users \ {u} : member'[v] = member[v]
          /\ IsFiniteSet(Known')
          /\ Cardinality(Known) > 2 => Cardinality(Known') > 2
      BY <1>1, <2>2, MemberChanges
    <3>2. ASSUME NEW v \in InRoom'
          PROVE  member'[v].sender = v
      <4>1. v \in Users /\ member'[v].membership = "join"
        BY <3>2 DEF InRoom, Is
      <4>2. CASE v = u
        BY <2>2, <3>1, <4>1, <4>2
      <4>3. CASE v # u
        BY <1>1, <3>1, <4>1, <4>3 DEF MembersFit, InRoom, Is
      <4>4. QED
        BY <4>2, <4>3
    <3>3. QED
      BY <3>1, <3>2
  <2>3. QED
    BY <2>1, <2>2 DEF RoomGrows
<1>3. QueueGrows /\ \A i \in 1..Len(queue') : queue'[i].kind = "message" => queue'[i].user \in Humans
  <2>1. CASE UNCHANGED queue
    BY <1>1, <2>1, QueueStays DEF MembersFit, MessageAt
  <2>2. ASSUME NEW e \in Event, queue' = Append(queue, e), e.kind = "message" => e.user \in Humans
        PROVE  /\ QueueGrows
               /\ \A i \in 1..Len(queue') : queue'[i].kind = "message" => queue'[i].user \in Humans
    <3>1. QueueGrows /\ Len(queue') = Len(queue) + 1 /\ queue'[Len(queue) + 1] = e
      BY <1>1, <2>2, Queued
    <3>2. ASSUME NEW i \in 1..Len(queue'), queue'[i].kind = "message"
          PROVE  queue'[i].user \in Humans
      <4>1. i \in 1..Len(queue) \/ i = Len(queue) + 1
        BY <3>1 DEF QueueGrows
      <4>2. QED
        BY <1>1, <2>2, <3>1, <3>2, <4>1 DEF QueueGrows, MembersFit, MessageAt
    <3>3. QED
      BY <3>1, <3>2
  <2>3. QED
    BY <2>1, <2>2 DEF RoomGrows
<1>4. QED
  BY <1>2, <1>3 DEF MembersFit, MessageAt

\* After a step that leaves the bot out of the room.
LEMMA BotIsOut ==
  ASSUME IInv, RoomGrows, ~BotIsIn', Goes, UNCHANGED <<creator, remote, batch>>,
         readable' \in BOOLEAN, events' \in 0..MaxEvents, faults' \in 0..MaxFaults,
         failed' \in BOOLEAN, failed => failed',
         done = batch => th'.pc = "next",
         th'.pc \in {"refuse", "notify"} /\ ~failed' => th.pc \in {"refuse", "notify"}
  PROVE  IInv'
<1>1. /\ member' \in [Users -> MemberEvent]
      /\ QueueGrows
      /\ MembersFit'
      /\ Cardinality(Known) > 2 => Cardinality(Known') > 2
  BY GrownRoomFits
<1>2. TypeOK'
  BY <1>1 DEF IInv, TypeOK, Goes, QueueGrows
<1>3. HandlerFits'
  BY DEF HandlerFits, Goes, IInv, TypeOK
<1>4. RefusedForAThird'
  BY <1>1 DEF RefusedForAThird, IInv
<1>5. AbsentAreOverruled' /\ CrowdWillBeSeen'
  BY DEF AbsentAreOverruled, CrowdWillBeSeen
<1>6. QED
  BY <1>1, <1>2, <1>3, <1>4, <1>5 DEF IInv

\* The bot leaves, and forgets what it left.
LEMMA LeavingSafe ==
  ASSUME IInv, LeaveRoom \/ LeaveDirectMessageRoom \/ Forget
  PROVE  IInv'
<1> USE DEF Pcs, Reasons, Ready
<1>1. /\ TypeOK /\ MembersFit /\ done < batch
      /\ UNCHANGED <<creator, remote, queue, batch, events>>
  BY DEF IInv, LeaveRoom, LeaveDirectMessageRoom, Forget, Calls, At
<1>2. /\ Goes
      /\ failed' \in BOOLEAN /\ faults' \in 0..MaxFaults /\ (failed => failed')
      /\ ~failed' => th'.pc \notin {"refuse", "notify"}
  <2>1. CASE Fails /\ faults < MaxFaults /\ faults' = faults + 1 /\ failed' = TRUE
    BY <1>1, <2>1, FailsSo, AdminRoomFits DEF TypeOK
  <2>2. CASE (Goto("forget") \/ Proceed \/ DropRest) /\ UNCHANGED <<failed, faults>>
    BY <1>1, <2>2, GoingOn DEF TypeOK
  <2>3. QED
    BY <2>1, <2>2 DEF LeaveRoom, LeaveDirectMessageRoom, Forget, Answered, LeavingEnds
<1>3. RoomGrows /\ ~BotIsIn' /\ readable' \in BOOLEAN
  <2>1. CASE Forget
    <3>1. member' = member /\ queue' = queue /\ readable' = FALSE /\ ~BotIsIn
      BY <2>1 DEF Forget, Calls, At, IInv, HandlerFits
    <3>2. QED
      BY <3>1 DEF RoomGrows, BotIsIn, Is
  <2>2. CASE LeaveRoom \/ LeaveDirectMessageRoom
    <3>1. /\ Member(Bot, "leave", Bot) /\ Bot \in Users
          /\ readable' = readable
      BY <2>2 DEF LeaveRoom, LeaveDirectMessageRoom, BotOut, Member, Users
    <3>2. member'[Bot] = [membership |-> "leave", sender |-> Bot]
      BY <1>1, <3>1, MemberChanges
    <3>3. QED
      BY <1>1, <3>1, <3>2 DEF RoomGrows, BotIsIn, Is, TypeOK
  <2>3. QED
    BY <2>1, <2>2
<1>4. QED
  BY <1>1, <1>2, <1>3, BotIsOut DEF TypeOK

\* handle_bot_invite.  An invite that is ignored, and one to a room that the bot is in, change
\* nothing; a bot that joins will look at the members when its own join is handled.
LEMMA BotInvitedSafe ==
  ASSUME IInv, BotInvited
  PROVE  IInv'
<1> USE DEF Pcs, Reasons, Ready
<1> DEFINE join == [kind |-> "join", user |-> Bot]
<1>1. /\ TypeOK /\ MembersFit
      /\ done < batch /\ th.pc = "next" /\ Current.kind = "invite"
      /\ UNCHANGED <<creator, remote, batch, events>>
  BY DEF IInv, BotInvited, Calls, At, roomVars
<1>2. /\ Goes /\ KeepsJoins /\ th'.pc \notin {"forget"} /\ (th'.pc \in {"refuse", "notify"} => failed')
      /\ failed' \in BOOLEAN /\ faults' \in 0..MaxFaults /\ (failed => failed')
  <2>1. CASE Fails /\ faults < MaxFaults /\ faults' = faults + 1 /\ failed' = TRUE
    BY <1>1, <2>1, FailsSo, AdminRoomFits DEF TypeOK, KeepsJoins
  <2>2. CASE Proceed /\ UNCHANGED <<failed, faults>>
    BY <1>1, <2>2, GoingOn, PassingOver DEF TypeOK
  <2>3. QED
    BY <2>1, <2>2 DEF BotInvited, Answered
<1>3. CASE UNCHANGED <<readable, member, queue>>
  BY <1>1, <1>2, <1>3, QuietSafe DEF QuietFits, RefusesForAThird
<1>4. CASE /\ member' = [member EXCEPT ![Bot] = [membership |-> "join", sender |-> Bot]]
           /\ readable' = TRUE
           /\ queue' = IF BotIsIn THEN queue ELSE Append(queue, join)
  <2>1. Bot \in Users /\ join \in Event
    BY DEF Users, Event
  <2>2. CASE BotIsIn
    <3>1. member[Bot] = [membership |-> "join", sender |-> Bot]
      <4>1. member[Bot] \in MemberEvent /\ member[Bot].membership = "join" /\ member[Bot].sender = Bot
        BY <1>1, <2>1, <2>2 DEF TypeOK, MembersFit, InRoom, Is, BotIsIn
      <4>2. QED
        BY <4>1 DEF MemberEvent
    <3>2. member' = member
      BY <1>1, <1>4, <3>1 DEF TypeOK
    <3>3. readable' = readable /\ queue' = queue
      BY <1>1, <1>4, <2>2 DEF MembersFit
    <3>4. QED
      BY <1>3, <3>2, <3>3
  <2>3. CASE ~BotIsIn
    <3>1. queue' = Append(queue, join) /\ Member(Bot, "join", Bot)
      BY <1>4, <2>3 DEF Member
    <3>2. RoomGrows
      BY <2>1, <3>1 DEF RoomGrows
    <3>3. /\ member' \in [Users -> MemberEvent]
          /\ QueueGrows
          /\ MembersFit'
          /\ Cardinality(Known) > 2 => Cardinality(Known') > 2
      BY <1>4, <3>2, GrownRoomFits
    <3>4. Len(queue') = Len(queue) + 1 /\ queue'[Len(queue) + 1] = join /\ Len(queue) \in Nat
      BY <1>1, <2>1, <3>1, Queued DEF TypeOK
    <3>5. TypeOK'
      BY <1>1, <1>2, <1>4, <3>3 DEF TypeOK, Goes, QueueGrows
    <3>6. HandlerFits'
      BY <1>1, <1>2 DEF HandlerFits, Goes
    <3>7. RefusedForAThird'
      BY <1>2 DEF RefusedForAThird
    <3>8. ASSUME NEW i \in 1..Len(queue'), queue'[i].kind = "message"
          PROVE  Len(queue') \in i + 1..Len(queue') /\ queue'[i].user # Bot
      <4>1. i # Len(queue')
        BY <3>4, <3>8
      <4>2. queue'[i].user \in Humans
        BY <3>3, <3>8 DEF MembersFit, MessageAt
      <4>3. QED
        BY <3>4, <4>1, <4>2, UsersAreDistinct
    <3>9. queue'[Len(queue')] = join
      BY <3>4
    <3>10. AbsentAreOverruled'
      BY <3>8, <3>9 DEF AbsentAreOverruled, MessageAt
    <3>11. CrowdWillBeSeen'
      <4>1. Len(queue') \in First'..Len(queue')
        BY <1>1, <1>2, <3>4 DEF First, Goes, TypeOK
      <4>2. \A i \in 1..Len(queue') - 1 :
              queue'[i].kind = "message" =>
                \E k \in i + 1..Len(queue') :
                  queue'[k].kind = "join" /\ queue'[k].user # queue'[i].user
        BY <3>4, <3>8, <3>9
      <4>3. QED
        BY <3>9, <4>1, <4>2 DEF CrowdWillBeSeen, MessageAt, Overruled
    <3>12. QED
      BY <3>3, <3>5, <3>6, <3>7, <3>10, <3>11 DEF IInv
  <2>4. QED
    BY <2>2, <2>3
<1>5. QED
  BY <1>3, <1>4 DEF BotInvited, roomVars

-----------------------------------------------------------------------------
(***************************************************************************)
(* What users do                                                           *)
(***************************************************************************)

\* The bot stays as it is, and so does its handler.
UserActFits ==
  /\ RoomGrows
  /\ UNCHANGED <<creator, remote, readable, batch, done, th, failed, faults>>
  /\ events < MaxEvents /\ events' = events + 1

\* The part of the invariant that does not ask who overrules whom.
LEMMA UserActKeeps ==
  ASSUME IInv, UserActFits, BotIsIn' => BotIsIn
  PROVE  /\ TypeOK' /\ MembersFit' /\ HandlerFits' /\ RefusedForAThird'
         /\ QueueGrows /\ First' = First
<1>1. /\ UNCHANGED <<creator, remote, readable, batch, done, th, failed, faults>>
      /\ events' = events + 1 /\ events < MaxEvents
      /\ RoomGrows
  BY DEF UserActFits
<1>2. /\ member' \in [Users -> MemberEvent]
      /\ QueueGrows
      /\ MembersFit'
      /\ Cardinality(Known) > 2 => Cardinality(Known') > 2
  BY <1>1, GrownRoomFits DEF IInv, MembersFit
<1>3. TypeOK'
  BY <1>1, <1>2, AdminRoomFits DEF IInv, TypeOK, QueueGrows
<1>4. HandlerFits' /\ RefusedForAThird' /\ First' = First
  BY <1>1, <1>2 DEF IInv, HandlerFits, RefusedForAThird, First
<1>5. QED
  BY <1>2, <1>3, <1>4

\* Who joined or wrote before is overruled by what overruled it before.
LEMMA StillOverruled ==
  ASSUME TypeOK, QueueGrows, NEW i \in 1..Len(queue), NEW k \in i + 1..Len(queue)
  PROVE  /\ k \in i + 1..Len(queue') /\ i \in 1..Len(queue') /\ k \in 1..Len(queue')
         /\ queue'[i] = queue[i] /\ queue'[k] = queue[k]
<1>1. Len(queue) \in Nat
  BY DEF TypeOK
<1>2. QED
  BY <1>1 DEF QueueGrows

\* The messages of those who were absent are overruled as they were.
LEMMA AbsentStayOverruled ==
  ASSUME IInv, QueueGrows, BotIsIn,
         NEW i \in 1..Len(queue), MessageAt(i), ~Is(queue[i].user, "join")
  PROVE  \E k \in i + 1..Len(queue') :
           \/ queue'[k] = [kind |-> "join", user |-> Bot]
           \/ queue'[k] = [kind |-> "leave", user |-> queue'[i].user]
<1>1. TypeOK
  BY DEF IInv
<1>2. PICK k \in i + 1..Len(queue) :
        \/ queue[k] = [kind |-> "join", user |-> Bot]
        \/ queue[k] = [kind |-> "leave", user |-> queue[i].user]
  BY DEF IInv, AbsentAreOverruled
<1>3. QED
  BY <1>1, <1>2, StillOverruled

\* A crowd that was there is still seen.
LEMMA OldCrowd ==
  ASSUME IInv, QueueGrows, UNCHANGED <<creator, failed>>, First' = First,
         BotIsIn' /\ Crowded' => BotIsIn /\ Crowded
  PROVE  CrowdWillBeSeen'
<1>1. SUFFICES ASSUME BotIsIn', Crowded', creator \in Humans, ~failed
               PROVE  \E j \in First..Len(queue') :
                        /\ queue'[j].kind = "join"
                        /\ \A i \in 1..j - 1 :
                             queue'[i].kind = "message" =>
                               \E k \in i + 1..Len(queue') :
                                 \/ queue'[k].kind = "join" /\ queue'[k].user # queue'[i].user
                                 \/ queue'[k] = [kind |-> "leave", user |-> queue'[i].user]
  BY DEF CrowdWillBeSeen, MessageAt, Overruled
<1>2. PICK j \in First..Len(queue) :
        /\ queue[j].kind = "join"
        /\ \A i \in 1..j - 1 : MessageAt(i) => \E k \in i + 1..Len(queue) : Overruled(i, k)
  BY <1>1 DEF IInv, CrowdWillBeSeen
<1>3. First \in Nat \ {0} /\ Len(queue) \in Nat /\ TypeOK
  BY DEF First, IInv, TypeOK
<1>4. j \in First..Len(queue') /\ queue'[j] = queue[j]
  BY <1>3 DEF QueueGrows
<1>5. ASSUME NEW i \in 1..j - 1, queue'[i].kind = "message"
      PROVE  \E k \in i + 1..Len(queue') :
               \/ queue'[k].kind = "join" /\ queue'[k].user # queue'[i].user
               \/ queue'[k] = [kind |-> "leave", user |-> queue'[i].user]
  <2>1. i \in 1..Len(queue)
    BY <1>3
  <2>2. PICK k \in i + 1..Len(queue) : Overruled(i, k)
    BY <1>2, <1>5, <2>1 DEF QueueGrows, MessageAt
  <2>3. QED
    BY <1>3, <2>1, <2>2, StillOverruled DEF Overruled
<1>6. QED
  BY <1>2, <1>4, <1>5

\* Nothing new happens in a room that the bot is not in,
LEMMA BotIsNotThere ==
  ASSUME IInv, UserActFits, ~BotIsIn'
  PROVE  IInv'
<1>1. TypeOK' /\ MembersFit' /\ HandlerFits' /\ RefusedForAThird'
  BY UserActKeeps
<1>2. QED
  BY <1>1 DEF IInv, AbsentAreOverruled, CrowdWillBeSeen

\* and a user who joined and had joined before makes it no more crowded.
LEMMA CrowdIsOld ==
  ASSUME IInv, InRoom' \subseteq InRoom, Crowded'
  PROVE  Crowded
<1>1. InRoom \in SUBSET Known /\ InRoom' \in SUBSET InRoom
  BY DEF InRoom, Known, Is
<1>2. IsFiniteSet(InRoom)
  BY <1>1, FS_Subset DEF IInv, MembersFit
<1>3. /\ Cardinality(InRoom) \in Nat /\ Cardinality(InRoom') \in Nat
      /\ Cardinality(InRoom') <= Cardinality(InRoom)
  BY <1>1, <1>2, FS_Subset, FS_CardinalityType
<1>4. QED
  BY <1>3 DEF Crowded

\* Invitations, also of the bot, and the removal of the bot.
LEMMA InvitesSafe ==
  ASSUME IInv,
         \/ \E u \in Creators : InvitesBot(u) \/ \E h \in Humans : Invites(u, h)
         \/ RemovesBot
  PROVE  IInv'
<1>1. TypeOK /\ MembersFit /\ Bot \in Users /\ Creators \subseteq Users /\ Humans \subseteq Users
  BY DEF IInv, Creators, Users
<1>2. ASSUME NEW u \in Creators, InvitesBot(u)
      PROVE  IInv'
  <2>1. Member(Bot, "invite", u) /\ queue' = Append(queue, [kind |-> "invite", user |-> Bot])
    BY <1>2 DEF InvitesBot
  <2>2. [kind |-> "invite", user |-> Bot] \in Event
    BY <1>1 DEF Event
  <2>3. RoomGrows
    BY <1>1, <2>1, <2>2 DEF RoomGrows
  <2>4. UserActFits
    BY <1>2, <2>3 DEF InvitesBot, UserActFits
  <2>5. member'[Bot] = [membership |-> "invite", sender |-> u]
    BY <1>1, <2>1, MemberChanges
  <2>6. QED
    BY <2>4, <2>5, BotIsNotThere DEF BotIsIn, Is
<1>3. CASE RemovesBot
  <2>1. Member(Bot, "leave", creator) /\ queue' = queue /\ creator \in Users
    BY <1>1, <1>3 DEF RemovesBot, TypeOK
  <2>2. UserActFits
    BY <1>1, <1>3, <2>1 DEF RemovesBot, UserActFits, RoomGrows
  <2>3. member'[Bot] = [membership |-> "leave", sender |-> creator]
    BY <1>1, <2>1, MemberChanges
  <2>4. QED
    BY <2>2, <2>3, BotIsNotThere DEF BotIsIn, Is
<1>4. ASSUME NEW u \in Creators, NEW h \in Humans, Invites(u, h)
      PROVE  IInv'
  <2>1. Member(h, "invite", u) /\ queue' = queue /\ ~Is(h, "join") /\ h # Bot
    BY <1>4, UsersAreDistinct DEF Invites, Is
  <2>2. UserActFits
    BY <1>1, <1>4, <2>1 DEF Invites, UserActFits, RoomGrows
  <2>3. /\ member'[h] = [membership |-> "invite", sender |-> u]
        /\ \A v \in Users \ {h} : member'[v] = member[v]
    BY <1>1, <2>1, MemberChanges
  <2>4. InRoom' = InRoom /\ BotIsIn' = BotIsIn
    <3>1. \A v \in Users : member'[v].membership = "join" <=> member[v].membership = "join"
      BY <1>1, <2>1, <2>3 DEF Is
    <3>2. QED
      BY <1>1, <3>1 DEF InRoom, Is, BotIsIn
  <2>5. TypeOK' /\ MembersFit' /\ HandlerFits' /\ RefusedForAThird' /\ QueueGrows /\ First' = First
    BY <2>2, <2>4, UserActKeeps
  <2>6. CrowdWillBeSeen'
    BY <2>2, <2>4, <2>5, OldCrowd, CrowdIsOld DEF UserActFits
  <2>7. ASSUME BotIsIn, NEW i \in 1..Len(queue'), queue'[i].kind = "message",
               member'[queue'[i].user].membership # "join"
        PROVE  \E k \in i + 1..Len(queue') :
                 \/ queue'[k] = [kind |-> "join", user |-> Bot]
                 \/ queue'[k] = [kind |-> "leave", user |-> queue'[i].user]
    <3>1. i \in 1..Len(queue) /\ queue[i].user \in Humans /\ MessageAt(i)
      BY <1>1, <2>1, <2>7 DEF MembersFit, MessageAt
    <3>2. ~Is(queue[i].user, "join")
      BY <1>1, <2>1, <2>3, <2>7, <3>1 DEF Is
    <3>3. QED
      BY <2>5, <2>7, <3>1, <3>2, AbsentStayOverruled
  <2>8. AbsentAreOverruled'
    BY <2>4, <2>7 DEF AbsentAreOverruled, MessageAt, Is
  <2>9. QED
    BY <2>5, <2>6, <2>8 DEF IInv
<1>5. QED
  BY <1>2, <1>3, <1>4

\* What a user does in the room is queued while the bot is in it.
LEMMA HappensSafe ==
  ASSUME IInv, NEW h \in Humans, NEW kind \in {"join", "leave", "message"}, Happens(kind, h),
         \/ kind = "join" /\ (Is(h, "invite") \/ Is(h, "join")) /\ Member(h, "join", h)
         \/ kind = "leave" /\ \E by \in Users : Member(h, "leave", by)
         \/ kind = "message" /\ Is(h, "join") /\ UNCHANGED member
  PROVE  IInv'
<1> DEFINE e == [kind |-> kind, user |-> h]
<1>1. TypeOK /\ MembersFit /\ h \in Users /\ h # Bot /\ e \in Event
  BY UsersAreDistinct DEF IInv, Users, Event
<1>2. /\ e.kind = kind /\ e.user = h
      /\ \/ queue' = Append(queue, e)
         \/ ~BotIsIn /\ queue' = queue
  BY DEF Happens
<1> HIDE DEF e
<1>3. RoomGrows
  <2>1. \/ UNCHANGED member
        \/ \E u \in Users, m \in {"invite", "join", "leave"}, by \in Users :
             /\ Member(u, m, by)
             /\ m = "join" => by = u
    BY <1>1
  <2>2. QED
    BY <1>1, <1>2, <2>1 DEF RoomGrows
<1>4. UserActFits
  BY <1>3 DEF Happens, UserActFits
<1>5. /\ \A v \in Users \ {h} : member'[v] = member[v]
      /\ kind = "join" => member'[h].membership = "join" /\ (Is(h, "invite") \/ Is(h, "join"))
      /\ kind = "leave" => member'[h].membership = "leave"
      /\ kind = "message" => member'[h].membership = "join" /\ Is(h, "join")
  <2>1. CASE kind = "message" /\ Is(h, "join") /\ UNCHANGED member
    BY <1>1, <2>1 DEF Is
  <2>2. CASE kind = "join" /\ (Is(h, "invite") \/ Is(h, "join")) /\ Member(h, "join", h)
    <3>1. /\ member'[h] = [membership |-> "join", sender |-> h]
          /\ \A v \in Users \ {h} : member'[v] = member[v]
      BY <1>1, <2>2, MemberChanges
    <3>2. QED
      BY <2>2, <3>1
  <2>3. CASE kind = "leave" /\ \E by \in Users : Member(h, "leave", by)
    <3>1. PICK by \in Users : Member(h, "leave", by)
      BY <2>3
    <3>2. /\ member'[h] = [membership |-> "leave", sender |-> by]
          /\ \A v \in Users \ {h} : member'[v] = member[v]
      BY <1>1, <3>1, MemberChanges
    <3>3. QED
      BY <2>3, <3>2
  <2>4. QED
    BY <2>1, <2>2, <2>3
<1>6. BotIsIn' = BotIsIn
  BY <1>1, <1>5 DEF BotIsIn, Is, Users
<1>7. TypeOK' /\ MembersFit' /\ HandlerFits' /\ RefusedForAThird' /\ QueueGrows /\ First' = First
  BY <1>4, <1>6, UserActKeeps
<1>8. CASE ~BotIsIn
  BY <1>4, <1>6, <1>8, BotIsNotThere
<1>9. CASE BotIsIn
  <2>1. queue' = Append(queue, e)
    BY <1>2, <1>9
  <2>2. /\ Len(queue') = Len(queue) + 1 /\ Len(queue) \in Nat
        /\ queue'[Len(queue')] = e
        /\ \A i \in 1..Len(queue) : queue'[i] = queue[i]
    BY <1>1, <2>1, Queued DEF QueueGrows, TypeOK
  <2>3. ASSUME NEW i \in 1..Len(queue'), queue'[i].kind = "message",
               member'[queue'[i].user].membership # "join"
        PROVE  \E k \in i + 1..Len(queue') :
                 \/ queue'[k] = [kind |-> "join", user |-> Bot]
                 \/ queue'[k] = [kind |-> "leave", user |-> queue'[i].user]
    <3>1. i # Len(queue')
      BY <1>2, <1>5, <2>2, <2>3
    <3>2. i \in 1..Len(queue) /\ queue'[i] = queue[i] /\ Len(queue') \in i + 1..Len(queue')
      BY <2>2, <3>1
    <3>3. queue[i].user \in Humans /\ MessageAt(i)
      BY <1>1, <2>3, <3>2 DEF MembersFit, MessageAt
    <3>4. CASE queue[i].user = h /\ kind = "leave"
      <4>1. queue'[Len(queue')] = [kind |-> "leave", user |-> queue'[i].user]
        BY <2>2, <3>2, <3>4 DEF e
      <4>2. QED
        BY <3>2, <4>1
    <3>5. CASE ~(queue[i].user = h /\ kind = "leave")
      <4>1. ~Is(queue[i].user, "join")
        BY <1>5, <2>3, <3>2, <3>3, <3>5 DEF Is, Users
      <4>2. QED
        BY <1>7, <1>9, <3>2, <3>3, <4>1, AbsentStayOverruled
    <3>6. QED
      BY <3>4, <3>5
  <2>4. AbsentAreOverruled'
    BY <2>3 DEF AbsentAreOverruled, MessageAt, Is
  <2>5. CrowdWillBeSeen'
    <3>1. CASE Crowded' => Crowded
      BY <1>4, <1>6, <1>7, <3>1, OldCrowd DEF UserActFits
    <3>2. CASE Crowded' /\ ~Crowded
      <4>1. kind = "join" /\ ~Is(h, "join")
        <5>1. ~(InRoom' \subseteq InRoom)
          BY <3>2, CrowdIsOld
        <5>2. PICK v \in Users : member'[v].membership = "join" /\ ~Is(v, "join")
          BY <5>1 DEF InRoom, Is
        <5>3. v = h
          BY <1>5, <5>2 DEF Is
        <5>4. QED
          BY <1>5, <5>2, <5>3
      <4>2. Len(queue') \in First..Len(queue')
        BY <1>1, <2>2 DEF First, IInv, HandlerFits, TypeOK
      <4>3. ASSUME NEW i \in 1..Len(queue') - 1, queue'[i].kind = "message"
            PROVE  \E k \in i + 1..Len(queue') :
                     \/ queue'[k].kind = "join" /\ queue'[k].user # queue'[i].user
                     \/ queue'[k] = [kind |-> "leave", user |-> queue'[i].user]
        <5>1. i \in 1..Len(queue) /\ queue'[i] = queue[i] /\ Len(queue') \in i + 1..Len(queue')
          BY <2>2
        <5>2. CASE queue[i].user # h
          BY <1>2, <2>2, <4>1, <5>1, <5>2
        <5>3. CASE queue[i].user = h
          <6>1. PICK k \in i + 1..Len(queue') :
                  \/ queue'[k] = [kind |-> "join", user |-> Bot]
                  \/ queue'[k] = [kind |-> "leave", user |-> queue'[i].user]
            BY <1>7, <1>9, <4>1, <4>3, <5>1, <5>3, AbsentStayOverruled DEF MessageAt
          <6>2. QED
            BY <1>1, <5>1, <5>3, <6>1
        <5>4. QED
          BY <5>2, <5>3
      <4>4. queue'[Len(queue')].kind = "join"
        BY <1>2, <2>2, <4>1
      <4>5. QED
        BY <1>7, <4>2, <4>3, <4>4 DEF CrowdWillBeSeen, MessageAt, Overruled
    <3>3. QED
      BY <3>1, <3>2
  <2>6. QED
    BY <1>7, <2>4, <2>5 DEF IInv
<1>10. QED
  BY <1>8, <1>9

LEMMA UserActsSafe ==
  ASSUME IInv, UserActs
  PROVE  IInv'
<1>1. ASSUME NEW h \in Humans, Joins(h) \/ Writes(h)
      PROVE  IInv'
  BY <1>1, HappensSafe DEF Joins, Writes
<1>2. ASSUME NEW u \in Creators, NEW h \in Humans, Leaves(h, u)
      PROVE  IInv'
  <2>1. u \in Users
    BY DEF Creators, Users
  <2>2. QED
    BY <1>2, <2>1, HappensSafe DEF Leaves
<1>3. QED
  BY <1>1, <1>2, InvitesSafe DEF UserActs

-----------------------------------------------------------------------------
(***************************************************************************)
(* The theorems                                                            *)
(***************************************************************************)

\* A room with nobody in it but its creator.
LEMMA InitInv == Init => IInv
<1>1. SUFFICES ASSUME Init
               PROVE  IInv
  OBVIOUS
<1>2. creator \in Users /\ Bot \in Users /\ creator # Bot
  BY <1>1, UsersAreDistinct DEF Init, Creators, Users
<1>3. Known = {creator}
  BY <1>1, <1>2 DEF Init, Known, Is
<1>4. TypeOK
  <2>1. member \in [Users -> MemberEvent]
    BY <1>1 DEF Init, MemberEvent
  <2>2. Ready \in Thread
    BY DEF Ready, Thread, Pcs, Reasons
  <2>3. queue \in Seq(Event) /\ Len(queue) = 0
    BY <1>1 DEF Init
  <2>4. QED
    <3>1. /\ batch \in 0..Len(queue) /\ done \in 0..batch
          /\ events \in 0..MaxEvents /\ faults \in 0..MaxFaults
      BY <1>1, <2>3, AdminRoomFits DEF Init
    <3>2. /\ creator \in Creators /\ remote \in BOOLEAN
          /\ readable \in BOOLEAN /\ failed \in BOOLEAN /\ th \in Thread
      BY <1>1, <2>2 DEF Init
    <3>3. QED
      BY <2>1, <2>3, <3>1, <3>2 DEF TypeOK
<1>5. ~BotIsIn
  BY <1>1, <1>2 DEF Init, BotIsIn, Is
<1>6. MembersFit
  <2>1. IsFiniteSet(Known)
    BY <1>3, FS_Singleton
  <2>2. QED
    BY <1>1, <1>5, <2>1 DEF Init, MembersFit, InRoom
<1>7. QED
  BY <1>1, <1>4, <1>5, <1>6
  DEF IInv, Init, Ready, HandlerFits, AbsentAreOverruled, CrowdWillBeSeen, RefusedForAThird

LEMMA InvStep == IInv /\ [Next]_vars => IInv'
<1>1. SUFFICES ASSUME IInv, [Next]_vars
               PROVE  IInv'
  OBVIOUS
<1>2. CASE UNCHANGED vars
  <2>1. UNCHANGED <<creator, remote, member, readable, queue, batch, done, th, failed, events, faults>>
    BY <1>2 DEF vars, roomVars
  <2>2. QED
    BY <1>1, <2>1 DEF IInv, TypeOK, MembersFit, HandlerFits, AbsentAreOverruled, CrowdWillBeSeen,
                RefusedForAThird, Known, InRoom, Is, BotIsIn, Crowded, First, MessageAt, Overruled
<1>3. CASE Handle \/ CallFails
  BY <1>1, <1>3, QuietKeepsInv, LeavingSafe, BotInvitedSafe DEF Handle, Quiet
<1>4. QED
  BY <1>1, <1>2, <1>3, PushSafe, AnswerSafe, CrashSafe, UserActsSafe DEF Next

\* Who is in the room and who has left it, what its waiting events say about that, and what the
\* handler is at fit together in every reachable state.
THEOREM Inductive == Spec => []IInv
BY InitInv, InvStep, PTL DEF Spec

\* The variables keep their types for any users, queues and transactions.
THEOREM TypeCorrect == Spec => []TypeOK
<1>1. IInv => TypeOK
  BY DEF IInv
<1>2. QED
  BY <1>1, Inductive, PTL

\* A room is refused or left with a message only when it has had a third user in it or invited
\* to it (membership_handler.rs, is_private_room): the distinct adjacent senders of its member
\* events are never more than its users.
THEOREM RefusedOnlyForAThird == Spec => []RefusedForAThird
<1>1. IInv => RefusedForAThird
  BY DEF IInv
<1>2. QED
  BY <1>1, Inductive, PTL

\* The bot is never in a crowded admin room unnoticed: a join is still to be handled, and that
\* handling looks at the members (handle_user_join, setup_admin_room).
THEOREM CrowdsAreNoticed == Spec => []CrowdIsNoticed
<1>1. IInv => CrowdIsNoticed
  <2>1. ASSUME IInv, BotIsIn, Crowded, creator \in Humans, ~failed
        PROVE  \E e \in Pending : e.kind = "join"
    <3>1. PICK j \in First..Len(queue) : queue[j].kind = "join"
      BY <2>1 DEF IInv, CrowdWillBeSeen
    <3>2. queue[j] \in Pending
      BY DEF Pending, First
    <3>3. QED
      BY <3>1, <3>2
  <2>2. QED
    BY <2>1 DEF CrowdIsNoticed
<1>2. QED
  BY <1>1, Inductive, PTL

\* Nobody whose joining made an admin room crowded commands the bot there: that join is handled
\* before the message (MessageHandler::process looks at no members), unless somebody else joined
\* later or the sender left in between.
THEOREM CrowdsAreNotObeyed == Spec => []CrowdIsNotObeyed
<1>1. IInv => CrowdIsNotObeyed
  <2>1. SUFFICES ASSUME IInv, Crowded, ~failed, NEW h \in Obeyed
                 PROVE  \E e \in Pending :
                          \/ e.kind = "join" /\ e.user # h
                          \/ e = [kind |-> "leave", user |-> h]
    BY DEF CrowdIsNotObeyed
  <2>2. /\ th.pc = "next" /\ BotIsIn /\ creator \in Humans
        /\ queue[done + 1].kind = "message" /\ queue[done + 1].user = h
    BY <2>1 DEF Obeyed, At, IsAdminRoom, Current, IInv, TypeOK, Creators, AsUsers
  <2>3. done \in Nat
    BY <2>1 DEF IInv, TypeOK
  <2>4. PICK j \in done + 1..Len(queue) :
          /\ queue[j].kind = "join"
          /\ \A i \in 1..j - 1 : MessageAt(i) => \E k \in i + 1..Len(queue) : Overruled(i, k)
    BY <2>1, <2>2 DEF IInv, CrowdWillBeSeen, First
  <2>5. done + 1 \in 1..j - 1
    BY <2>2, <2>3, <2>4
  <2>6. PICK k \in (done + 1) + 1..Len(queue) : Overruled(done + 1, k)
    BY <2>2, <2>4, <2>5 DEF MessageAt
  <2>7. k \in done + 1..Len(queue)
    BY <2>3
  <2>8. queue[k] \in Pending
    BY <2>2, <2>7 DEF Pending
  <2>9. QED
    BY <2>2, <2>6, <2>8 DEF Overruled
<1>2. QED
  BY <1>1, Inductive, PTL

=============================================================================
