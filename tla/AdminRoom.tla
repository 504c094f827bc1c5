------------------------------ MODULE AdminRoom ------------------------------
(***************************************************************************)
(* The bot's visit to one room: MembershipHandler, and what MessageHandler *)
(* makes of a message while the bot is there.  A Matrix user who wants to  *)
(* give commands creates a room and invites the bot; the bot joins, looks  *)
(* at the members when its own join is pushed, and sets the room up or     *)
(* leaves.  Later it leaves when a third user joins or when somebody       *)
(* leaves.  In a room made by a virtual user (direct messages) it leaves   *)
(* at once.                                                                *)
(*                                                                         *)
(* The homeserver pushes the events of the room in order, some at a time   *)
(* (a transaction), and pushes a transaction again that was not answered.  *)
(* Users go on while an event waits and between the calls of its handler.  *)
(* Events that MembershipHandler::process and MessageHandler::process pass *)
(* over (invites of others, the bot's own leave, its own messages) are     *)
(* left out.                                                               *)
(***************************************************************************)

EXTENDS MatrixRooms, Naturals, Sequences, FiniteSets

CONSTANTS
  AcceptRemoteInvites,  \* Config::accept_remote_invites
  MaxBatch,             \* bound on the events of a transaction
  MaxEvents,            \* bound on what users do
  MaxFaults             \* bound on failed calls, lost answers and crashes

ASSUME AdminRoomFits ==
  /\ AcceptRemoteInvites \in BOOLEAN
  /\ MaxBatch \in Nat \ {0}
  /\ MaxEvents \in Nat
  /\ MaxFaults \in Nat

VARIABLES
  creator,   \* who created the room
  remote,    \* the room is on another homeserver
  member,    \* the member event of every user: membership and sender
  readable,  \* the bot can read the room: it joined, and did not forget it
  queue,     \* events that are not answered yet, oldest first
  batch,     \* how many of them are in the transaction that is open
  done,      \* how many of those are handled
  th,        \* the call that the handler makes next, and why it leaves
  failed,    \* a call of a handler failed
  events,    \* what users did so far
  faults     \* faults so far

roomVars == <<creator, remote, member, readable>>
vars == <<roomVars, queue, batch, done, th, failed, events, faults>>

Creators == Humans \cup Virtuals

Event == [kind : {"invite", "join", "leave", "message"}, user : Users]

\* A user without a member event has the membership "none".
MemberEvent == [membership : {"none", "invite", "join", "leave"}, sender : Users]

Pcs == {"next", "validate", "help", "name", "refuse", "notify", "leave", "forget", "leave_dm"}

\* Why the bot leaves and forgets: the room is not valid, looking at it failed, or a user
\* joined or left.
Reasons == {"none", "invalid", "error", "user"}

Thread == [pc : Pcs, reason : Reasons]

Ready == [pc |-> "next", reason |-> "none"]

Is(u, membership) == member[u].membership = membership

BotIsIn == Is(Bot, "join")

\* The event that is being handled.
Current == queue[done + 1]

-----------------------------------------------------------------------------
(***************************************************************************)
(* Room::is_admin_room, and MembershipHandler::is_private_room: the        *)
(* senders of all member events, whatever the membership, in the order in  *)
(* which the homeserver lists them, without adjacent repetitions.          *)
(***************************************************************************)

IsAdminRoom == readable /\ BotIsIn /\ creator \notin AsUsers

\* Users who have a member event.
Known == {u \in Users : ~Is(u, "none")}

Listings(S) == {list \in [1..Cardinality(S) -> S] : \A u \in S : \E i \in DOMAIN list : list[i] = u}

\* The places of the elements that Vec::dedup keeps: those that differ from the one before.
Dedup(senders) == {i \in DOMAIN senders : i = 1 \/ senders[i] # senders[i - 1]}

\* Mutant: one user more.
PrivateForThree(list) ==
  Cardinality(Dedup([i \in DOMAIN list |-> member[list[i]].sender])) <= 3

\* Mutant: only a user who is alone with nobody is private.
PrivateForOne(list) ==
  Cardinality(Dedup([i \in DOMAIN list |-> member[list[i]].sender])) < 2

IsPrivate(list) ==
  Cardinality(Dedup([i \in DOMAIN list |-> member[list[i]].sender])) <= 2

-----------------------------------------------------------------------------
(***************************************************************************)
(* How a handler goes on.                                                  *)
(***************************************************************************)

At(pc) == batch > done /\ th.pc = pc

Goto(pc) == th' = [th EXCEPT !.pc = pc] /\ UNCHANGED done

LeaveBecause(pc, reason) == th' = [pc |-> pc, reason |-> reason] /\ UNCHANGED done

\* The handler returns Ok: the next event of the batch.
Proceed == th' = Ready /\ done' = done + 1

\* Mutant: everything that waits is dropped.
DropAll == th' = Ready /\ done' = Len(queue)

\* The handler returns Err: Dispatcher::process ends the batch.
DropRest == th' = Ready /\ done' = batch

\* The end of leaving and forgetting: handle_admin_room_setup_error logs errors, the other
\* handlers return them.
LeavingEnds(ok) ==
  IF th.reason = "error" \/ (th.reason = "user" /\ ~ok) THEN DropRest ELSE Proceed

\* What an Err of the next call leads to.  At the help message it may be one of building the
\* text, which is logged, or one of sending it.
Fails ==
  CASE th.pc = "next" ->
         IF Current = [kind |-> "join", user |-> Bot]
           THEN LeaveBecause("refuse", "error")
           ELSE DropRest
    [] th.pc = "validate" ->
         \/ DropRest
         \/ Current.user = Bot /\ LeaveBecause("refuse", "invalid")
    [] th.pc = "name" -> Proceed
    [] th.pc = "refuse" -> Goto("leave")
    [] th.pc \in {"leave", "forget"} -> LeavingEnds(FALSE)
    [] th.pc = "help" -> DropRest \/ Goto("name")
    [] th.pc \in {"notify", "leave_dm"} -> DropRest

\* handle_bot_invite: no call is made.
IgnoresInvite == Current.kind = "invite" /\ remote /\ ~AcceptRemoteInvites

\* Whether the homeserver grants the next call.
Granted ==
  /\ th.pc = "next" /\ Current.kind = "invite" /\ ~IgnoresInvite => Is(Bot, "invite") \/ BotIsIn
  /\ th.pc \in {"help", "name", "refuse", "notify"} => BotIsIn
  /\ th.pc \in {"leave", "leave_dm"} => Is(Bot, "invite") \/ BotIsIn
  /\ th.pc = "forget" => Is(Bot, "leave")

Calls(pc) == At(pc) /\ Granted

Refused ==
  /\ batch > done
  /\ ~Granted
  /\ Fails
  /\ UNCHANGED <<roomVars, queue, batch, failed, events, faults>>

CallFails ==
  /\ batch > done
  /\ ~(th.pc = "next" /\ IgnoresInvite)
  /\ faults < MaxFaults
  /\ faults' = faults + 1
  /\ failed' = TRUE
  /\ Fails
  /\ UNCHANGED <<roomVars, queue, batch, events>>

\* The call changed the room; its answer arrives, or it does not.
Answered(next) ==
  \/ next /\ UNCHANGED <<failed, faults>>
  \/ faults < MaxFaults /\ faults' = faults + 1 /\ failed' = TRUE /\ Fails

-----------------------------------------------------------------------------
(***************************************************************************)
(* MembershipHandler::process and MessageHandler::process.  The calls of   *)
(* is_admin_room are one step: the creator never changes, and whether the  *)
(* room can be read changes by this handler only.                          *)
(***************************************************************************)

\* handle_bot_invite
BotInvited ==
  /\ Calls("next")
  /\ Current.kind = "invite"
  /\ IF IgnoresInvite
       THEN Proceed /\ UNCHANGED <<roomVars, queue, failed, faults>>
       ELSE /\ member' = [member EXCEPT ![Bot] = [membership |-> "join", sender |-> Bot]]
            /\ readable' = TRUE
            /\ queue' = IF BotIsIn THEN queue ELSE Append(queue, [kind |-> "join", user |-> Bot])
            /\ Answered(Proceed)
            /\ UNCHANGED <<creator, remote>>
  /\ UNCHANGED <<batch, events>>

\* handle_bot_join: an admin room is set up, a direct message room is left, and other rooms
\* are left alone.  A room that cannot be read has no creator to ask for.
BotJoined ==
  /\ Calls("next")
  /\ Current = [kind |-> "join", user |-> Bot]
  /\ \/ IsAdminRoom /\ Goto("validate")
     \/ ~IsAdminRoom /\ readable /\ creator \in Virtuals /\ Goto("leave_dm")
     \/ ~IsAdminRoom /\ readable /\ creator \notin Virtuals /\ Proceed
     \/ ~IsAdminRoom /\ ~readable /\ DropRest
  /\ UNCHANGED <<roomVars, queue, batch, failed, events, faults>>

\* handle_user_join
UserJoined ==
  /\ Calls("next")
  /\ Current.kind = "join"
  /\ Current.user # Bot
  /\ IF IsAdminRoom THEN Goto("validate") ELSE Proceed
  /\ UNCHANGED <<roomVars, queue, batch, failed, events, faults>>

\* Mutant: only the creator's leaving counts.
CreatorLeft ==
  /\ Calls("next")
  /\ Current.kind = "leave"
  /\ IF IsAdminRoom /\ Current.user = creator THEN LeaveBecause("leave", "user") ELSE Proceed
  /\ UNCHANGED <<roomVars, queue, batch, failed, events, faults>>

\* handle_user_leave
UserLeft ==
  /\ Calls("next")
  /\ Current.kind = "leave"
  /\ IF IsAdminRoom THEN LeaveBecause("leave", "user") ELSE Proceed
  /\ UNCHANGED <<roomVars, queue, batch, failed, events, faults>>

\* A message is a command of its sender, or one for a bridged room, whose alias is read.
MessageHandled ==
  /\ Calls("next")
  /\ Current.kind = "message"
  /\ IF readable THEN Proceed ELSE DropRest
  /\ UNCHANGED <<roomVars, queue, batch, failed, events, faults>>

\* setup_admin_room and handle_user_join after the members were read.
Validate ==
  /\ Calls("validate")
  /\ \E list \in Listings(Known) :
       CASE Current.user = Bot /\ IsPrivate(list) -> Goto("help")
         [] Current.user = Bot /\ ~IsPrivate(list) -> LeaveBecause("refuse", "invalid")
         [] Current.user # Bot /\ IsPrivate(list) -> Proceed
         [] Current.user # Bot /\ ~IsPrivate(list) -> LeaveBecause("notify", "user")
  /\ UNCHANGED <<roomVars, queue, batch, failed, events, faults>>

\* The help message welcomes the user.
SendHelp ==
  /\ Calls("help")
  /\ Answered(Goto("name"))
  /\ UNCHANGED <<roomVars, queue, batch, events>>

SetName ==
  /\ Calls("name")
  /\ Proceed
  /\ UNCHANGED <<roomVars, queue, batch, failed, events, faults>>

\* Mutant: the message is all that happens.
SendReasonOnly ==
  /\ Calls("refuse") \/ Calls("notify")
  /\ Proceed
  /\ UNCHANGED <<roomVars, queue, batch, failed, events, faults>>

\* The message that the room is not valid, or that another user joined.
SendReason ==
  /\ Calls("refuse") \/ Calls("notify")
  /\ Goto("leave")
  /\ UNCHANGED <<roomVars, queue, batch, failed, events, faults>>

BotOut == [member EXCEPT ![Bot] = [membership |-> "leave", sender |-> Bot]]

\* Room::forget
LeaveRoom ==
  /\ Calls("leave")
  /\ member' = BotOut
  /\ Answered(Goto("forget"))
  /\ UNCHANGED <<creator, remote, readable, queue, batch, events>>

Forget ==
  /\ Calls("forget")
  /\ readable' = FALSE
  /\ Answered(LeavingEnds(TRUE))
  /\ UNCHANGED <<creator, remote, member, queue, batch, events>>

LeaveDirectMessageRoom ==
  /\ Calls("leave_dm")
  /\ member' = BotOut
  /\ Answered(Proceed)
  /\ UNCHANGED <<creator, remote, readable, queue, batch, events>>

-----------------------------------------------------------------------------
(***************************************************************************)
(* The homeserver and the users.                                           *)
(***************************************************************************)

\* Transactions: the next events of the room are pushed, and forgotten when all of them are
\* handled or dropped.
Push ==
  /\ batch = 0
  /\ queue # <<>>
  /\ batch' \in 1..(IF Len(queue) < MaxBatch THEN Len(queue) ELSE MaxBatch)
  /\ UNCHANGED <<roomVars, queue, done, th, failed, events, faults>>

Answer ==
  /\ batch > 0
  /\ done = batch
  /\ queue' = SubSeq(queue, batch + 1, Len(queue))
  /\ batch' = 0
  /\ done' = 0
  /\ UNCHANGED <<roomVars, th, failed, events, faults>>

\* The process is killed and started again, the open transaction is pushed again.
Crash ==
  /\ faults < MaxFaults
  /\ batch > 0
  /\ faults' = faults + 1
  /\ done' = 0
  /\ th' = Ready
  /\ UNCHANGED <<roomVars, queue, batch, failed, events>>

\* What a user does is pushed if the bot is in the room, and may be if it is invited.
Happens(kind, u) ==
  /\ events < MaxEvents
  /\ events' = events + 1
  /\ \/ /\ BotIsIn \/ Is(Bot, "invite")
        /\ queue' = Append(queue, [kind |-> kind, user |-> u])
     \/ ~BotIsIn /\ UNCHANGED queue
  /\ UNCHANGED <<creator, remote, readable, batch, done, th, failed, faults>>

Member(u, membership, sender) ==
  member' = [member EXCEPT ![u] = [membership |-> membership, sender |-> sender]]

InvitesBot(u) ==
  /\ Is(u, "join")
  /\ Is(Bot, "none") \/ Is(Bot, "leave")
  /\ Member(Bot, "invite", u)
  /\ queue' = Append(queue, [kind |-> "invite", user |-> Bot])
  /\ events < MaxEvents
  /\ events' = events + 1
  /\ UNCHANGED <<creator, remote, readable, batch, done, th, failed, faults>>

Invites(u, h) ==
  /\ Is(u, "join")
  /\ Is(h, "none") \/ Is(h, "leave")
  /\ Member(h, "invite", u)
  /\ events < MaxEvents
  /\ events' = events + 1
  /\ UNCHANGED <<creator, remote, readable, queue, batch, done, th, failed, faults>>

\* Also the change of a profile is a join event.
Joins(h) ==
  /\ Is(h, "invite") \/ Is(h, "join")
  /\ Member(h, "join", h)
  /\ Happens("join", h)

\* A user leaves or declines an invitation, or the creator removes a user.
Leaves(h, by) ==
  /\ Is(h, "invite") \/ Is(h, "join")
  /\ by = h \/ (by = creator /\ Is(by, "join"))
  /\ Member(h, "leave", by)
  /\ Happens("leave", h)

RemovesBot ==
  /\ Is(creator, "join")
  /\ Is(Bot, "invite") \/ BotIsIn
  /\ Member(Bot, "leave", creator)
  /\ events < MaxEvents
  /\ events' = events + 1
  /\ UNCHANGED <<creator, remote, readable, queue, batch, done, th, failed, faults>>

Writes(h) ==
  /\ Is(h, "join")
  /\ Happens("message", h)
  /\ UNCHANGED member

-----------------------------------------------------------------------------

Init ==
  /\ creator \in Creators
  /\ remote \in BOOLEAN
  /\ member = [u \in Users |->
                 [membership |-> IF u = creator THEN "join" ELSE "none", sender |-> u]]
  /\ readable = FALSE
  /\ queue = <<>>
  /\ batch = 0
  /\ done = 0
  /\ th = Ready
  /\ failed = FALSE
  /\ events = 0
  /\ faults = 0

\* The handler of the current event.
Handle ==
  \/ BotInvited \/ BotJoined \/ UserJoined \/ UserLeft \/ MessageHandled
  \/ Validate \/ SendHelp \/ SetName \/ SendReason
  \/ LeaveRoom \/ Forget \/ LeaveDirectMessageRoom \/ Refused

UserActs ==
  \/ \E u \in Creators : InvitesBot(u) \/ \E h \in Humans : Invites(u, h) \/ Leaves(h, u)
  \/ \E h \in Humans : Joins(h) \/ Writes(h)
  \/ RemovesBot

Next == Handle \/ Push \/ Answer \/ UserActs \/ CallFails \/ Crash

Spec == Init /\ [][Next]_vars

\* A thread handles the open transaction to its end, and the homeserver pushes its events.
FairSpec == Spec /\ WF_vars(Handle) /\ WF_vars(Push) /\ WF_vars(Answer)

-----------------------------------------------------------------------------
(***************************************************************************)
(* Properties                                                              *)
(***************************************************************************)

\* The type of every variable.
TypeOK ==
  /\ creator \in Creators
  /\ remote \in BOOLEAN
  /\ member \in [Users -> MemberEvent]
  /\ readable \in BOOLEAN
  /\ queue \in Seq(Event)
  /\ batch \in 0..Len(queue)
  /\ done \in 0..batch
  /\ th \in Thread
  /\ failed \in BOOLEAN
  /\ events \in 0..MaxEvents
  /\ faults \in 0..MaxFaults

InRoom == {u \in Users : Is(u, "join")}

Crowded == Cardinality(InRoom) > 2

\* The events that are not handled yet; the event of a handler that has read the members is.
Pending ==
  {queue[i] : i \in (IF th.pc \in {"help", "name"} THEN done + 2 ELSE done + 1)..Len(queue)}

\* The bot is never in an admin room with two other users unnoticed: it is about to leave, or
\* a join that will make it look at the members is still to be handled, in whatever order users
\* came and whenever a transaction is pushed again, unless a call failed (test
\* "bot_leaves_when_a_third_user_joins_the_admin_room").
CrowdIsNoticed ==
  BotIsIn /\ Crowded /\ creator \in Humans /\ ~failed =>
    th.pc \in {"refuse", "notify", "leave"} \/ \E e \in Pending : e.kind = "join"

\* The user whose message the handler would take as a command now.
Obeyed == {h \in Humans : At("next") /\ IsAdminRoom /\ Current = [kind |-> "message", user |-> h]}

\* In a crowded room no command is carried out of the user whose joining made it crowded,
\* although nobody looks at the members for a message: that join is handled before the message.
\* Either the bot or another user joined later, or the sender was removed in between.
CrowdIsNotObeyed ==
  Crowded /\ ~failed =>
    \A h \in Obeyed : \E e \in Pending :
      \/ e.kind = "join" /\ e.user # h
      \/ e = [kind |-> "leave", user |-> h]

\* A room that is refused or left with a message has had a third user in it or invited to it
\* (translation "Too many members in the room").
RefusedForAThird ==
  th.pc \in {"refuse", "notify"} /\ ~failed => Cardinality(Known) > 2

\* Without failing calls the bot leaves a room with a third user in it, a room that somebody
\* left, and a direct message room, also after a restart (tests
\* "bot_leaves_when_a_third_user_joins_the_admin_room" and
\* "bot_leaves_and_forgets_the_admin_room_when_the_user_leaves_it").
BotLeaves ==
  BotIsIn /\ (Crowded \/ creator \in Virtuals \/ \E e \in Pending : e.kind = "leave")
    ~> ~BotIsIn \/ failed

=============================================================================
