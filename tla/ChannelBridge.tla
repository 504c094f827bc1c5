---------------------------- MODULE ChannelBridge ----------------------------
(***************************************************************************)
(* The life of a bridged channel: the "bridge" and "unbridge" commands,    *)
(* the messages that Rocket.Chat posts to the webhook and the messages     *)
(* that Matrix users send to a bridged room.                               *)
(*                                                                         *)
(* The bridge keeps nothing about a bridged room: which room belongs to a  *)
(* channel is the room alias on the homeserver, which channel belongs to a *)
(* room is the room's canonical alias, and who takes part is the list of   *)
(* the room's members.  A handler reads and changes them with one HTTP     *)
(* call at a time while handlers in other threads do the same, so every    *)
(* call is an action here.  A call can fail, a call can succeed and its    *)
(* answer be lost, and the process can die between two calls.              *)
(***************************************************************************)

EXTENDS MatrixRooms, Naturals, FiniteSets

CONSTANTS
  Channels,            \* Rocket.Chat channels (and groups) of one server
  Rooms,               \* rooms that the homeserver can create
  None,
  TransactionThreads,  \* threads that handle what the homeserver pushes
  WebhookThreads,      \* threads that handle what Rocket.Chat posts
  RcMembers,           \* the virtual users of the members of each channel
  Account,             \* the virtual user of each human's own Rocket.Chat account
  MaxRequests,         \* bound on the requests that are handled
  MaxFaults            \* bound on failed calls, lost answers and crashes

Threads == TransactionThreads \cup WebhookThreads

ASSUME ConstantsFit ==
  /\ None \notin Channels \cup Rooms \cup Users
  /\ RcMembers \in [Channels -> SUBSET Virtuals]
  /\ Account \in [Humans -> Virtuals]
  /\ MaxRequests \in Nat
  /\ MaxFaults \in Nat

VARIABLES
  alias,       \* room directory: the room that a channel's alias resolves to
  canonical,   \* the channel named by a room's m.room.canonical_alias
  otherAlias,  \* rooms with an alias that is not the bridge's
  madeFor,     \* the channel a room was created for, None: not created yet
  member,      \* membership of every user in every room
  registered,  \* virtual users that have an account on the homeserver
  th,          \* what every thread is doing
  bridged,     \* <<channel, room>>: reported with "... is now bridged."
  unbridged,   \* rooms reported with "... is now unbridged."
  latecomers,  \* <<room, virtual user>>: brought in when it was settled who has to leave
  forwarded,   \* messages of a channel that were sent to a room
  posted,      \* messages of a room that were posted in a channel
  requests,    \* requests handled so far
  faults       \* faults so far

hsVars == <<alias, canonical, otherAlias, madeFor, member, registered>>
reportVars == <<bridged, unbridged, latecomers>>
messageVars == <<forwarded, posted>>
vars == <<hsVars, th, reportVars, messageVars, requests, faults>>

Ops == {"none", "bridge", "unbridge", "webhook", "message"}

\* The call that a thread makes next.
CreatePcs == {"create", "invite_requester", "put_canonical"}
UserPcs == {"find_user", "register", "check_joined", "invite_user", "join_user"}
UnbridgePcs == {"snapshot", "check_aliases", "delete_alias", "forget", "report_unbridged"}
Pcs == {"idle", "check_requester", "invite_again", "report_bridged", "send",
        "read_canonical", "post"} \cup CreatePcs \cup UserPcs \cup UnbridgePcs

ThreadRecord ==
  [op : Ops, pc : Pcs, user : Users \cup {None}, who : Virtuals \cup {None},
   channel : Channels \cup {None}, room : Rooms \cup {None}, todo : SUBSET AsUsers]

\* A thread has a room once it has found or created one, a channel except when it handles
\* a room message and has not read the channel yet, and only virtual users to bring in.
Thread ==
  {s \in ThreadRecord :
     /\ s.room = None <=> s.pc \in {"idle", "create"}
     /\ s.channel = None <=> s.pc \in {"idle", "read_canonical"}
     /\ s.pc \in UserPcs => s.todo \subseteq Virtuals
     /\ s.pc \in UserPcs \ {"find_user"} => s.who \in s.todo}

Idle == [op |-> "none", pc |-> "idle", user |-> None, who |-> None,
         channel |-> None, room |-> None, todo |-> {}]

\* A message that crossed; "late" if the room had been reported as unbridged before.
Message == [channel : Channels, room : Rooms, when : {"timely", "late"}]

When(r) == IF r \in unbridged THEN "late" ELSE "timely"

-----------------------------------------------------------------------------
(***************************************************************************)
(* Threads                                                                 *)
(***************************************************************************)

At(t, pc) == th[t].pc = pc

\* A handler returns; also how an error leaves it, through the ? operator.
Return(t) == th' = [th EXCEPT ![t] = Idle]

Begin(t, request) ==
  /\ At(t, "idle")
  /\ requests < MaxRequests
  /\ requests' = requests + 1
  /\ th' = [th EXCEPT ![t] = request]

Goto(t, pc) == th' = [th EXCEPT ![t].pc = pc]

\* The call changed the homeserver, its answer arrives or does not.
Answered(t, next) ==
  \/ /\ th' = [th EXCEPT ![t] = next]
     /\ UNCHANGED faults
  \/ /\ faults < MaxFaults
     /\ faults' = faults + 1
     /\ Return(t)

\* Room::user_ids(None), is_admin_room, aliases and the canonical alias are read as the bot.
BotReads == {"check_requester", "check_joined", "snapshot", "check_aliases", "read_canonical"}

\* Whether the homeserver grants the call that t makes next.
Granted(t) ==
  LET s == th[t] IN
  /\ s.pc \in BotReads \cup {"put_canonical"} => MayRead(member, s.room, Bot)
  /\ s.pc \in {"invite_again", "invite_requester"} => MayInvite(member, s.room, Bot, s.user)
  /\ s.pc = "invite_user" => MayInvite(member, s.room, Bot, s.who)
  /\ s.pc = "join_user" => MayJoin(member, s.room, s.who)
  /\ s.pc = "create" => alias[s.channel] = None
  /\ s.pc = "register" => s.who \notin registered
  /\ s.pc = "delete_alias" => alias[s.channel] # None
  /\ s.pc = "send" => MaySend(member, s.room, s.who)

Calls(t, pc) == At(t, pc) /\ Granted(t)

Refused(t) ==
  /\ ~At(t, "idle")
  /\ ~Granted(t)
  /\ Return(t)
  /\ UNCHANGED <<hsVars, reportVars, messageVars, requests, faults>>

CallFails(t) ==
  /\ ~At(t, "idle")
  /\ faults < MaxFaults
  /\ faults' = faults + 1
  /\ Return(t)
  /\ UNCHANGED <<hsVars, reportVars, messageVars, requests>>

-----------------------------------------------------------------------------
(***************************************************************************)
(* RocketchatRoom::matrix_id: the room that the alias of a channel         *)
(* resolves to, looked up when a command or a webhook message begins.      *)
(***************************************************************************)

\* Mutant: an alias that names the server but not the channel.
MatrixIdOfServer(c) ==
  IF alias[c] # None \/ \A d \in Channels : alias[d] = None
    THEN alias[c]
    ELSE alias[CHOOSE d \in Channels : alias[d] # None]

MatrixId(c) == alias[c]

(***************************************************************************)
(* CommandHandler::bridge.  The requester has to be a member of the        *)
(* channel on Rocket.Chat.                                                 *)
(***************************************************************************)

BridgeCommand(t, h, c) ==
  /\ t \in TransactionThreads
  /\ Account[h] \in RcMembers[c]
  /\ Begin(t, [Idle EXCEPT !.op = "bridge", !.user = h, !.channel = c, !.room = MatrixId(c),
                           !.pc = IF MatrixId(c) = None THEN "create" ELSE "check_requester"])
  /\ UNCHANGED <<hsVars, reportVars, messageVars, faults>>

\* Room::bridge_for_user: the requester must not have joined yet.
CheckRequester(t) ==
  /\ Calls(t, "check_requester")
  /\ IF th[t].user \in Joined(member, th[t].room)
       THEN Return(t)
       ELSE Goto(t, "invite_again")
  /\ UNCHANGED <<hsVars, reportVars, messageVars, requests, faults>>

InviteAgain(t) ==
  /\ Calls(t, "invite_again")
  /\ member' = Invite(member, th[t].room, th[t].user)
  /\ Answered(t, [th[t] EXCEPT !.pc = "report_bridged"])
  /\ UNCHANGED <<alias, canonical, otherAlias, madeFor, registered, reportVars, messageVars, requests>>

\* RocketchatRoom::bridge and Room::create: the room is created with its alias.
\* Setting the power levels can fail like the lost answer to the creation.
CreateRoom(t) ==
  /\ Calls(t, "create")
  /\ \E r \in Rooms :
       /\ madeFor[r] = None
       /\ madeFor' = [madeFor EXCEPT ![r] = th[t].channel]
       /\ alias' = [alias EXCEPT ![th[t].channel] = r]
       /\ member' = Join(member, r, Bot)
       /\ Answered(t, [th[t] EXCEPT !.pc = "invite_requester", !.room = r])
  /\ UNCHANGED <<canonical, otherAlias, registered, reportVars, messageVars, requests>>

\* Mutant: the canonical alias is not set.
InviteRequesterOnly(t) ==
  LET s == th[t] IN
  /\ Calls(t, "invite_requester")
  /\ member' = Invite(member, s.room, s.user)
  /\ Answered(t, [s EXCEPT !.pc = "find_user", !.todo = RcMembers[s.channel]])
  /\ UNCHANGED <<alias, canonical, otherAlias, madeFor, registered, reportVars, messageVars, requests>>

InviteRequester(t) ==
  /\ Calls(t, "invite_requester")
  /\ member' = Invite(member, th[t].room, th[t].user)
  /\ Answered(t, [th[t] EXCEPT !.pc = "put_canonical"])
  /\ UNCHANGED <<alias, canonical, otherAlias, madeFor, registered, reportVars, messageVars, requests>>

PutCanonical(t) ==
  LET s == th[t] IN
  /\ Calls(t, "put_canonical")
  /\ canonical' = [canonical EXCEPT ![s.room] = s.channel]
  /\ Answered(t, [s EXCEPT !.pc = "find_user", !.todo = RcMembers[s.channel]])
  /\ UNCHANGED <<alias, otherAlias, madeFor, member, registered, reportVars, messageVars, requests>>

ReportBridged(t) ==
  /\ Calls(t, "report_bridged")
  /\ bridged' = bridged \cup {<<th[t].channel, th[t].room>>}
  /\ Return(t)
  /\ UNCHANGED <<hsVars, unbridged, latecomers, messageVars, requests, faults>>

-----------------------------------------------------------------------------
(***************************************************************************)
(* Room::join_all_rocketchat_users for the members of a newly bridged      *)
(* channel, and the same calls for the sender of a webhook message:        *)
(* VirtualUser::find_or_register, then Room::join_user.                    *)
(***************************************************************************)

FindUser(t) ==
  /\ Calls(t, "find_user")
  /\ \E v \in th[t].todo :
       th' = [th EXCEPT ![t].who = v,
                        ![t].pc = IF v \in registered THEN "check_joined" ELSE "register"]
  /\ UNCHANGED <<hsVars, reportVars, messageVars, requests, faults>>

RegisterUser(t) ==
  /\ Calls(t, "register")
  /\ registered' = registered \cup {th[t].who}
  /\ Answered(t, [th[t] EXCEPT !.pc = "check_joined"])
  /\ UNCHANGED <<alias, canonical, otherAlias, madeFor, member, reportVars, messageVars, requests>>

\* Mutant: a user who is in the room is handled again.
UserNotDone(s) == [s EXCEPT !.pc = "find_user"]

\* The thread when the user it was busy with is in the room.
UserDone(s) ==
  LET left == s.todo \ {s.who} IN
  [s EXCEPT !.todo = left,
            !.pc = IF left # {} THEN "find_user"
                   ELSE IF s.op = "bridge" THEN "report_bridged" ELSE "send"]

CheckJoined(t) ==
  /\ Calls(t, "check_joined")
  /\ IF th[t].who \in Joined(member, th[t].room)
       THEN th' = [th EXCEPT ![t] = UserDone(th[t])]
       ELSE Goto(t, "invite_user")
  /\ UNCHANGED <<hsVars, reportVars, messageVars, requests, faults>>

InviteUser(t) ==
  /\ Calls(t, "invite_user")
  /\ member' = Invite(member, th[t].room, th[t].who)
  /\ Answered(t, [th[t] EXCEPT !.pc = "join_user"])
  /\ UNCHANGED <<alias, canonical, otherAlias, madeFor, registered, reportVars, messageVars, requests>>

\* Whom an unbridge command of room r, or one that has ended with a report, cannot have listed
\* any more.
BeingLeft(r) ==
  r \in unbridged \/ \E t \in Threads : th[t].room = r /\ th[t].pc \in UnbridgePcs \ {"snapshot"}

JoinUser(t) ==
  LET s == th[t] IN
  /\ Calls(t, "join_user")
  /\ member' = Join(member, s.room, s.who)
  /\ latecomers' = IF BeingLeft(s.room) THEN latecomers \cup {<<s.room, s.who>>} ELSE latecomers
  /\ Answered(t, UserDone(s))
  /\ UNCHANGED <<alias, canonical, otherAlias, madeFor, registered, bridged, unbridged, messageVars, requests>>

-----------------------------------------------------------------------------
(***************************************************************************)
(* CommandHandler::unbridge.  A channel that is not bridged is an error.   *)
(***************************************************************************)

UnbridgeCommand(t, h, c) ==
  /\ t \in TransactionThreads
  /\ MatrixId(c) # None
  /\ Begin(t, [Idle EXCEPT !.op = "unbridge", !.user = h, !.channel = c, !.room = MatrixId(c),
                           !.pc = "snapshot"])
  /\ UNCHANGED <<hsVars, reportVars, messageVars, faults>>

\* Mutant: the bot is not one of the users that leave.
SnapshotWithoutBot(t) ==
  LET users == Joined(member, th[t].room) IN
  /\ Calls(t, "snapshot")
  /\ IF users \subseteq AsUsers
       THEN th' = [th EXCEPT ![t].pc = "check_aliases", ![t].todo = users \ {Bot}]
       ELSE Return(t)
  /\ UNCHANGED <<hsVars, reportVars, messageVars, requests, faults>>

\* The joined users are read once: no human may be among them, and they are the
\* ones that will leave.
Snapshot(t) ==
  LET users == Joined(member, th[t].room) IN
  /\ Calls(t, "snapshot")
  /\ IF users \subseteq AsUsers
       THEN th' = [th EXCEPT ![t].pc = "check_aliases", ![t].todo = users]
       ELSE Return(t)
  /\ UNCHANGED <<hsVars, reportVars, messageVars, requests, faults>>

\* Mutant: the users leave before the alias is deleted.
CheckAliasesThenForget(t) ==
  /\ Calls(t, "check_aliases")
  /\ IF th[t].room \in otherAlias THEN Return(t) ELSE Goto(t, "forget")
  /\ UNCHANGED <<hsVars, reportVars, messageVars, requests, faults>>

CheckAliases(t) ==
  /\ Calls(t, "check_aliases")
  /\ IF th[t].room \in otherAlias THEN Return(t) ELSE Goto(t, "delete_alias")
  /\ UNCHANGED <<hsVars, reportVars, messageVars, requests, faults>>

\* The alias is deleted by its name, whatever room it resolves to by now.
DeleteAlias(t) ==
  /\ Calls(t, "delete_alias")
  /\ alias' = [alias EXCEPT ![th[t].channel] = None]
  /\ Answered(t, [th[t] EXCEPT !.pc = "forget"])
  /\ UNCHANGED <<canonical, otherAlias, madeFor, member, registered, reportVars, messageVars, requests>>

\* Mutant: only one of the users leaves.
ForgetOne(t) ==
  LET s == th[t] IN
  /\ Calls(t, "forget")
  /\ \E u \in s.todo :
       /\ MayLeave(member, s.room, u)
       /\ member' = Leave(member, s.room, u)
       /\ latecomers' = latecomers \ {<<s.room, u>>}
       /\ Answered(t, [s EXCEPT !.todo = @ \ {u}, !.pc = "report_unbridged"])
  /\ UNCHANGED <<alias, canonical, otherAlias, madeFor, registered, bridged, unbridged, messageVars, requests>>

\* Room::forget leaves and forgets.  A failure to forget is a lost answer here.
Forget(t) ==
  LET s == th[t] IN
  /\ Calls(t, "forget")
  /\ \E u \in s.todo :
       \/ /\ MayLeave(member, s.room, u)
          /\ member' = Leave(member, s.room, u)
          /\ latecomers' = latecomers \ {<<s.room, u>>}
          /\ Answered(t, [s EXCEPT !.todo = @ \ {u},
                                   !.pc = IF s.todo = {u} THEN "report_unbridged" ELSE "forget"])
       \/ /\ ~MayLeave(member, s.room, u)
          /\ Return(t)
          /\ UNCHANGED <<member, latecomers, faults>>
  /\ UNCHANGED <<alias, canonical, otherAlias, madeFor, registered, bridged, unbridged, messageVars, requests>>

ReportUnbridged(t) ==
  /\ Calls(t, "report_unbridged")
  /\ unbridged' = unbridged \cup {th[t].room}
  /\ Return(t)
  /\ UNCHANGED <<hsVars, bridged, latecomers, messageVars, requests, faults>>

-----------------------------------------------------------------------------
(***************************************************************************)
(* Rocket.Chat to Matrix: Forwarder::send for a channel.  A message of a   *)
(* channel that has no room is ignored.                                    *)
(***************************************************************************)

Webhook(t, v, c) ==
  /\ t \in WebhookThreads
  /\ v \in RcMembers[c]
  /\ MatrixId(c) # None
  /\ Begin(t, [Idle EXCEPT !.op = "webhook", !.user = v, !.channel = c, !.room = MatrixId(c),
                           !.pc = "find_user", !.todo = {v}])
  /\ UNCHANGED <<hsVars, reportVars, messageVars, faults>>

SendToRoom(t) ==
  LET s == th[t] IN
  /\ Calls(t, "send")
  /\ forwarded' = forwarded \cup
       {[channel |-> s.channel, room |-> s.room, when |-> When(s.room)]}
  /\ Return(t)
  /\ UNCHANGED <<hsVars, reportVars, posted, requests, faults>>

(***************************************************************************)
(* Matrix to Rocket.Chat: MessageHandler::process for a room the bridge    *)
(* created.  The event reaches a thread after it was sent; the channel is  *)
(* the one of the room's canonical alias.                                  *)
(***************************************************************************)

RoomMessage(t, h, r) ==
  /\ t \in TransactionThreads
  /\ madeFor[r] # None
  /\ MaySend(member, r, h)
  /\ Begin(t, [Idle EXCEPT !.op = "message", !.user = h, !.room = r, !.pc = "read_canonical"])
  /\ UNCHANGED <<hsVars, reportVars, messageVars, faults>>

\* Mutant: a room without a canonical alias is not ignored.
ReadAnyCanonical(t) ==
  /\ Calls(t, "read_canonical")
  /\ th' = [th EXCEPT ![t].pc = "post", ![t].channel = canonical[th[t].room]]
  /\ UNCHANGED <<hsVars, reportVars, messageVars, requests, faults>>

ReadCanonical(t) ==
  LET s == th[t] IN
  /\ Calls(t, "read_canonical")
  /\ IF canonical[s.room] = None
       THEN Return(t)
       ELSE th' = [th EXCEPT ![t].pc = "post", ![t].channel = canonical[s.room]]
  /\ UNCHANGED <<hsVars, reportVars, messageVars, requests, faults>>

PostInChannel(t) ==
  LET s == th[t] IN
  /\ Calls(t, "post")
  /\ posted' = posted \cup
       {[channel |-> s.channel, room |-> s.room, when |-> When(s.room)]}
  /\ Return(t)
  /\ UNCHANGED <<hsVars, reportVars, forwarded, requests, faults>>

-----------------------------------------------------------------------------
(***************************************************************************)
(* What happens outside of the handlers                                    *)
(***************************************************************************)

UserJoins(h, r) ==
  /\ member[r][h] = "invite"
  /\ member' = Join(member, r, h)
  /\ UNCHANGED <<alias, canonical, otherAlias, madeFor, registered, th, reportVars, messageVars, requests, faults>>

UserLeaves(h, r) ==
  /\ MayLeave(member, r, h)
  /\ member' = Leave(member, r, h)
  /\ UNCHANGED <<alias, canonical, otherAlias, madeFor, registered, th, reportVars, messageVars, requests, faults>>

UserAddsAlias(h, r) ==
  /\ h \in Joined(member, r)
  /\ otherAlias' = otherAlias \cup {r}
  /\ UNCHANGED <<alias, canonical, madeFor, member, registered, th, reportVars, messageVars, requests, faults>>

UserRemovesAlias(r) ==
  /\ otherAlias' = otherAlias \ {r}
  /\ UNCHANGED <<alias, canonical, madeFor, member, registered, th, reportVars, messageVars, requests, faults>>

\* The process is killed and started again: nothing but the homeserver's state is left.
Crash ==
  /\ faults < MaxFaults
  /\ faults' = faults + 1
  /\ th' = [t \in Threads |-> Idle]
  /\ UNCHANGED <<hsVars, reportVars, messageVars, requests>>

-----------------------------------------------------------------------------

Init ==
  /\ alias = [c \in Channels |-> None]
  /\ canonical = [r \in Rooms |-> None]
  /\ otherAlias = {}
  /\ madeFor = [r \in Rooms |-> None]
  /\ member = [r \in Rooms |-> NoMembers]
  /\ registered = {}
  /\ th = [t \in Threads |-> Idle]
  /\ bridged = {}
  /\ unbridged = {}
  /\ latecomers = {}
  /\ forwarded = {}
  /\ posted = {}
  /\ requests = 0
  /\ faults = 0

Bridging(t) ==
  \/ CheckRequester(t) \/ InviteAgain(t)
  \/ CreateRoom(t) \/ InviteRequester(t) \/ PutCanonical(t)
  \/ ReportBridged(t)

JoiningUsers(t) ==
  FindUser(t) \/ RegisterUser(t) \/ CheckJoined(t) \/ InviteUser(t) \/ JoinUser(t)

Unbridging(t) ==
  Snapshot(t) \/ CheckAliases(t) \/ DeleteAlias(t) \/ Forget(t) \/ ReportUnbridged(t)

Forwarding(t) == SendToRoom(t) \/ ReadCanonical(t) \/ PostInChannel(t)

\* A step of a handler that is running.
Step(t) == Bridging(t) \/ JoiningUsers(t) \/ Unbridging(t) \/ Forwarding(t) \/ Refused(t)

Request(t) ==
  \/ \E h \in Humans, c \in Channels : BridgeCommand(t, h, c) \/ UnbridgeCommand(t, h, c)
  \/ \E v \in Virtuals, c \in Channels : Webhook(t, v, c)
  \/ \E h \in Humans, r \in Rooms : RoomMessage(t, h, r)

Environment ==
  \/ \E h \in Humans, r \in Rooms : UserJoins(h, r) \/ UserLeaves(h, r) \/ UserAddsAlias(h, r)
  \/ \E r \in Rooms : UserRemovesAlias(r)
  \/ Crash

Next ==
  \/ \E t \in Threads : Request(t) \/ Step(t) \/ CallFails(t)
  \/ Environment

Spec == Init /\ [][Next]_vars

\* A handler that was started goes on: iron runs every request in its own thread, and
\* every call returns, with an answer or with an error.
FairSpec == Spec /\ \A t \in Threads : WF_vars(Step(t))

-----------------------------------------------------------------------------
(***************************************************************************)
(* Properties                                                              *)
(***************************************************************************)

\* The type of every variable.
TypeOK ==
  /\ alias \in [Channels -> Rooms \cup {None}]
  /\ canonical \in [Rooms -> Channels \cup {None}]
  /\ otherAlias \subseteq Rooms
  /\ madeFor \in [Rooms -> Channels \cup {None}]
  /\ member \in [Rooms -> [Users -> Membership]]
  /\ registered \subseteq Virtuals
  /\ th \in [Threads -> Thread]
  /\ bridged \subseteq Channels \X Rooms
  /\ unbridged \subseteq Rooms
  /\ latecomers \subseteq Rooms \X Virtuals
  /\ forwarded \subseteq Message
  /\ posted \subseteq Message
  /\ requests \in 0..MaxRequests
  /\ faults \in 0..MaxFaults

\* As long as the alias of a channel resolves to a room the bot is in that room, whatever
\* commands and messages are interleaved and wherever they fail.  The handlers read the
\* room's members as the bot, so a room that kept the alias without the bot could neither
\* take messages nor be unbridged nor, the alias being in use, be replaced.
AliasedRoomHasBot == \A c \in Channels : alias[c] # None => member[alias[c]][Bot] = "join"

(***************************************************************************)
(* Why AliasedRoomHasBot holds, as an inductive invariant.                 *)
(***************************************************************************)

\* Aliases, canonical aliases and threads agree with the channel a room was made for.
RoomsAreOwned ==
  /\ \A c \in Channels : alias[c] # None => madeFor[alias[c]] = c
  /\ \A r \in Rooms : canonical[r] # None => madeFor[r] = canonical[r]
  /\ \A t \in Threads :
       th[t].room # None =>
         /\ madeFor[th[t].room] # None
         /\ th[t].channel # None => madeFor[th[t].room] = th[t].channel

\* Nobody is made to leave a room that an alias still resolves to.
LeftRoomsHaveNoAlias ==
  \A t \in Threads : At(t, "forget") => \A c \in Channels : alias[c] # th[t].room

IInv ==
  /\ TypeOK
  /\ RoomsAreOwned
  /\ LeftRoomsHaveNoAlias
  /\ AliasedRoomHasBot

\* The calls implement the contract: binding a channel, releasing it, and letting a message
\* cross only between a channel and a room that was made for it, also when another
\* command rebinds the channel between the lookup of the alias and its use.
Contract == INSTANCE BridgeContract WITH
  owner <- madeFor,
  bound <- alias,
  forwarded <- {<<m.channel, m.room>> : m \in forwarded},
  posted <- {<<m.room, m.channel>> : m \in posted}

ImplementsContract == Contract!Spec

\* When the admin room is told that a channel is unbridged, no alias resolves to the room, the bot
\* has left it, and so has everybody else whom the command found in it: if a Rocket.Chat user is
\* there, a handler brought the user in after the command, or one that overlapped with it, had
\* listed the members.  This holds for any number of commands and messages at the same time and
\* after whatever failed attempts came before.
UnbridgedRoomIsLeft ==
  \A r \in unbridged :
    /\ \A c \in Channels : alias[c] # r
    /\ Joined(member, r) \cap AsUsers \subseteq {v \in Virtuals : <<r, v>> \in latecomers}

\* Once a room was reported as unbridged, no handler takes it up again: no command and no message
\* of the channel finds it, and no message in the room finds the channel, although other handlers
\* unbridge and bridge the channel meanwhile.  What still crosses was under way.
NotTakenUpAgain ==
  [][\A t \in Threads :
       LET s == th[t]  n == th'[t] IN
       \/ n.op # "message" /\ n.room \notin {None, s.room}
       \/ n.pc = "post" /\ s.pc # "post"
       => n.room \notin unbridged]_vars

\* No message crosses, in either direction, after the room was reported as unbridged (help text
\* of the command: "messages are no longer forwarded").
NoLateMessage == \A m \in forwarded \cup posted : m.when # "late"

\* A channel that was reported as bridged also forwards what is said in its room: the room
\* has the canonical alias by which MessageHandler finds the channel.  (If commands are handled
\* one at a time and no call fails, see FailedBridgeIsNotBridged.)
ReportedBridgeIsTwoWay == \A b \in bridged : canonical[b[2]] = b[1]

\* Bringing a Rocket.Chat user into the room, and with it the message or the bridge command, is
\* refused for three reasons only: another handler registered the user, or another handler
\* brought the user in, after this one had looked; or the channel has lost the room.  What
\* failed attempts leave behind, users who are registered, or invited and not joined, never
\* stops a later one.
RefusedOnlyInARace ==
  [][\A t \in Threads :
       th[t].pc \in UserPcs \cup {"send"} /\ th'[t] = Idle /\ faults' = faults =>
         \/ At(t, "send") /\ Granted(t)
         \/ At(t, "register") /\ th[t].who \in registered
         \/ At(t, "invite_user") /\ th[t].who \in Joined(member, th[t].room)
         \/ alias[th[t].channel] # th[t].room]_vars

\* A channel loses its room only when no human is in the room (error text "room_not_empty":
\* all Matrix users have to leave a room before the room can be unbridged).
NoHumanIsLeftBehind ==
  [][\A c \in Channels :
       alias[c] # None /\ alias'[c] = None => Joined(member, alias[c]) \subseteq AsUsers]_vars

\* A bridge command that fails to set the canonical alias leaves the channel unbridged
\* (test "the_room_is_not_bridged_when_setting_the_canonical_room_alias_failes").
FailedBridgeIsNotBridged ==
  [][\A t \in Threads :
       At(t, "put_canonical") /\ th'[t].pc = "idle" => alias'[th[t].channel] # th[t].room]_vars

\* Every handler comes to an end.
HandlersFinish == \A t \in Threads : ~At(t, "idle") ~> At(t, "idle")

=============================================================================
