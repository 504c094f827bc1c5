--------------------------- MODULE DirectMessages ----------------------------
(***************************************************************************)
(* Direct messages from Rocket.Chat to Matrix.  A direct message channel   *)
(* has two ends, and the message names only the sender: the receiver is    *)
(* the Matrix user whose Rocket.Chat account is the other end.  There is   *)
(* no alias for a direct message room.  The handler finds the room in a    *)
(* cache of the process, or by going through the rooms of the sender's     *)
(* virtual user, or it creates one as that virtual user.  Because the room *)
(* is read as the bot, the bot is invited, joins when the homeserver       *)
(* pushes the invite, and leaves when the homeserver pushes its own join;  *)
(* a user who left can still read the state the room had.                  *)
(* Rooms of bridged channels are left out: a virtual user is never alone   *)
(* with a receiver in them, because the bot is there too.                  *)
(***************************************************************************)

EXTENDS MatrixRooms, Naturals, FiniteSets

CONSTANTS
  Channels,        \* direct message channels
  Ends,            \* the virtual users of the two accounts at the ends of a channel
  Account,         \* the virtual user of each human's own Rocket.Chat account
  Rooms,           \* rooms that the homeserver can create
  None,
  Registered,      \* virtual users that messages in bridged channels have registered before
  WebhookThreads,  \* threads that handle what Rocket.Chat posts
  MaxRequests,     \* bound on the messages that are handled
  MaxFaults        \* bound on failed calls, lost answers and crashes

ASSUME DirectMessagesFit ==
  /\ None \notin Channels \cup Rooms \cup Users
  /\ Ends \in [Channels -> SUBSET Virtuals]
  /\ \A c \in Channels : \E v, w \in Virtuals : Ends[c] = {v, w}
  /\ Account \in [Humans -> Virtuals]
  /\ \A g, h \in Humans : Account[g] = Account[h] => g = h
  /\ Registered \subseteq Virtuals
  /\ MaxRequests \in Nat
  /\ MaxFaults \in Nat

VARIABLES
  creator,     \* the virtual user that created a room, None: not created yet
  member,      \* membership of every user in every room
  invited,     \* <<room, human>>: the human has been invited to the room
  readable,    \* rooms that the bot can read: it joined, and did not forget them
  botEvent,    \* the event about the bot that the homeserver pushes next for a room
  registered,  \* virtual users that have an account on the homeserver
  cache,       \* DM_ROOMS, in the memory of the process
  th,          \* what every thread is doing
  sent,        \* direct messages that were sent to a room
  requests,    \* messages handled so far
  faults       \* faults so far

roomVars == <<creator, member, invited, readable, botEvent>>
vars == <<roomVars, registered, cache, th, sent, requests, faults>>

\* The call that a thread makes next.
LookupPcs == {"find_user", "joined_rooms", "check_room"}
ExistingPcs == {"read_creator", "find_member", "check_receiver", "invite_receiver"}
CreatePcs == {"dm_list", "register", "create", "invite_first", "invite_bot"}
Pcs == {"idle", "send"} \cup LookupPcs \cup ExistingPcs \cup CreatePcs

ThreadRecord ==
  [pc : Pcs, channel : Channels \cup {None}, sender : Virtuals \cup {None},
   receiver : Humans \cup {None}, room : Rooms \cup {None}, todo : SUBSET Rooms]

\* A busy thread has a message, a room once it found or created one, and rooms to look at
\* only while it looks for one.
Thread ==
  {s \in ThreadRecord :
     /\ s.pc = "idle" <=> s.channel = None
     /\ s.channel = None <=> s.sender = None
     /\ s.channel = None <=> s.receiver = None
     /\ s.room = None <=> s.pc \in {"idle", "dm_list", "register", "create"} \cup LookupPcs
     /\ s.todo = {} <=> s.pc # "check_room"}

Idle == [pc |-> "idle", channel |-> None, sender |-> None,
         receiver |-> None, room |-> None, todo |-> {}]

\* A message that was sent; foreign: humans other than the receiver who could read it.
Message == [channel : Channels, receiver : Humans, room : Rooms, foreign : SUBSET Humans]

\* Mutant: the key does not tell the receivers apart.
KeyOfChannel(c, h) == <<c, CHOOSE g \in Humans : TRUE>>

\* The key of DM_ROOMS.
Key(c, h) == <<c, h>>
Keys == Channels \X Humans

-----------------------------------------------------------------------------

At(t, pc) == th[t].pc = pc

Return(t) == th' = [th EXCEPT ![t] = Idle]

Goto(t, pc) == th' = [th EXCEPT ![t].pc = pc]

\* The call changed the homeserver, its answer arrives or does not.
Answered(t, next) ==
  \/ /\ th' = [th EXCEPT ![t] = next]
     /\ UNCHANGED faults
  \/ /\ faults < MaxFaults
     /\ faults' = faults + 1
     /\ Return(t)

\* Whether the homeserver grants the call that t makes next: get_room_creator is called
\* as the bot, everything else as the virtual user.
Granted(t) ==
  LET s == th[t] IN
  /\ s.pc \in {"read_creator", "check_receiver"} => s.room \in readable
  /\ s.pc \in {"find_member", "check_receiver"} => MayRead(member, s.room, creator[s.room])
  /\ s.pc = "invite_receiver" => MayInvite(member, s.room, creator[s.room], s.receiver)
  /\ s.pc = "register" => s.sender \notin registered
  /\ s.pc = "invite_first" => MayInvite(member, s.room, s.sender, s.receiver)
  /\ s.pc = "invite_bot" => MayInvite(member, s.room, s.sender, Bot)
  /\ s.pc = "send" => MaySend(member, s.room, s.sender)

Calls(t, pc) == At(t, pc) /\ Granted(t)

Refused(t) ==
  /\ ~At(t, "idle")
  /\ ~Granted(t)
  /\ Return(t)
  /\ UNCHANGED <<roomVars, registered, cache, sent, requests, faults>>

CallFails(t) ==
  /\ ~At(t, "idle")
  /\ faults < MaxFaults
  /\ faults' = faults + 1
  /\ Return(t)
  /\ UNCHANGED <<roomVars, registered, cache, sent, requests>>

-----------------------------------------------------------------------------
(***************************************************************************)
(* Forwarder::send for a direct message, from                              *)
(* find_matching_user_for_direct_message on.  A message that has no Matrix *)
(* user at the other end is ignored.                                       *)
(***************************************************************************)

Webhook(t, c, v, h) ==
  /\ At(t, "idle")
  /\ requests < MaxRequests
  /\ v \in Ends[c]
  /\ Account[h] \in Ends[c] \ {v}
  /\ requests' = requests + 1
  /\ th' = [th EXCEPT ![t] = [Idle EXCEPT !.pc = "find_user", !.channel = c,
                                          !.sender = v, !.receiver = h]]
  /\ UNCHANGED <<roomVars, registered, cache, sent, faults>>

(***************************************************************************)
(* Room::get_dm                                                            *)
(***************************************************************************)

FindUser(t) ==
  LET s == th[t]
      room == cache[Key(s.channel, s.receiver)] IN
  /\ Calls(t, "find_user")
  /\ \/ s.sender \notin registered /\ Goto(t, "dm_list")
     \/ s.sender \in registered /\ room = None /\ Goto(t, "joined_rooms")
     \/ /\ s.sender \in registered
        /\ room # None
        /\ th' = [th EXCEPT ![t].pc = "read_creator", ![t].room = room]
  /\ UNCHANGED <<roomVars, registered, cache, sent, requests, faults>>

\* Mutant: a sender without rooms is not told apart.
JoinedRoomsOnly(t) ==
  /\ Calls(t, "joined_rooms")
  /\ th' = [th EXCEPT ![t].pc = "check_room",
                      ![t].todo = {r \in Rooms : member[r][th[t].sender] = "join"}]
  /\ UNCHANGED <<roomVars, registered, cache, sent, requests, faults>>

JoinedRooms(t) ==
  LET rooms == {r \in Rooms : member[r][th[t].sender] = "join"} IN
  /\ Calls(t, "joined_rooms")
  /\ IF rooms = {}
       THEN Goto(t, "dm_list")
       ELSE th' = [th EXCEPT ![t].pc = "check_room", ![t].todo = rooms]
  /\ UNCHANGED <<roomVars, registered, cache, sent, requests, faults>>

\* A room fits if nobody but the sender and the receiver is in it: the receiver need not be.
CheckRoom(t) ==
  LET s == th[t] IN
  /\ Calls(t, "check_room")
  /\ \E r \in s.todo :
       IF Joined(member, r) \subseteq {s.sender, s.receiver}
         THEN /\ cache' = [cache EXCEPT ![Key(s.channel, s.receiver)] = r]
              /\ th' = [th EXCEPT ![t].pc = "read_creator", ![t].room = r, ![t].todo = {}]
         ELSE /\ th' = [th EXCEPT ![t].todo = @ \ {r},
                                  ![t].pc = IF s.todo = {r} THEN "dm_list" ELSE "check_room"]
              /\ UNCHANGED cache
  /\ UNCHANGED <<roomVars, registered, sent, requests, faults>>

(***************************************************************************)
(* invite_user_into_direct_message_room: a room that was found gets the    *)
(* receiver invited unless some user who is not virtual is in it.          *)
(***************************************************************************)

ReadCreator(t) ==
  /\ Calls(t, "read_creator")
  /\ Goto(t, "find_member")
  /\ UNCHANGED <<roomVars, registered, cache, sent, requests, faults>>

FindMember(t) ==
  LET users == Joined(member, th[t].room) IN
  /\ Calls(t, "find_member")
  /\ \/ Cardinality(users) > 2 /\ Return(t)
     \/ /\ Cardinality(users) <= 2
        /\ Goto(t, IF users \subseteq Virtuals THEN "check_receiver" ELSE "send")
  /\ UNCHANGED <<roomVars, registered, cache, sent, requests, faults>>

CheckReceiver(t) ==
  /\ Calls(t, "check_receiver")
  /\ Goto(t, IF th[t].receiver \in Joined(member, th[t].room) THEN "send" ELSE "invite_receiver")
  /\ UNCHANGED <<roomVars, registered, cache, sent, requests, faults>>

InviteReceiver(t) ==
  LET s == th[t] IN
  /\ Calls(t, "invite_receiver")
  /\ member' = Invite(member, s.room, s.receiver)
  /\ invited' = invited \cup {<<s.room, s.receiver>>}
  /\ Answered(t, [s EXCEPT !.pc = "send"])
  /\ UNCHANGED <<creator, readable, botEvent, registered, cache, sent, requests>>

(***************************************************************************)
(* auto_bridge_direct_message_channel: the room is created by the sender's *)
(* virtual user.  It is not put into the cache.                            *)
(***************************************************************************)

DmList(t) ==
  /\ Calls(t, "dm_list")
  /\ Goto(t, IF th[t].sender \in registered THEN "create" ELSE "register")
  /\ UNCHANGED <<roomVars, registered, cache, sent, requests, faults>>

RegisterUser(t) ==
  /\ Calls(t, "register")
  /\ registered' = registered \cup {th[t].sender}
  /\ Answered(t, [th[t] EXCEPT !.pc = "create"])
  /\ UNCHANGED <<roomVars, cache, sent, requests>>

\* Setting the power levels can fail like the lost answer to the creation.
CreateRoom(t) ==
  /\ Calls(t, "create")
  /\ \E r \in Rooms :
       /\ creator[r] = None
       /\ creator' = [creator EXCEPT ![r] = th[t].sender]
       /\ member' = Join(member, r, th[t].sender)
       /\ Answered(t, [th[t] EXCEPT !.pc = "invite_first", !.room = r])
  /\ UNCHANGED <<invited, readable, botEvent, registered, cache, sent, requests>>

\* Mutant: the bot is invited before the receiver.
InviteBotFirst(t) ==
  LET s == th[t] IN
  /\ Calls(t, "invite_first")
  /\ member' = Invite(member, s.room, Bot)
  /\ botEvent' = [botEvent EXCEPT ![s.room] = "invite"]
  /\ Answered(t, [s EXCEPT !.pc = "invite_receiver"])
  /\ UNCHANGED <<creator, invited, readable, registered, cache, sent, requests>>

InviteFirst(t) ==
  LET s == th[t] IN
  /\ Calls(t, "invite_first")
  /\ member' = Invite(member, s.room, s.receiver)
  /\ invited' = invited \cup {<<s.room, s.receiver>>}
  /\ Answered(t, [s EXCEPT !.pc = "invite_bot"])
  /\ UNCHANGED <<creator, readable, botEvent, registered, cache, sent, requests>>

InviteBot(t) ==
  LET s == th[t] IN
  /\ Calls(t, "invite_bot")
  /\ member' = Invite(member, s.room, Bot)
  /\ botEvent' = [botEvent EXCEPT ![s.room] = "invite"]
  /\ Answered(t, [s EXCEPT !.pc = "send"])
  /\ UNCHANGED <<creator, invited, readable, registered, cache, sent, requests>>

Send(t) ==
  LET s == th[t] IN
  /\ Calls(t, "send")
  /\ sent' = sent \cup
       {[channel |-> s.channel, receiver |-> s.receiver, room |-> s.room,
         foreign |-> {h \in Humans \ {s.receiver} : member[s.room][h] # "out"}]}
  /\ Return(t)
  /\ UNCHANGED <<roomVars, registered, cache, requests, faults>>

-----------------------------------------------------------------------------
(***************************************************************************)
(* Room::rocketchat_for_direct_room, the way back: what MessageHandler     *)
(* makes of a message that somebody writes in a room.  Nothing names the   *)
(* channel of a direct message room; the first joined users that are found *)
(* stand for its two ends.  The handler changes nothing on Matrix, and the *)
(* members are one of its calls, so its outcome is a function of the state.*)
(***************************************************************************)

\* dm_list with the credentials of h.
DmChannels(h) == {c \in Channels : Account[h] \in Ends[c]}

\* The channels that a message of r may be posted in.
ReplyChannels(r) ==
  UNION {{c \in DmChannels(h) : v \in Ends[c]} :
           h \in Joined(member, r) \cap Humans, v \in Joined(member, r) \cap Virtuals}

\* The message may be lost: the bot cannot read the room, or is taken for the Matrix user.
ReplyMayFail(r) == r \notin readable \/ Bot \in Joined(member, r)

-----------------------------------------------------------------------------
(***************************************************************************)
(* MembershipHandler for the bot.  The homeserver pushes the invite, then  *)
(* the join; an event is pushed once, also when its handler fails.  The    *)
(* reads of handle_bot_join have the answer of a room made by a virtual    *)
(* user and are one step with the call they lead to.                       *)
(***************************************************************************)

\* handle_bot_invite
BotInvited(r) ==
  /\ botEvent[r] = "invite"
  /\ member' = Join(member, r, Bot)
  /\ readable' = readable \cup {r}
  /\ botEvent' = [botEvent EXCEPT ![r] = "join"]
  /\ UNCHANGED <<creator, invited, registered, cache, th, sent, requests, faults>>

\* Mutant: the bot stays, as it does in an admin room.
BotJoinedOnly(r) ==
  /\ botEvent[r] = "join"
  /\ botEvent' = [botEvent EXCEPT ![r] = "none"]
  /\ UNCHANGED <<creator, member, invited, readable, registered, cache, th, sent, requests, faults>>

\* Mutant: the bot forgets the room that it leaves.
BotJoinedAndForgets(r) ==
  /\ botEvent[r] = "join"
  /\ member' = Leave(member, r, Bot)
  /\ readable' = readable \ {r}
  /\ botEvent' = [botEvent EXCEPT ![r] = "none"]
  /\ UNCHANGED <<creator, invited, registered, cache, th, sent, requests, faults>>

\* handle_bot_join
BotJoined(r) ==
  /\ botEvent[r] = "join"
  /\ member' = Leave(member, r, Bot)
  /\ botEvent' = [botEvent EXCEPT ![r] = "none"]
  /\ UNCHANGED <<creator, invited, readable, registered, cache, th, sent, requests, faults>>

\* The join fails, or the bot cannot leave, or an event before this one in the same
\* transaction ended in an error and Dispatcher::process dropped the rest.
BotEventFails(r) ==
  /\ botEvent[r] # "none"
  /\ faults < MaxFaults
  /\ faults' = faults + 1
  /\ botEvent' = [botEvent EXCEPT ![r] = "none"]
  /\ UNCHANGED <<creator, member, invited, readable, registered, cache, th, sent, requests>>

\* handle_admin_room_setup_error: is_admin_room failed, the bot leaves and forgets.
BotForgets(r) ==
  /\ botEvent[r] = "join"
  /\ faults < MaxFaults
  /\ faults' = faults + 1
  /\ member' = Leave(member, r, Bot)
  /\ readable' = readable \ {r}
  /\ botEvent' = [botEvent EXCEPT ![r] = "none"]
  /\ UNCHANGED <<creator, invited, registered, cache, th, sent, requests>>

UserJoins(h, r) ==
  /\ member[r][h] = "invite"
  /\ member' = Join(member, r, h)
  /\ UNCHANGED <<creator, invited, readable, botEvent, registered, cache, th, sent, requests, faults>>

UserLeaves(h, r) ==
  /\ MayLeave(member, r, h)
  /\ member' = Leave(member, r, h)
  /\ UNCHANGED <<creator, invited, readable, botEvent, registered, cache, th, sent, requests, faults>>

\* The process is killed and started again: the threads and the cache are gone.
Crash ==
  /\ faults < MaxFaults
  /\ faults' = faults + 1
  /\ th' = [t \in WebhookThreads |-> Idle]
  /\ cache' = [k \in Keys |-> None]
  /\ UNCHANGED <<roomVars, registered, sent, requests>>

-----------------------------------------------------------------------------

Init ==
  /\ creator = [r \in Rooms |-> None]
  /\ member = [r \in Rooms |-> NoMembers]
  /\ invited = {}
  /\ readable = {}
  /\ botEvent = [r \in Rooms |-> "none"]
  /\ registered = Registered
  /\ cache = [k \in Keys |-> None]
  /\ th = [t \in WebhookThreads |-> Idle]
  /\ sent = {}
  /\ requests = 0
  /\ faults = 0

FindingRoom(t) == FindUser(t) \/ JoinedRooms(t) \/ CheckRoom(t)

InvitingReceiver(t) ==
  ReadCreator(t) \/ FindMember(t) \/ CheckReceiver(t) \/ InviteReceiver(t)

Creating(t) ==
  DmList(t) \/ RegisterUser(t) \/ CreateRoom(t) \/ InviteFirst(t) \/ InviteBot(t)

\* A step of a handler that is running.
Step(t) == FindingRoom(t) \/ InvitingReceiver(t) \/ Creating(t) \/ Send(t) \/ Refused(t)

BotHandled(r) == BotInvited(r) \/ BotJoined(r)

Next ==
  \/ \E t \in WebhookThreads :
       \/ \E c \in Channels, v \in Virtuals, h \in Humans : Webhook(t, c, v, h)
       \/ Step(t)
       \/ CallFails(t)
  \/ \E r \in Rooms : BotHandled(r) \/ BotEventFails(r) \/ BotForgets(r)
  \/ \E h \in Humans, r \in Rooms : UserJoins(h, r) \/ UserLeaves(h, r)
  \/ Crash

Spec == Init /\ [][Next]_vars

\* The homeserver pushes its events until they are answered, and each is handled.
FairSpec == Spec /\ \A r \in Rooms : WF_vars(BotHandled(r))

-----------------------------------------------------------------------------
(***************************************************************************)
(* Properties                                                              *)
(***************************************************************************)

\* The type of every variable.
TypeOK ==
  /\ creator \in [Rooms -> Virtuals \cup {None}]
  /\ member \in [Rooms -> [Users -> Membership]]
  /\ invited \subseteq Rooms \X Humans
  /\ readable \subseteq Rooms
  /\ botEvent \in [Rooms -> {"none", "invite", "join"}]
  /\ registered \subseteq Virtuals
  /\ cache \in [Keys -> Rooms \cup {None}]
  /\ th \in [WebhookThreads -> Thread]
  /\ sent \subseteq Message
  /\ requests \in 0..MaxRequests
  /\ faults \in 0..MaxFaults

\* v is an end of a channel whose other end is the account of h.
Writes(v, h) == \E c \in Channels : v \in Ends[c] /\ Account[h] \in Ends[c] \ {v}

\* No sender has a second receiver on Matrix.
OneReceiver == \A v \in Virtuals, g, h \in Humans : Writes(v, g) /\ Writes(v, h) => g = h

\* The room that a handler found or created is one of the sender's own: when both ends of a
\* channel are on Matrix, the two directions use different rooms (test
\* "do_use_two_different_dm_rooms_when_both_users_are_on_matrix"), also through the cache.
RoomIsTheSenders ==
  \A t \in WebhookThreads : th[t].room # None => creator[th[t].room] = th[t].sender

\* A direct message is only ever sent to a room that its receiver was invited to, although a
\* room is reused when anybody but a virtual user is found in it and although creating a room
\* can fail before the invitation.  (For senders with one Matrix user to write to, see
\* NoForeignReader.)
ReceiverHasAccess == \A m \in sent : <<m.room, m.receiver>> \in invited

\* The bot, which is invited only to be able to read a room, leaves it again unless something
\* fails (comment "the bot will leave as soon as the AS gets the join event").
BotLeaves ==
  \A r \in Rooms : botEvent[r] = "invite" ~> member[r][Bot] = "out" \/ faults > 0

\* What the receiver of a direct message answers in its room is posted in the channel of the
\* message and nowhere else, although the room does not know its channel; and it is not lost,
\* unless the bot is still about to leave the room or something failed (comment "This is done to
\* avoid the usage of aliases in direct message rooms").
AnswersComeBack ==
  \A m \in sent :
    m.receiver \in Joined(member, m.room) =>
      /\ ReplyChannels(m.room) = {m.channel}
      /\ ReplyMayFail(m.room) => botEvent[m.room] # "none" \/ faults > 0

\* A direct message reaches nobody but its receiver: the room that get_dm returns is a room of
\* the sender and the receiver ("Get an existing direct message room").
NoForeignReader == \A m \in sent : m.foreign = {}

\* The room of t is new: it is still being created, or the bot has yet to join or to leave it.
Settling(t) ==
  /\ th[t].room # None
  /\ \/ botEvent[th[t].room] # "none"
     \/ \E u \in WebhookThreads : th[u].room = th[t].room /\ th[u].pc \in CreatePcs

\* As long as no call fails, a direct message is dropped in three races only: its room is new;
\* the sender was registered, or the receiver joined, after the handler had looked.  Later
\* messages find a room that the bot can still read although it left, whoever else has left or
\* joined meanwhile.
DroppedOnlyInARace ==
  [][\A t \in WebhookThreads :
       th[t] # Idle /\ th'[t] = Idle /\ faults' = 0 =>
         \/ At(t, "send") /\ Granted(t)
         \/ Settling(t)
         \/ At(t, "register") /\ th[t].sender \in registered
         \/ At(t, "invite_receiver") /\ th[t].receiver \in Joined(member, th[t].room)]_vars

=============================================================================
