# matrix-rocketchat in TLA+

`matrix-rocketchat` is an application service of a Matrix homeserver that bridges
Rocket.Chat channels, groups and direct messages to Matrix rooms. This directory holds
TLA+ specifications of it, TLC configurations that check them on small instances, and
proofs for the TLA+ proof system. Paths are relative to `src/src/matrix-rocketchat/`
unless they start with `tests/` or `assets/`. `PROJECT.json` maps every definition to the
lines it models.

## 1. The system

### Components, their state and their operations

| component | state it keeps | operations |
|---|---|---|
| Matrix homeserver (external), called through `api/matrix/r0.rs` | room directory (aliases), room state (creator, canonical alias, topic), members, accounts | create room, invite, join, leave, forget, read members/state, put/delete alias, register, send |
| Rocket.Chat servers (external), called through `api/rocketchat/v1.rs` | channels, groups, direct message channels, members, accounts | lists, members (paged), post message, login, upload |
| channel bridging: `CommandHandler::bridge`/`unbridge` in `handlers/matrix/command_handler.rs`, `models/rocketchat_room.rs`, `models/room.rs` | none of its own: all of it is on the homeserver | bridge, bridge for another user, unbridge |
| forwarding: `handlers/rocketchat/forwarder.rs`, `handlers/matrix/forwarder.rs`, `handlers/matrix/message_handler.rs` | `last_message_sent` per user (database) | forward a channel message, a room message, a file; suppress echoes |
| direct messages: `Room::get_dm`, `Forwarder::prepare_dm_room`, `Room::rocketchat_for_direct_room` | `DM_ROOMS`, a cache in memory | find or create a direct message room, invite receiver and bot |
| membership handler: `handlers/matrix/membership_handler.rs` | none | the bot's invite and join, users that join or leave an admin room |
| admin commands: `connect`, `login`, `list`, `help` | tables `rocketchat_servers`, `users_on_rocketchat_servers`; the topic of the admin room | as named, and the login endpoint `handlers/iron/rocketchat_login.rs` |
| virtual users: `models/virtual_user.rs` | accounts on the homeserver | find or register |
| delivery: `handlers/iron/transactions.rs`, `handlers/matrix/dispatcher.rs`, `handlers/error_notifier.rs` | none (transaction ids are not kept) | handle a batch of events in order, report an error to the room |
| web server and pool: `server.rs`, `bin/matrix-rocketchat.rs`, `models/connection_pool.rs`, `middleware/` | the pool of database connections behind a mutex | route a request to a thread, check tokens |
| identifiers | none | aliases `prefix#server#channel`, user ids `prefix_server_user`, validation of server ids |
| logging, errors, translations, configuration | none that others depend on | |

The homeserver pushes events (`PUT /transactions/:txn_id`), Rocket.Chat posts messages
(`POST /rocketchat`). iron handles every request in a thread (`num_cpus * 8` of them), and
a handler makes one blocking HTTP call after the other. Nothing is locked between the calls
and almost nothing is stored by the application service: which room belongs to a channel
*is* an alias, which channel belongs to a room *is* the canonical alias, who takes part *is*
the list of members. All handlers share this state and change it one call at a time.

### What is hard here

* **Interleaving.** Two handlers look at the same alias or the same members and act on
  what they saw several calls later.
* **Partial failure.** An operation is a sequence of calls. Any call can be refused, fail,
  or succeed with its answer lost; the rest of the sequence is then not executed, and
  nothing is undone. A crash has the same effect on all handlers at once.
* **Order of events.** The bot can read a direct message room only after two events about
  itself were pushed and handled. The echo of a message races the record of having sent it.
* **Repetition and loss.** Transaction ids are ignored, and a batch ends at its first error.
* **Shared resources.** Threads wait for the mutex around the connection pool, and inside it
  for a connection that other threads keep during all their HTTP calls.
* **Boundaries.** Pagination of a list that changes, the echo threshold, the splitting of
  identifiers, the number of members of an admin room.

The full list, each at its line, is under `hazards` in `PROJECT.json`.

### What makes the components correct

* *Bridging*: a channel has at most one room and a room only ever belongs to one channel;
  a message crosses only between a channel and its own room; a room that a channel's alias
  resolves to stays usable (the bot is in it); a room reported as unbridged is empty and
  silent; a room reported as bridged works both ways; no human loses a room they are in.
* *Direct messages*: a room belongs to one sender; the receiver has access and nobody else
  reads along; answers come back to the channel; messages are not lost; the bot does not stay.
* *Echo filter*: a message from Matrix does not come back, one from Rocket.Chat is not
  suppressed.
* *Admin commands*: a connected room has a server and a row for the user; server ids, URLs
  and tokens are unique; a login is not undone by another command.
* *Admin rooms*: the bot notices a third user and leaves; whoever joins as a third is not
  obeyed; nobody is refused who is alone with the bot.
* *Delivery*: each event is handled, in order, and no more often than it is pushed.
* *Pool*: nobody waits for a connection with one in the hand; every request is answered.
* *Paginated reads*: nobody is missed or repeated as long as the list does not change.
* *Identifiers*: different servers, users and channels have different names, and a name is
  taken apart into what it was made of.

## 2. The modules

| module | models |
|---|---|
| `MatrixRooms` | what the homeserver grants and what a granted call does to the members of rooms |
| `BridgeContract` | abstract: binding, releasing, and messages that cross |
| `ChannelBridge` | bridge and unbridge commands, webhook messages of channels, messages in rooms |
| `ChannelBridge_proofs` | theorems about `ChannelBridge` |
| `MCChannelBridge` + 5 cfgs | instances of `ChannelBridge` |
| `DirectMessages` | direct messages in both directions, the cache, the bot's visit |
| `DirectMessages_proofs` | theorems about `DirectMessages` |
| `MCDirectMessages` + 2 cfgs | instances of `DirectMessages` |
| `AdminRoom` | the bot's visit to an admin room: membership handler, transactions, commands |
| `AdminRoom_proofs` | theorems about `AdminRoom` |
| `MCAdminRoom` + 1 cfg | an instance of `AdminRoom` |
| `AdminConnect` | connect and login: the database, its transaction, and the topic of an admin room |
| `AdminConnect_proofs` | theorems about `AdminConnect` |
| `Identifiers` | pure: server ids, user ids and aliases, made and taken apart |
| `ConnectedServers` | composes `AdminConnect` and `Identifiers`: the names of servers that connect accepts |
| `ConnectedServers_proofs` | theorems about `ConnectedServers`, from those about `AdminConnect` |
| `MCAdminConnect` + 2 cfgs | instances of `ConnectedServers` |
| `MessageFlow` | the messages of one bridged channel: transactions, webhooks, echo filter, files |
| `MessageFlow_proofs` | theorems about `MessageFlow` |
| `MCMessageFlow` + 1 cfg | an instance of `MessageFlow` |
| `Pagination` | pure: one paginated read of a list of Rocket.Chat |
| `ConnectionPool` | threads, the mutex and the connections, and reads of a list that changes |
| `ConnectionPool_proofs` | theorems about `ConnectionPool` |
| `MCConnectionPool` + 1 cfg | an instance of `ConnectionPool` |
| `Counting` | lemmas about numbers and finite sets that several of the proofs use |

`ChannelBridge`, `DirectMessages` and `AdminRoom` extend `MatrixRooms`; `BridgeContract` is
instantiated by `ChannelBridge`; `ConnectedServers` extends `AdminConnect` and `Identifiers`, and
`ConnectionPool` extends `Pagination`. `AdminConnect` begins where `AdminRoom` has set a room up.
`ChannelBridge` takes connected servers as given, and `MessageFlow` looks closer at one channel
that `ChannelBridge` has bridged and that nobody unbridges.

### ChannelBridge

`alias`, `canonical`, `otherAlias`, `madeFor`, `member` and `registered` are the
homeserver's state. `th` has one record per thread: `op`, the program counter `pc`, and the
local variables of the handler (`user`, `who`, `channel`, `room`, `todo`). `pc` names the
call a thread makes *next*; one action is one call together with the code that runs on its
answer, because that code touches nothing that is shared. `Granted(t)` says when the
homeserver accepts the call; otherwise `Refused(t)` ends the handler, which is what the `?`
after the call does. `CallFails` (the request does not get through) and the second branch
of `Answered` (the call took effect, its answer did not arrive) are faults; `Crash` resets
all threads and leaves the homeserver alone.

* bridge: `BridgeCommand` (checks on Rocket.Chat, look-up of the alias), then either
  `CheckRequester`, `InviteAgain` or `CreateRoom`, `InviteRequester`, `PutCanonical` and the
  loop `FindUser`, `RegisterUser`, `CheckJoined`, `InviteUser`, `JoinUser` over the channel's
  members, and `ReportBridged`.
* unbridge: `UnbridgeCommand`, `Snapshot`, `CheckAliases`, `DeleteAlias`, the loop `Forget`
  over the snapshot, `ReportUnbridged`.
* a message of a channel: `Webhook`, the same loop for its sender, `SendToRoom`.
* a message in a room: `RoomMessage`, `ReadCanonical`, `PostInChannel`.
* `UserJoins`, `UserLeaves`, `UserAddsAlias`, `UserRemovesAlias` are Matrix users.

`bridged`, `unbridged`, `forwarded` and `posted` record what was reported and what crossed, and
`latecomers` which virtual users a handler brought into a room after an unbridge command had listed
its members or had reported it (`BeingLeft`), until they are made to leave; no handler reads them.

Abstractions: setting the power levels (`room.rs:54`) changes nothing that is modelled and
can only fail, which is the lost answer to the creation; forgetting a room after leaving it
likewise. The lists and members of Rocket.Chat are fixed. Users are connected and logged in.
Every channel message is sendable: the echo filter is in `MessageFlow`. Membership events have no
effect in rooms made by the bot (`is_admin_room` is false). Message texts, files and display
names are not told apart.

### DirectMessages

State of the homeserver: `creator`, `member`, `readable` (rooms whose state the bot may
read: it was in them and did not forget them), `botEvent` (the next event about the bot that
the homeserver will push) and `registered`. State of the process: `cache`, which is
`DM_ROOMS`, and `th`. `invited` and `sent` record what happened, `sent` with the humans other
than the receiver who are in the room or invited to it.

The answers of the receiver are a function of that state and no action, because their handler
changes nothing on Matrix: `ReplyChannels(r)` are the channels that
`Room::rocketchat_for_direct_room` can find for a message in `r`, `ReplyMayFail(r)` says that it
may find none. The users it picks are the first ones the homeserver lists, hence any.

`Webhook` is `find_matching_user_for_direct_message`; `FindUser`, `JoinedRooms`, `CheckRoom`
are `Room::get_dm`; `ReadCreator`, `FindMember`, `CheckReceiver`, `InviteReceiver` are
`invite_user_into_direct_message_room`; `DmList` to `InviteBot` are
`auto_bridge_direct_message_channel`; `Send` is the end of `Forwarder::send`. `BotInvited` and
`BotJoined` are the membership handler, `BotEventFails` an event that was lost with its batch
or whose calls failed, `BotForgets` the error path of `handle_bot_join`.

Abstractions: receivers stay logged in; the two reads of a display name are one; the second
read of the creator (`forwarder.rs:155`) is one with the read of the members that follows
it; the reads of `handle_bot_join` are one step with the call that follows. `dm_list` contains
the channel. Some virtual users are registered from the start, as bridged channels register
them too.

### AdminRoom

One room: `creator`, whether it is `remote`, the member event of every user (`member`, with the
event's sender), and whether the bot can read it. `queue` are the events that the homeserver has
not been answered for, `batch` and `done` the open transaction and how far it is handled, `th` the
next call of the one handler that runs. `failed` records that a call failed; no handler reads it.

* the bot: `BotInvited`, then `BotJoined`, `Validate` (`is_private_room`), `SendHelp`, `SetName`,
  or `SendReason`, `LeaveRoom`, `Forget` for a room that is not private.
* others: `UserJoined` validates again and leaves with a message, `UserLeft` leaves at once.
* a direct message room, made by a virtual user: `BotJoined`, `LeaveDirectMessageRoom`.
* `MessageHandled` is the choice between a command and a message; `Obeyed` names whose message
  is taken as a command.

`Fails` says what an error leads to at each call: some end the handler and with it the batch
(`DropRest`), some are logged, some lead to leaving. `IsPrivate(list)` counts as the code does:
senders of all member events in the order of the homeserver, which is arbitrary (`Listings`),
without adjacent duplicates. This count is not the number of members, and these are consequences
that the model shows and no property forbids:

* a room is refused also when the third user was only invited, or has left;
* a declined invitation and the removal of a user make the bot leave as well;
* a change of a profile is a join event and can end the visit with "other user joined";
* the bot sets up a room whose creator has left meanwhile, and a room that another user entered
  instead of the creator counts as private;
* between its join and the handling of that join the bot obeys anybody in the room.

Abstractions: the calls of `is_admin_room` are one step (the creator never changes, and whether
the room can be read is changed by this handler only); one transaction is handled at a time;
invites of others and the bot's own leave and messages are passed over by the handlers and are
no events here.

### AdminConnect

`topic` is on the homeserver, `servers` and `users` are the two tables as they are committed,
`th` has the pending call of every thread with its user, room and server. A room is connected
when its topic is the URL of a row of `servers` (`Room::is_connected`).

* connect: `AlreadyConnected`, or `ConnectNew`/`ConnectExisting` (the checks, before any call),
  `Probe` (`RocketchatApi::new`, then the inserts), `SetTopic`, `SendHelp`, `Commit`. All of it
  is inside a database transaction, so what `Probe` and the upsert write is seen by nobody else
  and is added to the tables by `Commit`; `CallFails` and a lost answer roll it back, but leave
  the topic.
* login: `LoginCommand` in a connected room or `LoginRequest` at the endpoint, `RcLogin`
  (version, auth token, `set_credentials`) and, for the command, `SendUsage`.

`refused` and `loggedIn` record what users were told, `disturbed` the rooms whose last connect
was stopped by a fault; no handler reads them.

Abstractions: the homeserver sends one transaction of events after the other, so one thread
`Tx` runs commands, and requests to the login endpoint have threads of their own. SQLite locks
are external and modelled as far as one connection in a transaction needs them: while connect
has its transaction open it holds a lock, and a write of another connection fails at once, since
no busy timeout is set. What happens if a `COMMIT` itself meets the lock of a reader, or if the
homeserver repeats a transaction while the first attempt is still connecting, is not modelled.
The rooms are set up and keep their members, and users do not change topics by hand. Commands
that are refused for other reasons than `AlreadyConnected` only send a message and are no actions.

### Identifiers and ConnectedServers

A name is a sequence of characters, of which there are lower-case letters, upper-case letters
and the two separators. `IsServerId` is the check of `connect_new_rocketchat_server`;
`BuildUserId` and `BuildRoomAliasName` make names, `ServerAndUser`, `ServerOfAlias` and
`ChannelOfAlias` take them apart. `ConnectedServers` gives the ids of `AdminConnect` such names,
among them invalid ones of every kind, and states its properties for whatever servers are in the
table: only the check of `connect` keeps names apart. `BuildUserId` turns the name into lower
case as `UserId::try_from` does, so two Rocket.Chat users whose ids differ in nothing but
capitals share a virtual user. The configuration does not check `sender_localpart`: with an
underscore in it `ServerAndUser` returns shifted parts, which is why `VirtualUserIsTakenApart`
excludes it and the other two properties do not.

### MessageFlow

`room` and `channel` are the messages of the two ends in order; `pushed` and `open` say how far
the homeserver is with pushing the room's events and which transaction waits for an answer;
`webhooks` are the posts whose webhook is under way; `lastSent` is `last_message_sent`; `th` and
`hook` are the threads; `now` is a clock in seconds. A copy of a channel message is an entry of
`room` without a human sender, and `part` says which of the message's files it is.

* a transaction: `Push`, `ForwardToChannel` (the handlers up to the answer of Rocket.Chat, for a
  text or a file), `ForwardNothing` (an emote, a location or a notice is not posted, but its time
  is stored), `RefuseFile` (a file whose event has no mime type is an error, which drops the rest),
  `Store` (`set_last_message_sent`), `Answer`. `PushAgain` is the homeserver that got no answer;
  transaction ids are not looked at, so all events are handled again, perhaps while the first
  attempt still runs. `EventFails` drops the rest of the batch (`DropRest`), as
  `Dispatcher::process` does, and the answer is OK all the same.
* a webhook: `Webhook` (the echo filter), then `SendToRoom` for the text or for one file after
  another, `SendNothing` for a message that looks like an upload and has no attachments, or
  `WebhookFails`. Rocket.Chat calls it for every post, in any order, once.

`Notices`, `Untyped` and `Parts` say of what kind a message is. `Parts` is 1 for a text, whose only
part is the message itself; `forward_file` takes its way for a message whose text is that of an
upload, and then there is one part for each attachment.

`copied` and `repeats` are history. Abstractions: events of virtual users touch nothing and are
passed over by `NextEvent`; the invitation of a channel's author is part of the first `SendToRoom`,
and so is reading all the attachments, which sends nothing; a file's upload is part of the step that
sends it, because nobody sees it before; everybody who writes is logged in, so `forward_file` always
finds a member whose credentials it can use.

### Pagination and ConnectionPool

`Response(entries, offset)` is a page, which Rocket.Chat cuts out of the list as it is at the
time of the request; `AfterResponse` is one turn of the loop that `channels_members`,
`groups_members` and `channels_list_joined` share. The error for too many requests is never
returned: the check asks for an index that the loop does not reach, so a read that is cut off
after `MAX_REQUESTS_PER_ENDPOINT_CALL` pages returns what it has (`end = "cut"`).

`ConnectionPool` has threads for transactions and for webhooks (iron has `num_cpus * 8` threads
for all of them), `mutex`, and `held`, the threads that keep a connection. `Lock` and `Get` are
`ConnectionPool::from_request`: the wait for a free connection happens with the mutex locked, so
the others wait for the mutex, which r2d2's timeout of 30 seconds (`TimesOut`) does not bound. A
webhook takes a connection in the middleware (`CheckToken`), returns it, and takes one again. The
calls of a transaction are the pages of a bridge command (`ReadPage`), while users enter and
leave the channel (`Enters`, `Exits`); those of a webhook are one step (`HandlerEnds`). `stayed`,
`came` and `went` record what changed during a read.

## 3. The runs

All runs use the specifications as they are; the configurations only give constants values.
`CHECK_DEADLOCK FALSE` everywhere: with `MaxRequests` used up and every thread idle the
system rests.

| run | instance | shows |
|---|---|---|
| `overlap` | 2 transaction threads, 1 webhook thread, 2 channels, 2 rooms, 3 requests, 2 faults | `TypeOK`; `AliasedRoomHasBot`; `UnbridgedRoomIsLeft`; `NotTakenUpAgain`; `ImplementsContract`; `RefusedOnlyInARace` |
| `no_faults` | 1 transaction and 1 webhook thread, 1 channel, 2 rooms, 4 requests, no fault, fair | `ReportedBridgeIsTwoWay`; `HandlersFinish` |
| `left_behind` | 1 transaction thread | `NoHumanIsLeftBehind` is violated |
| `late_message` | 1 transaction and 1 webhook thread, 3 requests, no fault | `NoLateMessage` is violated |
| `failed_bridge` | 1 transaction thread, 1 fault | `FailedBridgeIsNotBridged` is violated |
| `both_on_matrix` | 2 webhook threads, 2 humans at the ends of one channel, 2 rooms, 3 messages, 1 fault, fair | `TypeOK`; `RoomIsTheSenders`; `ReceiverHasAccess`; `AnswersComeBack`; `BotLeaves`; `DroppedOnlyInARace` |
| `foreign_reader` | 1 webhook thread, 1 sender with 2 receivers, 2 messages | `NoForeignReader` is violated |
| `admin_room` | 2 humans, 1 virtual user, 5 things that users do, batches of 2, 1 fault, fair | `TypeOK`; `CrowdIsNoticed`; `CrowdIsNotObeyed`; `RefusedForAThird`; `BotLeaves` |
| `connect` | 2 humans, 3 admin rooms, 2 URLs, 6 ids of which 2 are valid, 2 login threads, 6 requests, 2 faults | `TypeOK`; `ServerHasAUser`; `ConnectedRoomIsUsable`; `ReportedLoginLasts`; `VirtualUserIsTakenApart`; `VirtualUsersDiffer`; `RoomAliasIsTakenApart` |
| `stuck_room` | 3 requests, 1 fault | `AlreadyConnectedIsTrue` is violated |
| `flow` | 2 messages of the room out of 2 texts, a notice and a file without a type, 1 of the channel with 2 files, 2 posts, 2 transaction and 2 webhook threads, 1 fault | `TypeOK`; `NoLoop`; `OncePerPush`; `InOrder`; `OnlyLateEchoes`; `AnsweredIsPosted`; `CopiesAreWhole` |
| `pool` | 1 transaction and 2 webhook threads, 2 connections, 3 requests, pages of 1, reads of at most 2 pages, up to 3 members, 2 changes, fair | `TypeOK`; `PoolWaitsForWork`; `MissedOnlyIfSomebodyWent`; `RepeatedOnlyIfSomebodyCame`; `EveryRequestIsAnswered` |

What the properties say, and where they stop:

* `AliasedRoomHasBot` and `ImplementsContract` hold under every interleaving, with faults.
  The second is refinement: `Contract == INSTANCE BridgeContract WITH owner <- madeFor,
  bound <- alias, ...`. Creating a room with its alias is `Bind`, deleting the alias is
  `Unbind` (whichever room it resolves to by then), a forwarded message is `Forward`, a
  posted one is `Post`, and all other calls stutter.
* `UnbridgedRoomIsLeft` and `NotTakenUpAgain` hold under every interleaving, with faults: what is
  left of a half finished attempt is never reported, and in a room that was reported nobody of the
  application service is left but `latecomers`. No handler takes such a room up again: its channel
  does not resolve to it, and the bot, who would read its channel, is not in it.
* `NoLateMessage` says more than the code keeps, and one webhook next to the command suffices: the
  handler looks the room up, the command lists the members, deletes the alias and makes them leave,
  and the invitation, which the bot sent in between, lets the sender join and write in a room that
  was reported as unbridged. `late_message` shows it; `RefusedOnlyInARace` says how such a handler
  ends when the bot leaves earlier.
* `ReportedBridgeIsTwoWay` holds without faults and with one transaction thread. It fails
  with two, when a repeated bridge command finds the alias of a room that has no canonical
  alias yet, and after a failure, which is what `failed_bridge` is about.
* `NoHumanIsLeftBehind` is violated because the members are checked two calls before the
  alias is deleted, and an invited user can join in between.
* `RoomIsTheSenders` and `ReceiverHasAccess` hold with both ends of a channel on Matrix,
  through cache, crash and failed creation. For one sender with two receivers
  `ReceiverHasAccess` does not hold, for the reason that `foreign_reader` shows: a room in
  which the sender is alone (its receiver is invited but has not joined, or has left) is taken
  for the room of any receiver.
* `RefusedOnlyInARace` and `DroppedOnlyInARace` say when a message, or a bridge command, ends at a
  call that the homeserver refuses, without any call having failed: two handlers register or bring in
  the same virtual user at once, the channel is being unbridged, or a direct message room is so new
  that its creator cannot be read as the bot yet (`room.rs:198`), so that the second of two
  messages in a row is lost. Nothing that earlier attempts leave behind has this effect.
* `AnswersComeBack` holds although the room does not know its channel: the only virtual user in it is
  the sender, and the receiver has one channel with the sender. While the bot is in the room it may be
  taken for the Matrix user (`room.rs:226`), and the answer is lost.
* `CrowdIsNoticed` and `BotLeaves` of `AdminRoom` hold in spite of the wrong count of members
  because the errors of the count are on the side of leaving: a third user in the room always has a
  member event of their own. A failed call can keep the bot in the room: the message that a user
  joined is sent first, and when it fails nobody leaves (`membership_handler.rs:153`).
* `CrowdIsNotObeyed` depends on the order in which events are pushed: the join of the sender is
  handled before the sender's message, and the handler leaves before it returns.
* `ServerHasAUser` and `ReportedLoginLasts` are what the transaction and its lock are good for: a
  new server and its first user are saved together, and a login that is reported while a
  connect of the same user is open is not reset by the commit.
* `ConnectedRoomIsUsable` ties the topic, which is the homeserver's, to both tables: there is a server
  for it and a row of the room's owner. It excludes a room while its connect is under way and the rooms
  whose last connect was stopped by a fault, and
  `stuck_room` shows why: such a room may have the topic of a server for which its user has no
  row. A new connect is refused as already connected, and login fails.
* `NoLoop` and `OncePerPush` say that no message is copied more often than it was posted, nor
  posted more often than it was pushed; `InOrder` that events are posted in their order as
  long as no transaction is repeated; `AnsweredIsPosted` that, without a fault, no event is lost
  except with a file that has no mime type: that file takes the rest of its transaction with it,
  and the property, which speaks of the events pushed so far, excuses everything after it.
* `CopiesAreWhole` is about a message with several files: the loop of `forward_file` ends at the
  first call that fails, so what is in the room is always a beginning of the message, also while
  two webhooks send at the same time; and without a fault all of it.
* `OnlyLateEchoes` is what the echo filter achieves: an echo comes through if its webhook is
  handled before the time is stored, or after the threshold. The first case needs no failure and
  no time: `last_message_sent` is stored after Rocket.Chat has accepted the message, and the
  message then comes back to its room.
* `MissedOnlyIfSomebodyWent` and `RepeatedOnlyIfSomebodyCame` are what the offsets are good for: users
  who leave move those behind them to an earlier place, which skips entries, users who enter move
  them to a later one, which repeats entries. `EveryRequestIsAnswered` shows that the loop ends also
  when count and total never meet, and that waiting for connections ends without the timeout,
  which `FairSpec` does not rely on.
* `VirtualUserIsTakenApart`, `VirtualUsersDiffer` and `RoomAliasIsTakenApart` hold for every set of
  servers that `connect` accepts and whatever ids Rocket.Chat chooses, with the separators in them,
  since nothing in the code checks those. A user's id may contain the separator of virtual users and
  is read back as it is. The id of a channel may not contain that of aliases (`#`): `room.rs:181`
  takes the third part of the alias, so that such an id is cut off, and `RoomAliasIsTakenApart` says
  that it is so exactly then, and that the server is read all the same. The ids that Rocket.Chat
  makes itself consist of letters and digits.

**Bounds.** `MaxRequests` and `MaxFaults` bound requests and faults; `Rooms` bounds rooms (a
thread that needs one more waits for ever, so liveness is checked with enough of them: two
rooms suffice, because bridging a channel three times takes two unbridge commands and so five
requests). Every hazard needs at most two overlapping handlers and one or two
requests before them to set the scene: bridge, unbridge, and bridge again with another
handler in between are within three requests, and two faults stop an attempt and its repetition,
or two handlers that overlap. One human is enough because humans matter only by being in the room
or not; with two members per channel the loops run more than once and can be cut off in the
middle. For direct messages two humans are needed to have a wrong reader. Connecting needs two rooms of
one human and one of another to have a room that was disturbed next to one that was not, and two
servers to clash in ids, URLs and tokens; six requests allow two servers to be connected, logged
in to and connected again. For the flow of messages two events (`MaxWritten`) fill a
batch, two posts (`MaxPosts`) are two messages, a message that was repeated, or one of each
direction whose webhooks overlap, two files are enough to have one without the other, and `MaxTime` leaves one tick of the clock beyond a
threshold of 0, which puts a webhook before, at and after the threshold. Five actions of users
are what it takes to invite the bot, invite a second human who joins, and to act once more, in
batches that hold one or two of these events. With two connections for three threads one
of them has to wait, and two pages of one entry make a list of two complete and one of three
cut off, with up to two changes in between. Ids of one and two characters out of an alphabet with
one letter, its capital and both separators contain every confusion of parts that an id
could cause. Symmetry is used
for rooms and for equal threads, in runs without liveness properties only.

**Fairness.** `ChannelBridge!FairSpec` has weak fairness of `Step(t)` for every thread: the
thread that runs a handler is an operating system thread of iron, and every call ends with an
answer or an error. Nobody is obliged to send requests, to join or to leave.
`DirectMessages!FairSpec` has weak fairness of handling the bot's events, which the homeserver
pushes until it gets an answer. `HandlersFinish` is checked without faults, which would only
end handlers sooner. `AdminRoom!FairSpec` has weak fairness of the handler's steps, of pushing events
and of answering; users are not obliged to anything. `ConnectionPool!FairSpec` has weak fairness of
every thread's steps but not of `TimesOut`, and none of requests or of changes of the channel. Weak
fairness is enough there because only one thread at a time waits inside the mutex.

## 4. The proofs

Every invariant and every safety property of a step that a passing run checks is also a theorem, for
all values of the constants that satisfy the named assumptions of the modules. Where a property holds
only for some instances, the theorem has the condition as a hypothesis, and the run that checks the
property is an instance that meets it:

| hypothesis | what it says | where it comes from |
|---|---|---|
| `OneTransaction`, `MaxFaults = 0` | commands run one at a time, no call fails; webhooks overlap as they like | one transaction at a time; run `no_faults`. With a fault the property does not hold (`failed_bridge`) |
| `OneReceiver` | no sender has a second receiver on Matrix | run `both_on_matrix`. Without it messages reach the wrong user (`foreign_reader`) |
| `OneChannelEach` | two direct message channels differ in their ends | the comment at `models/room.rs:257`: a user can only have one such room with another user; the id of a channel is made of its users' ids |
| `IsFiniteSet(RocketchatIds)` | Rocket.Chat has finitely many users | only because TLA+ defines the cardinality of finite sets only |

Each proof begins with an inductive invariant, with one lemma for each action, or group of actions, and
each conjunct it can disturb. TLC checked the invariants on the instances of the runs before they were
proved.

### ChannelBridge

Assumed are `UsersAreDistinct` and `ConstantsFit` (channels, rooms and users are different things, the
virtual users of channel members are virtual users, the bounds are natural numbers).

| theorem | statement |
|---|---|
| `TypeCorrect` | `Spec => []TypeOK` |
| `Inductive` | `Spec => []IInv` |
| `BotIsInAliasedRooms` | `Spec => []AliasedRoomHasBot` |
| `ContractHolds` | `Spec => ImplementsContract` |
| `UsersAreRefusedOnlyInARace` | `Spec => RefusedOnlyInARace` |
| `UnbridgedRoomsAreLeft` | `Spec => []UnbridgedRoomIsLeft` |
| `LeftRoomsAreNotTakenUpAgain` | `Spec => NotTakenUpAgain` |
| `ReportedBridgesAreTwoWay` | `OneTransaction`, `MaxFaults = 0`: `Spec => []ReportedBridgeIsTwoWay` |

`AliasedRoomHasBot` is not inductive by itself: the step `Forget` makes a user leave, perhaps
the bot, and nothing in the property says that no alias resolves to that room. `IInv` adds

* `RoomsAreOwned`: an alias, a canonical alias and a thread only ever connect a room with the
  channel it was made for, so the alias that `DeleteAlias` deletes is the only one that can
  resolve to the thread's room;
* `LeftRoomsHaveNoAlias`: the room of a thread that is at `forget` has no alias. It stays so
  because an alias is only set for a room that is created in the same call, hence for a room
  that no thread has yet.

The bot's membership is otherwise only changed by `Join`, because invited users are humans or
virtual users, never the bot. `ContractHolds` follows from `IInv`: the ownership of threads is what
allows `Forward` and `Post`, and `madeFor` and `alias` change only in `CreateRoom` (`CreateBinds`)
and `DeleteAlias` (`DeleteUnbinds`).

* `UsersAreRefusedOnlyInARace` adds `UsersAreIn`: the user that a thread brings in stays invited, or
  joined, as long as the alias resolves to the room. `Forget` is the only step that takes a user out,
  and it works in rooms without an alias.
* `UnbridgedRoomsAreLeft` and `LeftRoomsAreNotTakenUpAgain` add `LeftInv`, which is about
  `Remaining(r)`, the users of the application service in a room who are no latecomers. From the list
  of the members on they are all on the list, and they only become fewer, whoever makes them leave,
  because whom a handler still brings in is a latecomer (`NobodyComes` and the lemmas behind it). The
  command reports the room when nobody is left on its list, so the room is `Gone`: it stays without
  an alias, which is only set for a room that is created in the same call, and without the bot, who
  never is a latecomer. Hence no look-up of an alias finds it and no message in it finds a channel.
* `ReportedBridgesAreTwoWay` adds `NamedInv`: the room that a channel resolves to names the channel, or
  is just about to (`NamedOrNaming`). That a command which has created a room gets as far as naming it
  needs that none of its calls is refused, hence `NobodyInUnmadeRooms` and `NewRoomsAreBound`.

### Admin commands and names

`AdminConnect_proofs` proves, under `AdminConnectFits` (one thread for commands, every room
has an owner, valid ids are ids, the bounds are natural numbers):

| theorem | statement |
|---|---|
| `TypeCorrect` | `Spec => []TypeOK` |
| `Inductive` | `Spec => []IInv` |
| `ServersHaveUsers` | `Spec => []ServerHasAUser` |
| `ConnectedRoomsAreUsable` | `Spec => []ConnectedRoomIsUsable` |
| `ReportedLoginsLast` | `Spec => []ReportedLoginLasts` |

Its `IInv` adds to these properties

* `ServersDiffer` and `RowsHaveServers`, the constraints of the tables;
* `PendingConnect`: a connect under way is one of the room's owner, nobody relies on a login of
  its user, and its server is in the table or clashes with none that is. That is what makes a commit harmless to the
  reported logins, and it is kept because no login can be saved meanwhile;
* `TopicFollows`: the room is not connected before the topic is set and has its topic afterwards,
  so that a connect that ends early without a fault leaves no half connected room;
* `KnownTopics`: a topic that is no server's URL belongs to a disturbed room or to the room that
  is just being connected. Without it the commit of a new server could connect another room, one
  whose owner has no row;
* `RoomsHaveRows`: a room with a server has a row of its owner, or is being connected. With
  `KnownTopics` it gives `ConnectedRoomIsUsable`.

`ConnectStep` shows that every step keeps what is known of a connect, `RoomStep` that of the
rooms, `DatabaseStep` the tables and `ReportStep` the logins.

`ConnectedServers_proofs` takes from these that only valid ids are in the table, and proves:

| theorem | statement |
|---|---|
| `VirtualUsersAreTakenApart` | `Spec => []VirtualUserIsTakenApart` |
| `RoomAliasesAreTakenApart` | `Spec => []RoomAliasIsTakenApart` |
| `VirtualUsersAreTold` | `IsFiniteSet(RocketchatIds)`: `Spec => []VirtualUsersDiffer` |

Names are sequences of any length here, and the run's ids of one and two characters stand for them.
The argument is `SplitOfJoin`: a name that was joined at a separator is split there again if its first
part does not contain the separator, whatever the second part contains. An id of a server has neither of the
separators because connect accepts none that has. Of the ids of Rocket.Chat nothing is assumed but that they are
sequences of characters. A user's id is the last part of its name, so it may have both separators; a
channel's id is the last part too, but the code takes the third part of a complete split, and `FirstPart` shows
that this is the id if and only if it has no `#`. The local part of the application service may have the separator of virtual users, because it is cut off before, but
not that of aliases (`#`), where the code splits the alias as a whole: no Matrix user id has that
character, and `RoomAliasIsTakenApart` says so.

### DirectMessages

Assumed are `UsersAreDistinct` and `DirectMessagesFit` (a channel has two ends, no two humans share an
account, the bounds are natural numbers).

| theorem | statement |
|---|---|
| `Inductive` | `Spec => []IInv` |
| `TypeCorrect` | `Spec => []TypeOK` |
| `RoomsAreTheSenders` | `Spec => []RoomIsTheSenders` |
| `MessagesArePrivate` | `OneReceiver /\ Spec => [](ReceiverHasAccess /\ NoForeignReader)` |
| `AnswersReturn` | `OneReceiver /\ OneChannelEach /\ Spec => []AnswersComeBack` |
| `DropsAreRaces` | `OneReceiver /\ Spec => DroppedOnlyInARace` |

`IInv` says where a handler's room comes from. `OnlyTheCreator`: no virtual user but the creator
is ever in a room, so the rooms that the sender has joined are the sender's. `CacheIsTheSenders`: an
entry for a channel and a receiver is a room of the other end, which is where the two ends are needed.
`ThreadsFit`: what a thread holds fits the call it makes next. `MessagesArePrivate` adds, as `PInv`,
that a room has only ever had the one Matrix user invited whom its creator writes to.

The last two theorems add `RInv`, which is about a room from its creation until the bot has left it:

* `CreatorsAreIn`: a virtual user that created a room never leaves it, so none of its own calls is
  refused for its membership;
* `MadeAlone`: while a thread makes a room, the bot does not know it and another thread that finds it
  gets no further than `read_creator`, because the bot cannot read it. So the thread that makes the room
  is not refused when it invites, and nobody sends to a room whose receiver is not invited;
* `RoomsGetRead` and `KnownRoomsGetRead`: without a fault a room is being made, or the bot can read it
  or will. It stays readable when the bot leaves, because the bot does not forget it;
* `BotIsAboutToLeave`: without a fault the bot is in a room only until its join is handled.

An answer then finds exactly one virtual user, the creator, and one human, the receiver, whose only common
channel is that of the message. And a room has more than two members only while the bot is one of them.

### AdminRoom

Assumed are `UsersAreDistinct` and `AdminRoomFits`.

| theorem | statement |
|---|---|
| `Inductive` | `Spec => []IInv` |
| `TypeCorrect` | `Spec => []TypeOK` |
| `RefusedOnlyForAThird` | `Spec => []RefusedForAThird` |
| `CrowdsAreNoticed` | `Spec => []CrowdIsNoticed` |
| `CrowdsAreNotObeyed` | `Spec => []CrowdIsNotObeyed` |

The count of members in `is_private_room` is a count of adjacent distinct senders in an order that the
homeserver chooses. `CrowdIsNotPrivate` shows that it is never too small: every user in the room is the
sender of their own member event, `Vec::dedup` keeps the first place of every sender, and different
users have different places. `ListingFits` shows the other direction, that the count is never more than the users who
have a member event. `IInv` adds

* `CrowdWillBeSeen`: in a crowd a join is still in the queue behind what was handled, and every
  message before that join is followed by its sender's leave or the join of somebody else;
* `AbsentAreOverruled`: behind a waiting message of somebody who is not in the room any more comes
  that leave, or the bot's own join. Without it a user who writes, leaves and is replaced could make an
  old message count in a crowd.

### MessageFlow

Assumed is `MessageFlowFits` (the two ends write different messages, notices
and refused files are messages of the room, the clock reaches past the threshold, the bounds are
natural numbers).

| theorem | statement |
|---|---|
| `Inductive` | `Spec => []IInv` |
| `TypeCorrect` | `Spec => []TypeOK` |
| `EchoesAreLate` | `Spec => []OnlyLateEchoes` |
| `PostsAreInOrder` | `Spec => []InOrder` |
| `AnsweredEventsArePosted` | `Spec => []AnsweredIsPosted` |
| `FilesStayTogether` | `Spec => []CopiesAreWhole` |
| `PostedOncePerPush` | `Spec => []OncePerPush` |
| `MessagesDoNotLoop` | `Spec => []NoLoop` |

`IInv` has a part for each of the first four properties.

* `Types`: a busy thread is at an event of a human or behind its last one, and what it has posted is
  that event.
* `ClocksFit`: whoever wrote a stored post has a `last_message_sent` that is not before it. With that
  a copied echo that was stored is older than the threshold.
* `OrderFits`: `Reached` is the event up to which the open transaction, or the homeserver if there
  is none, has come. Nothing behind it was posted (`NonePosted`), so a new post comes after all the
  others, and without a fault all before it was posted that should be (`AllPosted`). A lost answer or
  a crash makes `Reached` jump to the end of the transaction and never go back; only a repetition
  does, which is why the order needs `repeats = 0`. `OneThread` (nobody but the thread it was pushed
  to handles the transaction) and `WrittenOnce` (nobody writes a message twice) belong to it.
* `HooksFit` and `CopiesFit`: all parts before the next one of a webhook are in the room, whatever
  other threads send in between, because the room only grows.

The last two properties count, and are proved by counting what will happen together with what has
happened. `PostsCounted`: the posts of an event, the threads that have it before them, and its first
push if that is to come, are at most the pushes. A step moves one of them to the next set (a push to a
thread, a thread to a post) or drops it, and only a repetition adds one. `CopiesCounted` does the
same with the copies of a part, the webhooks that are still to send it and the webhooks under way, against
the posts of the message. `Counting` has the lemmas for it: `Together` is a disjoint union, and
`AtMost(S, n)` is shown to survive such a move.

### ConnectionPool

Assumed is `ConnectionPoolFits`.

| theorem | statement |
|---|---|
| `NobodyWaitsWithAConnection` | `Spec => []PoolWaitsForWork` |
| `Inductive` | `Spec => [](PoolInv /\ ReadInv)` |
| `TypeCorrect` | `Spec => []TypeOK` |
| `MissesOnlyIfSomebodyWent` | `Spec => []MissedOnlyIfSomebodyWent` |
| `RepeatsOnlyIfSomebodyCame` | `Spec => []RepeatedOnlyIfSomebodyCame` |

`PoolWaitsForWork` is inductive with the types of `th` and `held`; the reads do not matter. For the
reads, `ReadInv` compares the offset with ranks: `Rank(members, e)` is the place of `e` in the list.
Whom a read has not got yet has a rank behind the offset unless somebody went (`Missing`), and whom it has
got has one before it unless somebody came (`Repeating`). A page is the entries with the ranks from the
offset on, so a list of any length is read by it; when a read ends, the offset is behind the last
rank.

### Model-checked only

Liveness (`HandlersFinish`, both `BotLeaves`, `EveryRequestIsAnswered`), which needs fairness and is out
of the proof system's reach; and the findings, whose runs show a violation.

## 5. Not modelled

* The contents and kinds of files, which are read, uploaded and sent as they are, and a bridged room
  without a logged in member, whose files are passed over (`handlers/rocketchat/forwarder.rs:261-267`).
* The commands `list` and `help`: they read and send a message, nothing else depends on them.
* The check of the Rocket.Chat version beyond its failing: `get_max_supported_version_api` accepts
  major version 0 with a minor version of 70 or more.
* Display names and room names, which are set and never read for a decision.
* Start-up: migrations, the registration of the bot, TLS; the welcome page; the token of the
  homeserver, which is compared with the configuration.
* Logging, translations and error texts, JSON and HTTP encoding, the configuration file.
