------------------------ MODULE DirectMessages_proofs ------------------------
(***************************************************************************)
(* Theorems about DirectMessages: the types, that each direction of a      *)
(* channel keeps to its own rooms, and, as long as every sender has one    *)
(* receiver on Matrix, that messages are private, that answers come back   *)
(* and that a message is dropped only in a race.                           *)
(***************************************************************************)

EXTENDS DirectMessages, FiniteSetTheorems, TLAPS

(***************************************************************************)
(* The inductive invariant.  Threads and cache hold rooms of the right     *)
(* sender because only the virtual user that created a room is ever in it, *)
(* and a room's creator does not change.                                   *)
(***************************************************************************)

\* The types of everything but the threads.
DataTypes ==
  /\ creator \in [Rooms -> Virtuals \cup {None}]
  /\ member \in [Rooms -> [Users -> Membership]]
  /\ invited \subseteq Rooms \X Humans
  /\ readable \subseteq Rooms
  /\ botEvent \in [Rooms -> {"none", "invite", "join"}]
  /\ registered \subseteq Virtuals
  /\ cache \in [Keys -> Rooms \cup {None}]
  /\ sent \subseteq Message
  /\ requests \in 0..MaxRequests
  /\ faults \in 0..MaxFaults

\* No virtual user but the creator gets into a room.
OnlyTheCreator ==
  \A r \in Rooms, v \in Virtuals : member[r][v] # "out" => creator[r] = v

\* A cached room was created by the end of the channel that is not the receiver's.
CacheIsTheSenders ==
  \A c \in Channels, h \in Humans :
    cache[<<c, h>>] # None => creator[cache[<<c, h>>]] \in Ends[c] \ {Account[h]}

\* The message of a thread, and the rooms it holds, by their creators.
SenderFits(s, by) ==
  /\ s.channel # None => /\ s.sender \in Ends[s.channel]
                         /\ Account[s.receiver] \in Ends[s.channel] \ {s.sender}
  /\ s.room # None => by[s.room] = s.sender
  /\ \A r \in s.todo : by[r] = s.sender

ThreadsFit ==
  /\ th \in [WebhookThreads -> Thread]
  /\ \A t \in WebhookThreads : SenderFits(th[t], creator)

IInv ==
  /\ DataTypes
  /\ OnlyTheCreator
  /\ CacheIsTheSenders
  /\ ThreadsFit

\* The creator of a room does not change.
CreatorsStay == \A r \in Rooms : creator[r] # None => creator'[r] = creator[r]

-----------------------------------------------------------------------------
(***************************************************************************)
(* Threads                                                                 *)
(***************************************************************************)

LEMMA IdleFits ==
  /\ Idle \in Thread
  /\ \A by : SenderFits(Idle, by)
BY DirectMessagesFit DEF Idle, Thread, ThreadRecord, Pcs, LookupPcs, SenderFits

\* What a busy thread holds.
LEMMA BusyThread ==
  ASSUME IInv, NEW t \in WebhookThreads, th[t].pc # "idle"
  PROVE  /\ th[t] \in ThreadRecord
         /\ th[t].channel \in Channels
         /\ th[t].sender \in Virtuals
         /\ th[t].receiver \in Humans
         /\ th[t].sender \in Ends[th[t].channel]
         /\ Account[th[t].receiver] \in Ends[th[t].channel] \ {th[t].sender}
         /\ th[t].todo # {} <=> th[t].pc = "check_room"
         /\ \A r \in th[t].todo : r \in Rooms /\ creator[r] = th[t].sender
<1>1. th[t] \in Thread /\ SenderFits(th[t], creator)
  BY DEF IInv, ThreadsFit
<1>2. th[t] \in ThreadRecord /\ th[t].channel # None
  BY <1>1 DEF Thread
<1>3. th[t].sender # None /\ th[t].receiver # None
  BY <1>1, <1>2 DEF Thread
<1>4. th[t].todo # {} <=> th[t].pc = "check_room"
  BY <1>1 DEF Thread
<1>5. QED
  BY <1>1, <1>2, <1>3, <1>4 DEF ThreadRecord, SenderFits

\* A thread that has found or created a room.
LEMMA RoomThread ==
  ASSUME IInv, NEW t \in WebhookThreads,
         th[t].pc \in ExistingPcs \cup {"invite_first", "invite_bot", "send"}
  PROVE  /\ th[t].room \in Rooms
         /\ creator[th[t].room] = th[t].sender
         /\ th[t].todo = {}
<1>1. th[t] \in Thread /\ SenderFits(th[t], creator)
  BY DEF IInv, ThreadsFit
<1>2. th[t].pc \notin {"idle", "dm_list", "register", "create"} \cup LookupPcs
  BY DEF ExistingPcs, LookupPcs
<1>3. th[t] \in ThreadRecord /\ th[t].room # None /\ th[t].todo = {}
  BY <1>1, <1>2 DEF Thread, LookupPcs
<1>4. QED
  BY <1>1, <1>3 DEF ThreadRecord, SenderFits

\* A thread that looks for a room or is about to create one.
LEMMA RoomlessThread ==
  ASSUME IInv, NEW t \in WebhookThreads,
         th[t].pc \in {"dm_list", "register", "create"} \cup LookupPcs
  PROVE  th[t].room = None
BY DEF IInv, ThreadsFit, Thread

\* A busy thread that goes to pc without a room,
LEMMA GoesRoomless ==
  ASSUME IInv, NEW t \in WebhookThreads, NEW pc \in {"find_user", "joined_rooms", "dm_list", "register", "create"},
         th[t].pc \in {"dm_list", "register", "create"} \cup LookupPcs,
         NEW s, s = [th[t] EXCEPT !.pc = pc, !.todo = {}]
  PROVE  s \in Thread /\ SenderFits(s, creator)
<1>1. th[t].pc # "idle"
  BY DEF LookupPcs
<1>2. /\ s \in ThreadRecord
      /\ s.pc = pc
      /\ s.channel = th[t].channel
      /\ s.sender = th[t].sender
      /\ s.receiver = th[t].receiver
      /\ s.room = None
      /\ s.todo = {}
  BY <1>1, BusyThread, RoomlessThread DEF ThreadRecord, Pcs, LookupPcs, CreatePcs
<1>3. s \in Thread
  BY <1>1, <1>2, BusyThread, DirectMessagesFit, UsersAreDistinct DEF Thread, LookupPcs, Users
<1>4. QED
  BY <1>1, <1>2, <1>3, BusyThread DEF SenderFits

\* and one that goes to pc with the room r of its sender.
LEMMA GoesWithRoom ==
  ASSUME IInv, NEW t \in WebhookThreads, th[t].pc # "idle",
         NEW pc \in ExistingPcs \cup {"invite_first", "invite_bot", "send"},
         NEW r \in Rooms, NEW by, by[r] = th[t].sender,
         NEW s, s = [th[t] EXCEPT !.pc = pc, !.room = r, !.todo = {}]
  PROVE  s \in Thread /\ SenderFits(s, by)
<1>1. /\ s \in ThreadRecord
      /\ s.pc = pc
      /\ s.channel = th[t].channel
      /\ s.sender = th[t].sender
      /\ s.receiver = th[t].receiver
      /\ s.room = r
      /\ s.todo = {}
  BY BusyThread DEF ThreadRecord, Pcs, ExistingPcs, CreatePcs
<1>2. pc \notin {"idle", "dm_list", "register", "create", "check_room"} \cup LookupPcs
  BY DEF LookupPcs, ExistingPcs
<1>3. /\ s.channel # None
      /\ s.sender # None
      /\ s.receiver # None
      /\ s.room # None
  BY <1>1, BusyThread, DirectMessagesFit DEF Users
<1>4. s \in Thread
  BY <1>1, <1>2, <1>3 DEF Thread
<1>5. QED
  BY <1>1, <1>4, BusyThread DEF SenderFits

\* What fits a thread goes on to fit it.
LEMMA StillFits ==
  ASSUME NEW s \in Thread, SenderFits(s, creator), CreatorsStay, DirectMessagesFit
  PROVE  SenderFits(s, creator')
<1>1. s \in ThreadRecord
  BY DEF Thread
<1>2. s.room # None => s.room \in Rooms /\ s.sender # None
  BY <1>1 DEF Thread, ThreadRecord, LookupPcs
<1>3. \A r \in s.todo : r \in Rooms /\ s.sender # None
  BY <1>1 DEF Thread, ThreadRecord
<1>4. QED
  BY <1>2, <1>3 DEF SenderFits, CreatorsStay

\* A step that leaves the threads alone, or replaces one of them by one that fits or by Idle.
LEMMA ThreadsStay ==
  ASSUME IInv, CreatorsStay, UNCHANGED th
  PROVE  ThreadsFit'
BY StillFits, DirectMessagesFit DEF IInv, ThreadsFit

LEMMA ThreadReplaced ==
  ASSUME IInv, CreatorsStay, NEW t \in WebhookThreads,
         NEW s \in Thread, SenderFits(s, creator'),
         th' = [th EXCEPT ![t] = s] \/ Return(t)
  PROVE  ThreadsFit'
<1>1. CASE th' = [th EXCEPT ![t] = s]
  BY <1>1, StillFits, DirectMessagesFit DEF IInv, ThreadsFit
<1>2. CASE Return(t)
  BY <1>2, IdleFits, StillFits, DirectMessagesFit DEF IInv, ThreadsFit, Return
<1>3. QED
  BY <1>1, <1>2

-----------------------------------------------------------------------------
(***************************************************************************)
(* Steps.  Most of them leave the homeserver and the cache alone.          *)
(***************************************************************************)

DataInv == DataTypes /\ OnlyTheCreator /\ CacheIsTheSenders

\* A step that leaves the homeserver and the cache alone.
Quiet ==
  /\ UNCHANGED <<roomVars, registered, cache, sent>>
  /\ requests' \in 0..MaxRequests
  /\ faults' \in 0..MaxFaults

LEMMA QuietSafe ==
  ASSUME IInv, Quiet
  PROVE  DataInv' /\ CreatorsStay
BY DEF IInv, Quiet, DataInv, DataTypes, OnlyTheCreator, CacheIsTheSenders, CreatorsStay, roomVars

\* Answered counts a fault if the answer is lost.
LEMMA AnsweredFits ==
  ASSUME IInv, NEW t \in WebhookThreads, NEW s, Answered(t, s)
  PROVE  /\ faults' \in 0..MaxFaults
         /\ th' = [th EXCEPT ![t] = s] \/ Return(t)
BY DirectMessagesFit DEF IInv, DataTypes, Answered

LEMMA MemberTypes ==
  ASSUME DataTypes, NEW r, NEW u
  PROVE  /\ Invite(member, r, u) \in [Rooms -> [Users -> Membership]]
         /\ Join(member, r, u) \in [Rooms -> [Users -> Membership]]
         /\ Leave(member, r, u) \in [Rooms -> [Users -> Membership]]
BY DEF DataTypes, Invite, Join, Leave, Membership

\* Inviting and joining a user who is not virtual, and leaving, gets no virtual user in.
LEMMA NoVirtualGetsIn ==
  ASSUME DataTypes, OnlyTheCreator, NEW r \in Rooms, NEW u \in Users,
         UNCHANGED creator,
         \/ u \notin Virtuals /\ member' = Invite(member, r, u)
         \/ u \notin Virtuals /\ member' = Join(member, r, u)
         \/ member' = Leave(member, r, u)
  PROVE  OnlyTheCreator'
<1>1. ASSUME NEW q \in Rooms, NEW v \in Virtuals, member'[q][v] # "out"
      PROVE  member[q][v] # "out"
  <2>1. v \in Users /\ member[q] \in [Users -> Membership] /\ member[r] \in [Users -> Membership]
    BY DEF DataTypes, Users
  <2>2. CASE u \notin Virtuals /\ member' = Invite(member, r, u)
    BY <1>1, <2>1, <2>2 DEF DataTypes, Invite
  <2>3. CASE u \notin Virtuals /\ member' = Join(member, r, u)
    BY <1>1, <2>1, <2>3 DEF DataTypes, Join
  <2>4. CASE member' = Leave(member, r, u)
    BY <1>1, <2>1, <2>4 DEF DataTypes, Leave
  <2>5. QED
    BY <2>2, <2>3, <2>4
<1>2. QED
  BY <1>1 DEF OnlyTheCreator

\* A step that changes who is in a room, and nothing that threads or cache hold.
LEMMA MembersSafe ==
  ASSUME IInv, NEW r \in Rooms, NEW u \in Users,
         \/ u \notin Virtuals /\ member' = Invite(member, r, u)
         \/ u \notin Virtuals /\ member' = Join(member, r, u)
         \/ member' = Leave(member, r, u),
         UNCHANGED <<creator, registered, cache, sent, requests>>,
         invited' \subseteq Rooms \X Humans,
         readable' \subseteq Rooms,
         botEvent' \in [Rooms -> {"none", "invite", "join"}],
         faults' \in 0..MaxFaults
  PROVE  DataInv' /\ CreatorsStay
<1>1. OnlyTheCreator'
  BY NoVirtualGetsIn DEF IInv
<1>2. DataTypes'
  BY MemberTypes DEF IInv, DataTypes
<1>3. QED
  BY <1>1, <1>2 DEF IInv, DataInv, CacheIsTheSenders, CreatorsStay

LEMMA IInvFromParts == DataInv' /\ ThreadsFit' => IInv'
BY DEF IInv, DataInv

\* A message comes in.
LEMMA WebhookSafe ==
  ASSUME IInv, NEW t \in WebhookThreads, NEW c \in Channels, NEW v \in Virtuals, NEW h \in Humans,
         Webhook(t, c, v, h)
  PROVE  IInv'
<1> DEFINE s == [Idle EXCEPT !.pc = "find_user", !.channel = c, !.sender = v, !.receiver = h]
<1>1. /\ v \in Ends[c]
      /\ Account[h] \in Ends[c] \ {v}
      /\ th' = [th EXCEPT ![t] = s]
  BY DEF Webhook
<1>2. Quiet
  BY DirectMessagesFit DEF Webhook, Quiet, IInv, DataTypes
<1>3. Idle \in ThreadRecord /\ Idle.room = None /\ Idle.todo = {}
  BY IdleFits DEF Thread, Idle
<1>4. /\ s \in ThreadRecord
      /\ s.pc = "find_user"
      /\ s.channel = c
      /\ s.sender = v
      /\ s.receiver = h
      /\ s.room = None
      /\ s.todo = {}
  BY <1>3 DEF ThreadRecord, Pcs, LookupPcs
<1>5. s \in Thread
  BY <1>4, DirectMessagesFit DEF Thread, LookupPcs, Users
<1>6. SenderFits(s, creator')
  BY <1>1, <1>4 DEF SenderFits
<1>7. QED
  BY <1>1, <1>2, <1>5, <1>6, QuietSafe, ThreadReplaced, IInvFromParts

\* A handler that ends.
LEMMA ReturnSafe ==
  ASSUME IInv, NEW t \in WebhookThreads, Return(t), Quiet
  PROVE  IInv'
BY IdleFits, QuietSafe, ThreadReplaced, IInvFromParts

LEMMA CallFailsSafe ==
  ASSUME IInv, NEW t \in WebhookThreads, CallFails(t)
  PROVE  IInv'
<1>1. Quiet
  BY DirectMessagesFit DEF CallFails, Quiet, IInv, DataTypes
<1>2. QED
  BY <1>1, ReturnSafe DEF CallFails

\* Steps of a handler that only go on to the next call.
LEMMA GotoRoomlessSafe ==
  ASSUME IInv, NEW t \in WebhookThreads, Quiet,
         NEW pc \in {"find_user", "joined_rooms", "dm_list", "register", "create"},
         th[t].pc \in {"dm_list", "register", "create", "find_user", "joined_rooms"},
         Goto(t, pc) \/ Return(t)
  PROVE  IInv'
<1>1. th[t] \in ThreadRecord /\ th[t].todo = {}
  BY BusyThread
<1> DEFINE s == [th[t] EXCEPT !.pc = pc, !.todo = {}]
<1>2. [th[t] EXCEPT !.pc = pc] = s
  BY <1>1 DEF ThreadRecord
<1>3. s \in Thread /\ SenderFits(s, creator)
  BY GoesRoomless DEF LookupPcs
<1>4. DataInv' /\ CreatorsStay /\ creator' = creator
  BY QuietSafe DEF Quiet, roomVars
<1>5. th' = [th EXCEPT ![t] = s] \/ Return(t)
  BY <1>2 DEF Goto
<1>6. QED
  BY <1>3, <1>4, <1>5, ThreadReplaced, IInvFromParts

LEMMA GotoWithRoomSafe ==
  ASSUME IInv, NEW t \in WebhookThreads, Quiet,
         NEW pc \in ExistingPcs \cup {"invite_first", "invite_bot", "send"},
         th[t].pc \in ExistingPcs \cup {"invite_first", "invite_bot", "send"},
         Goto(t, pc)
  PROVE  IInv'
<1>1. /\ th[t] \in ThreadRecord
      /\ th[t].todo = {}
      /\ th[t].room \in Rooms
      /\ creator[th[t].room] = th[t].sender
      /\ th[t].pc # "idle"
  BY BusyThread, RoomThread DEF ExistingPcs
<1> DEFINE s == [th[t] EXCEPT !.pc = pc, !.room = th[t].room, !.todo = {}]
<1>2. [th[t] EXCEPT !.pc = pc] = s
  BY <1>1 DEF ThreadRecord
<1>3. s \in Thread /\ SenderFits(s, creator)
  BY <1>1, GoesWithRoom
<1>4. DataInv' /\ CreatorsStay /\ creator' = creator
  BY QuietSafe DEF Quiet, roomVars
<1>5. th' = [th EXCEPT ![t] = s]
  BY <1>2 DEF Goto
<1>6. QED
  BY <1>3, <1>4, <1>5, ThreadReplaced, IInvFromParts

\* A thread that has rooms to look at, all of them its sender's.
LEMMA LooksAtRooms ==
  ASSUME IInv, NEW t \in WebhookThreads, th[t].pc \in LookupPcs,
         NEW rooms \in SUBSET Rooms, rooms # {}, \A r \in rooms : creator[r] = th[t].sender,
         NEW s, s = [th[t] EXCEPT !.pc = "check_room", !.todo = rooms]
  PROVE  s \in Thread /\ SenderFits(s, creator)
<1>1. th[t].pc # "idle" /\ th[t].room = None
  BY RoomlessThread DEF LookupPcs
<1>2. /\ s \in ThreadRecord
      /\ s.pc = "check_room"
      /\ s.channel = th[t].channel
      /\ s.sender = th[t].sender
      /\ s.receiver = th[t].receiver
      /\ s.room = None
      /\ s.todo = rooms
  BY <1>1, BusyThread DEF ThreadRecord, Pcs, LookupPcs
<1>3. s.channel # None /\ s.sender # None /\ s.receiver # None
  BY <1>1, <1>2, BusyThread, DirectMessagesFit DEF Users
<1>4. s \in Thread
  BY <1>2, <1>3 DEF Thread, LookupPcs
<1>5. QED
  BY <1>1, <1>2, <1>4, BusyThread DEF SenderFits

LEMMA JoinedRoomsSafe ==
  ASSUME IInv, NEW t \in WebhookThreads, JoinedRooms(t)
  PROVE  IInv'
<1> DEFINE rooms == {r \in Rooms : member[r][th[t].sender] = "join"}
<1>1. th[t].pc = "joined_rooms" /\ th[t].sender \in Virtuals
  BY BusyThread DEF JoinedRooms, Calls, At
<1>2. Quiet
  BY DEF JoinedRooms, Quiet, IInv, DataTypes
<1>3. CASE Goto(t, "dm_list")
  BY <1>1, <1>2, <1>3, GotoRoomlessSafe
<1>4. CASE rooms # {} /\ th' = [th EXCEPT ![t].pc = "check_room", ![t].todo = rooms]
  <2> DEFINE s == [th[t] EXCEPT !.pc = "check_room", !.todo = rooms]
  <2>1. \A r \in rooms : creator[r] = th[t].sender
    BY <1>1 DEF IInv, OnlyTheCreator
  <2>2. s \in Thread /\ SenderFits(s, creator)
    BY <1>1, <1>4, <2>1, LooksAtRooms DEF LookupPcs
  <2>3. th' = [th EXCEPT ![t] = s]
    BY <1>4
  <2>4. DataInv' /\ CreatorsStay /\ creator' = creator
    BY <1>2, QuietSafe DEF Quiet, roomVars
  <2>5. QED
    BY <2>2, <2>3, <2>4, ThreadReplaced, IInvFromParts
<1>5. QED
  BY <1>3, <1>4 DEF JoinedRooms

LEMMA FindUserSafe ==
  ASSUME IInv, NEW t \in WebhookThreads, FindUser(t)
  PROVE  IInv'
<1> DEFINE key == <<th[t].channel, th[t].receiver>>
           room == cache[key]
<1>1. th[t].pc = "find_user" /\ th[t].pc # "idle"
  BY DEF FindUser, Calls, At
<1>2. Quiet
  BY DEF FindUser, Quiet, IInv, DataTypes
<1>3. CASE Goto(t, "dm_list") \/ Goto(t, "joined_rooms")
  BY <1>1, <1>2, <1>3, GotoRoomlessSafe
<1>4. CASE room # None /\ th' = [th EXCEPT ![t].pc = "read_creator", ![t].room = room]
  <2> DEFINE s == [th[t] EXCEPT !.pc = "read_creator", !.room = room, !.todo = {}]
             s2 == [th[t] EXCEPT !.pc = "read_creator", !.room = room]
  <2>1. /\ th[t] \in ThreadRecord
        /\ th[t].channel \in Channels
        /\ th[t].receiver \in Humans
        /\ th[t].sender \in Ends[th[t].channel]
        /\ Account[th[t].receiver] \in Ends[th[t].channel] \ {th[t].sender}
        /\ th[t].todo = {}
    BY <1>1, BusyThread
  <2>2. room \in Rooms
    BY <1>4, <2>1 DEF IInv, DataTypes, Keys
  <2>3. creator[room] \in Ends[th[t].channel] \ {Account[th[t].receiver]}
    BY <1>4, <2>1 DEF IInv, CacheIsTheSenders
  <2>4. PICK v \in Virtuals, w \in Virtuals : Ends[th[t].channel] = {v, w}
    BY <2>1, DirectMessagesFit
  <2>5. creator[room] = th[t].sender
    BY <2>1, <2>3, <2>4
  <2>6. s2 = s
    BY <2>1 DEF ThreadRecord
  <2>7. s \in Thread /\ SenderFits(s, creator)
    BY <1>1, <2>2, <2>5, GoesWithRoom DEF ExistingPcs
  <2>8. th' = [th EXCEPT ![t] = s2]
    BY <1>4
  <2>9. DataInv' /\ CreatorsStay /\ creator' = creator
    BY <1>2, QuietSafe DEF Quiet, roomVars
  <2>10. QED
    BY <2>6, <2>7, <2>8, <2>9, ThreadReplaced, IInvFromParts
<1>5. QED
  BY <1>3, <1>4 DEF FindUser, Key

LEMMA CheckRoomSafe ==
  ASSUME IInv, NEW t \in WebhookThreads, CheckRoom(t)
  PROVE  IInv'
<1>1. /\ th[t].pc = "check_room"
      /\ th[t].pc # "idle"
      /\ th[t] \in ThreadRecord
      /\ th[t].channel \in Channels
      /\ th[t].receiver \in Humans
      /\ th[t].sender \in Virtuals
      /\ th[t].sender \in Ends[th[t].channel]
      /\ Account[th[t].receiver] \in Ends[th[t].channel] \ {th[t].sender}
      /\ \A r \in th[t].todo : r \in Rooms /\ creator[r] = th[t].sender
  BY BusyThread DEF CheckRoom, Calls, At
<1>2. PICK r \in th[t].todo :
        IF Joined(member, r) \subseteq {th[t].sender, th[t].receiver}
          THEN /\ cache' = [cache EXCEPT ![Key(th[t].channel, th[t].receiver)] = r]
               /\ th' = [th EXCEPT ![t].pc = "read_creator", ![t].room = r, ![t].todo = {}]
          ELSE /\ th' = [th EXCEPT ![t].todo = @ \ {r},
                                   ![t].pc = IF th[t].todo = {r} THEN "dm_list" ELSE "check_room"]
               /\ UNCHANGED cache
  BY DEF CheckRoom
<1>3. UNCHANGED <<roomVars, registered, sent, requests, faults>>
  BY DEF CheckRoom
<1>4. r \in Rooms /\ creator[r] = th[t].sender
  BY <1>1, <1>2
<1>5. CASE /\ cache' = [cache EXCEPT ![Key(th[t].channel, th[t].receiver)] = r]
           /\ th' = [th EXCEPT ![t].pc = "read_creator", ![t].room = r, ![t].todo = {}]
  <2> DEFINE s == [th[t] EXCEPT !.pc = "read_creator", !.room = r, !.todo = {}]
  <2>1. s \in Thread /\ SenderFits(s, creator)
    BY <1>1, <1>4, GoesWithRoom DEF ExistingPcs
  <2>2. th' = [th EXCEPT ![t] = s]
    BY <1>5
  <2>3. DataTypes'
    BY <1>3, <1>4, <1>5 DEF IInv, DataTypes, roomVars
  <2>4. creator[r] \in Ends[th[t].channel] \ {Account[th[t].receiver]}
    BY <1>1, <1>4
  <2>5. CacheIsTheSenders'
    <3> SUFFICES ASSUME NEW c \in Channels, NEW h \in Humans, cache'[<<c, h>>] # None
                 PROVE  creator[cache'[<<c, h>>]] \in Ends[c] \ {Account[h]}
      BY <1>3 DEF CacheIsTheSenders, roomVars
    <3>1. <<c, h>> \in Keys /\ cache \in [Keys -> Rooms \cup {None}]
      BY DEF Keys, IInv, DataTypes
    <3>2. CASE <<c, h>> = <<th[t].channel, th[t].receiver>>
      <4>1. cache'[<<c, h>>] = r
        BY <1>5, <3>1, <3>2 DEF Key
      <4>2. c = th[t].channel /\ h = th[t].receiver
        BY <3>2
      <4>3. QED
        BY <2>4, <4>1, <4>2
    <3>3. CASE <<c, h>> # <<th[t].channel, th[t].receiver>>
      <4>1. cache'[<<c, h>>] = cache[<<c, h>>]
        BY <1>5, <3>1, <3>3 DEF Key
      <4>2. QED
        BY <4>1 DEF IInv, CacheIsTheSenders
    <3>4. QED
      BY <3>2, <3>3
  <2>6. OnlyTheCreator' /\ CreatorsStay /\ creator' = creator
    BY <1>3 DEF IInv, OnlyTheCreator, CreatorsStay, roomVars
  <2>7. QED
    BY <2>1, <2>2, <2>3, <2>5, <2>6, ThreadReplaced, IInvFromParts DEF DataInv
<1>6. CASE /\ th' = [th EXCEPT ![t].todo = @ \ {r},
                               ![t].pc = IF th[t].todo = {r} THEN "dm_list" ELSE "check_room"]
           /\ UNCHANGED cache
  <2>0. Quiet
    BY <1>3, <1>6 DEF Quiet, IInv, DataTypes
  <2>1. DataInv' /\ CreatorsStay /\ creator' = creator
    BY <2>0, QuietSafe DEF Quiet, roomVars
  <2>2. CASE th[t].todo = {r}
    <3> DEFINE s == [th[t] EXCEPT !.pc = "dm_list", !.todo = {}]
    <3>1. s \in Thread /\ SenderFits(s, creator)
      BY <1>1, GoesRoomless DEF LookupPcs
    <3>2. th' = [th EXCEPT ![t] = [th[t] EXCEPT !.todo = {}, !.pc = "dm_list"]]
      BY <1>6, <2>2
    <3>3. [th[t] EXCEPT !.todo = {}, !.pc = "dm_list"] = s
      BY <1>1 DEF ThreadRecord
    <3>4. QED
      BY <2>1, <3>1, <3>2, <3>3, ThreadReplaced, IInvFromParts
  <2>3. CASE th[t].todo # {r}
    <3> DEFINE rooms == th[t].todo \ {r}
               s == [th[t] EXCEPT !.pc = "check_room", !.todo = rooms]
    <3>1. rooms # {} /\ rooms \in SUBSET Rooms /\ \A q \in rooms : creator[q] = th[t].sender
      BY <1>1, <1>2, <2>3
    <3>2. s \in Thread /\ SenderFits(s, creator)
      BY <1>1, <3>1, LooksAtRooms DEF LookupPcs
    <3>3. th' = [th EXCEPT ![t] = [th[t] EXCEPT !.todo = rooms, !.pc = "check_room"]]
      BY <1>6, <2>3
    <3>4. [th[t] EXCEPT !.todo = rooms, !.pc = "check_room"] = s
      BY <1>1 DEF ThreadRecord
    <3>5. QED
      BY <2>1, <3>2, <3>3, <3>4, ThreadReplaced, IInvFromParts
  <2>4. QED
    BY <2>2, <2>3
<1>7. QED
  BY <1>2, <1>5, <1>6

-----------------------------------------------------------------------------

\* The steps that look at the room, and the receiver's invitation.
LEMMA LookingSafe ==
  ASSUME IInv, NEW t \in WebhookThreads, ReadCreator(t) \/ FindMember(t) \/ CheckReceiver(t)
  PROVE  IInv'
<1>1. th[t].pc \in ExistingPcs
  BY DEF ReadCreator, FindMember, CheckReceiver, Calls, At, ExistingPcs
<1>2. Quiet
  BY DEF ReadCreator, FindMember, CheckReceiver, Quiet, IInv, DataTypes
<1>3. \/ Return(t)
      \/ \E pc \in ExistingPcs \cup {"invite_first", "invite_bot", "send"} : Goto(t, pc)
  BY DEF ReadCreator, FindMember, CheckReceiver, ExistingPcs
<1>4. QED
  BY <1>1, <1>2, <1>3, ReturnSafe, GotoWithRoomSafe

LEMMA InviteReceiverSafe ==
  ASSUME IInv, NEW t \in WebhookThreads, InviteReceiver(t)
  PROVE  IInv'
<1> DEFINE s == [th[t] EXCEPT !.pc = "send", !.room = th[t].room, !.todo = {}]
<1>1. /\ th[t].pc = "invite_receiver"
      /\ th[t].pc # "idle"
      /\ th[t] \in ThreadRecord
      /\ th[t].receiver \in Humans
      /\ th[t].room \in Rooms
      /\ th[t].todo = {}
      /\ creator[th[t].room] = th[t].sender
  BY BusyThread, RoomThread DEF InviteReceiver, Calls, At, ExistingPcs
<1>2. [th[t] EXCEPT !.pc = "send"] = s
  BY <1>1 DEF ThreadRecord
<1>3. s \in Thread /\ SenderFits(s, creator)
  BY <1>1, GoesWithRoom
<1>4. Answered(t, s)
  BY <1>2 DEF InviteReceiver
<1>5. faults' \in 0..MaxFaults /\ (th' = [th EXCEPT ![t] = s] \/ Return(t))
  BY <1>4, AnsweredFits
<1>6. DataInv' /\ CreatorsStay
  <2>1. th[t].receiver \in Users /\ th[t].receiver \notin Virtuals /\ member' = Invite(member, th[t].room, th[t].receiver)
    BY <1>1, UsersAreDistinct DEF InviteReceiver, Users, IInv, DataTypes
  <2>2. /\ UNCHANGED <<creator, registered, cache, sent, requests>>
        /\ invited' \subseteq Rooms \X Humans
        /\ readable' \subseteq Rooms
        /\ botEvent' \in [Rooms -> {"none", "invite", "join"}]
    BY <1>1 DEF InviteReceiver, IInv, DataTypes
  <2>3. QED
    BY <1>1, <1>5, <2>1, <2>2, MembersSafe
<1>7. creator' = creator
  BY DEF InviteReceiver
<1>8. QED
  BY <1>3, <1>5, <1>6, <1>7, ThreadReplaced, IInvFromParts

LEMMA InviteFirstSafe ==
  ASSUME IInv, NEW t \in WebhookThreads, InviteFirst(t)
  PROVE  IInv'
<1> DEFINE s == [th[t] EXCEPT !.pc = "invite_bot", !.room = th[t].room, !.todo = {}]
<1>1. /\ th[t].pc = "invite_first"
      /\ th[t].pc # "idle"
      /\ th[t] \in ThreadRecord
      /\ th[t].receiver \in Humans
      /\ th[t].room \in Rooms
      /\ th[t].todo = {}
      /\ creator[th[t].room] = th[t].sender
  BY BusyThread, RoomThread DEF InviteFirst, Calls, At, ExistingPcs
<1>2. [th[t] EXCEPT !.pc = "invite_bot"] = s
  BY <1>1 DEF ThreadRecord
<1>3. s \in Thread /\ SenderFits(s, creator)
  BY <1>1, GoesWithRoom
<1>4. Answered(t, s)
  BY <1>2 DEF InviteFirst
<1>5. faults' \in 0..MaxFaults /\ (th' = [th EXCEPT ![t] = s] \/ Return(t))
  BY <1>4, AnsweredFits
<1>6. DataInv' /\ CreatorsStay
  <2>1. th[t].receiver \in Users /\ th[t].receiver \notin Virtuals /\ member' = Invite(member, th[t].room, th[t].receiver)
    BY <1>1, UsersAreDistinct DEF InviteFirst, Users, IInv, DataTypes
  <2>2. /\ UNCHANGED <<creator, registered, cache, sent, requests>>
        /\ invited' \subseteq Rooms \X Humans
        /\ readable' \subseteq Rooms
        /\ botEvent' \in [Rooms -> {"none", "invite", "join"}]
    BY <1>1 DEF InviteFirst, IInv, DataTypes
  <2>3. QED
    BY <1>1, <1>5, <2>1, <2>2, MembersSafe
<1>7. creator' = creator
  BY DEF InviteFirst
<1>8. QED
  BY <1>3, <1>5, <1>6, <1>7, ThreadReplaced, IInvFromParts

LEMMA InviteBotSafe ==
  ASSUME IInv, NEW t \in WebhookThreads, InviteBot(t)
  PROVE  IInv'
<1> DEFINE s == [th[t] EXCEPT !.pc = "send", !.room = th[t].room, !.todo = {}]
<1>1. /\ th[t].pc = "invite_bot"
      /\ th[t].pc # "idle"
      /\ th[t] \in ThreadRecord
      /\ th[t].receiver \in Humans
      /\ th[t].room \in Rooms
      /\ th[t].todo = {}
      /\ creator[th[t].room] = th[t].sender
  BY BusyThread, RoomThread DEF InviteBot, Calls, At, ExistingPcs
<1>2. [th[t] EXCEPT !.pc = "send"] = s
  BY <1>1 DEF ThreadRecord
<1>3. s \in Thread /\ SenderFits(s, creator)
  BY <1>1, GoesWithRoom
<1>4. Answered(t, s)
  BY <1>2 DEF InviteBot
<1>5. faults' \in 0..MaxFaults /\ (th' = [th EXCEPT ![t] = s] \/ Return(t))
  BY <1>4, AnsweredFits
<1>6. DataInv' /\ CreatorsStay
  <2>1. Bot \in Users /\ Bot \notin Virtuals /\ member' = Invite(member, th[t].room, Bot)
    BY <1>1, UsersAreDistinct DEF InviteBot, Users, IInv, DataTypes
  <2>2. /\ UNCHANGED <<creator, registered, cache, sent, requests>>
        /\ invited' \subseteq Rooms \X Humans
        /\ readable' \subseteq Rooms
        /\ botEvent' \in [Rooms -> {"none", "invite", "join"}]
    BY <1>1 DEF InviteBot, IInv, DataTypes
  <2>3. QED
    BY <1>1, <1>5, <2>1, <2>2, MembersSafe
<1>7. creator' = creator
  BY DEF InviteBot
<1>8. QED
  BY <1>3, <1>5, <1>6, <1>7, ThreadReplaced, IInvFromParts

LEMMA DmListSafe ==
  ASSUME IInv, NEW t \in WebhookThreads, DmList(t)
  PROVE  IInv'
<1>1. th[t].pc = "dm_list" /\ (Goto(t, "create") \/ Goto(t, "register"))
  BY DEF DmList, Calls, At
<1>2. Quiet
  BY DEF DmList, Quiet, IInv, DataTypes
<1>3. QED
  BY <1>1, <1>2, GotoRoomlessSafe

LEMMA RegisterUserSafe ==
  ASSUME IInv, NEW t \in WebhookThreads, RegisterUser(t)
  PROVE  IInv'
<1> DEFINE s == [th[t] EXCEPT !.pc = "create", !.todo = {}]
<1>1. /\ th[t].pc = "register"
      /\ th[t] \in ThreadRecord
      /\ th[t].sender \in Virtuals
      /\ th[t].todo = {}
  BY BusyThread DEF RegisterUser, Calls, At
<1>2. [th[t] EXCEPT !.pc = "create"] = s
  BY <1>1 DEF ThreadRecord
<1>3. s \in Thread /\ SenderFits(s, creator)
  BY <1>1, GoesRoomless
<1>4. faults' \in 0..MaxFaults /\ (th' = [th EXCEPT ![t] = s] \/ Return(t))
  BY <1>2, AnsweredFits DEF RegisterUser
<1>5. DataTypes'
  BY <1>1, <1>4 DEF RegisterUser, IInv, DataTypes, roomVars
<1>6. OnlyTheCreator' /\ CacheIsTheSenders' /\ CreatorsStay /\ creator' = creator
  BY DEF RegisterUser, IInv, OnlyTheCreator, CacheIsTheSenders, CreatorsStay, roomVars
<1>7. QED
  BY <1>3, <1>4, <1>5, <1>6, ThreadReplaced, IInvFromParts DEF DataInv

LEMMA CreateRoomSafe ==
  ASSUME IInv, NEW t \in WebhookThreads, CreateRoom(t)
  PROVE  IInv'
<1>1. /\ th[t].pc = "create"
      /\ th[t].pc # "idle"
      /\ th[t] \in ThreadRecord
      /\ th[t].sender \in Virtuals
      /\ th[t].todo = {}
  BY BusyThread DEF CreateRoom, Calls, At
<1>2. PICK r \in Rooms :
        /\ creator[r] = None
        /\ creator' = [creator EXCEPT ![r] = th[t].sender]
        /\ member' = Join(member, r, th[t].sender)
        /\ Answered(t, [th[t] EXCEPT !.pc = "invite_first", !.room = r])
  BY DEF CreateRoom
<1> DEFINE s == [th[t] EXCEPT !.pc = "invite_first", !.room = r, !.todo = {}]
<1>3. [th[t] EXCEPT !.pc = "invite_first", !.room = r] = s
  BY <1>1 DEF ThreadRecord
<1>4. creator'[r] = th[t].sender
  BY <1>2 DEF IInv, DataTypes
<1>5. s \in Thread /\ SenderFits(s, creator')
  BY <1>1, <1>4, GoesWithRoom
<1>6. faults' \in 0..MaxFaults /\ (th' = [th EXCEPT ![t] = s] \/ Return(t))
  BY <1>2, <1>3, AnsweredFits
<1>7. CreatorsStay
  BY <1>2 DEF CreatorsStay, IInv, DataTypes
<1>8. DataTypes'
  BY <1>1, <1>2, <1>6, MemberTypes DEF CreateRoom, IInv, DataTypes
<1>9. OnlyTheCreator'
  <2> SUFFICES ASSUME NEW q \in Rooms, NEW v \in Virtuals, member'[q][v] # "out"
               PROVE  creator'[q] = v
    BY DEF OnlyTheCreator
  <2>1. /\ v \in Users
        /\ th[t].sender \in Users
        /\ member[q] \in [Users -> Membership]
        /\ member[r] \in [Users -> Membership]
        /\ member \in [Rooms -> [Users -> Membership]]
        /\ creator \in [Rooms -> Virtuals \cup {None}]
    BY <1>1 DEF IInv, DataTypes, Users
  <2>2. CASE q = r /\ v = th[t].sender
    BY <1>4, <2>2
  <2>3. CASE q # r \/ v # th[t].sender
    <3>1. member'[q][v] = member[q][v]
      BY <1>2, <2>1, <2>3 DEF Join
    <3>2. creator[q] = v
      BY <3>1 DEF IInv, OnlyTheCreator
    <3>3. creator[q] # None
      BY <3>2, DirectMessagesFit DEF Users
    <3>4. QED
      BY <1>7, <3>2, <3>3 DEF CreatorsStay
  <2>4. QED
    BY <2>2, <2>3
<1>10. CacheIsTheSenders'
  <2> SUFFICES ASSUME NEW c \in Channels, NEW h \in Humans, cache[<<c, h>>] # None
               PROVE  creator'[cache[<<c, h>>]] \in Ends[c] \ {Account[h]}
    BY DEF CacheIsTheSenders, CreateRoom
  <2>1. cache[<<c, h>>] \in Rooms
    BY DEF IInv, DataTypes, Keys
  <2>2. creator[cache[<<c, h>>]] \in Ends[c] \ {Account[h]}
    BY DEF IInv, CacheIsTheSenders
  <2>3. creator[cache[<<c, h>>]] # None
    BY <2>2, DirectMessagesFit DEF Users
  <2>4. QED
    BY <1>7, <2>1, <2>2, <2>3 DEF CreatorsStay
<1>11. QED
  BY <1>5, <1>6, <1>7, <1>8, <1>9, <1>10, ThreadReplaced, IInvFromParts DEF DataInv

LEMMA SendSafe ==
  ASSUME IInv, NEW t \in WebhookThreads, Send(t)
  PROVE  IInv'
<1> DEFINE m == [channel |-> th[t].channel, receiver |-> th[t].receiver, room |-> th[t].room,
                 foreign |-> {h \in Humans \ {th[t].receiver} : member[th[t].room][h] # "out"}]
<1>1. /\ th[t].channel \in Channels
      /\ th[t].receiver \in Humans
      /\ th[t].room \in Rooms
  BY BusyThread, RoomThread DEF Send, Calls, At
<1>2. m \in Message
  BY <1>1 DEF Message
<1>3. DataTypes'
  BY <1>2 DEF Send, IInv, DataTypes, roomVars
<1>4. OnlyTheCreator' /\ CacheIsTheSenders' /\ CreatorsStay
  BY DEF Send, IInv, OnlyTheCreator, CacheIsTheSenders, CreatorsStay, roomVars
<1>5. Return(t)
  BY DEF Send
<1>6. QED
  BY <1>3, <1>4, <1>5, IdleFits, ThreadReplaced, IInvFromParts DEF DataInv

\* A step of a handler.
LEMMA StepSafe ==
  ASSUME IInv, NEW t \in WebhookThreads, Step(t)
  PROVE  IInv'
<1>1. CASE FindingRoom(t)
  BY <1>1, FindUserSafe, JoinedRoomsSafe, CheckRoomSafe DEF FindingRoom
<1>2. CASE InvitingReceiver(t)
  BY <1>2, LookingSafe, InviteReceiverSafe DEF InvitingReceiver
<1>3. CASE Creating(t)
  BY <1>3, DmListSafe, RegisterUserSafe, CreateRoomSafe, InviteFirstSafe, InviteBotSafe DEF Creating
<1>4. CASE Send(t)
  BY <1>4, SendSafe
<1>5. CASE Refused(t)
  <2>1. Quiet /\ Return(t)
    BY <1>5 DEF Refused, Quiet, IInv, DataTypes
  <2>2. QED
    BY <2>1, ReturnSafe
<1>6. QED
  BY <1>1, <1>2, <1>3, <1>4, <1>5 DEF Step

\* The bot and the humans join and leave.
LEMMA RoomEventSafe ==
  ASSUME IInv, NEW r \in Rooms,
         \/ BotHandled(r) \/ BotEventFails(r) \/ BotForgets(r)
         \/ \E h \in Humans : UserJoins(h, r) \/ UserLeaves(h, r)
  PROVE  IInv'
<1>0. /\ Bot \in Users /\ Bot \notin Virtuals
      /\ \A h \in Humans : h \in Users /\ h \notin Virtuals
  BY UsersAreDistinct DEF Users
<1>1. UNCHANGED <<creator, registered, cache, sent, requests, th>>
  BY DEF BotHandled, BotInvited, BotJoined, BotEventFails, BotForgets, UserJoins, UserLeaves
<1>2. /\ invited' \subseteq Rooms \X Humans
      /\ readable' \subseteq Rooms
      /\ botEvent' \in [Rooms -> {"none", "invite", "join"}]
      /\ faults' \in 0..MaxFaults
  <2>1. /\ invited' = invited
        /\ readable' \in {readable, readable \cup {r}, readable \ {r}}
        /\ botEvent' \in {botEvent, [botEvent EXCEPT ![r] = "join"], [botEvent EXCEPT ![r] = "none"]}
        /\ faults' = faults \/ (faults < MaxFaults /\ faults' = faults + 1)
    BY DEF BotHandled, BotInvited, BotJoined, BotEventFails, BotForgets, UserJoins, UserLeaves
  <2>2. /\ invited \subseteq Rooms \X Humans
        /\ readable \subseteq Rooms
        /\ botEvent \in [Rooms -> {"none", "invite", "join"}]
        /\ faults \in 0..MaxFaults
    BY DEF IInv, DataTypes
  <2>3. faults' \in 0..MaxFaults
    BY <2>1, <2>2, DirectMessagesFit
  <2>4. QED
    BY <2>1, <2>2, <2>3
<1>3. DataInv' /\ CreatorsStay
  <2>1. CASE BotEventFails(r)
    <3>1. DataTypes'
      BY <1>1, <1>2, <2>1 DEF BotEventFails, IInv, DataTypes
    <3>2. QED
      BY <2>1, <3>1 DEF BotEventFails, IInv, DataInv, OnlyTheCreator, CacheIsTheSenders, CreatorsStay
  <2>2. CASE ~BotEventFails(r)
    <3>1. \E u \in Users :
            \/ u \notin Virtuals /\ member' = Join(member, r, u)
            \/ member' = Leave(member, r, u)
      BY <1>0, <2>2 DEF BotHandled, BotInvited, BotJoined, BotForgets, UserJoins, UserLeaves
    <3>2. QED
      BY <1>1, <1>2, <3>1, MembersSafe
  <2>3. QED
    BY <2>1, <2>2
<1>4. QED
  BY <1>1, <1>3, ThreadsStay, IInvFromParts

LEMMA CrashSafe ==
  ASSUME IInv, Crash
  PROVE  IInv'
<1>1. DataTypes'
  BY DirectMessagesFit DEF Crash, IInv, DataTypes, roomVars
<1>2. OnlyTheCreator'
  BY DEF Crash, IInv, OnlyTheCreator, roomVars
<1>3. CacheIsTheSenders'
  BY DEF Crash, CacheIsTheSenders, Keys
<1>4. ThreadsFit'
  BY IdleFits DEF Crash, ThreadsFit
<1>5. QED
  BY <1>1, <1>2, <1>3, <1>4, IInvFromParts DEF DataInv

LEMMA IInvStep == IInv /\ [Next]_vars => IInv'
<1> SUFFICES ASSUME IInv, [Next]_vars PROVE IInv'
  OBVIOUS
<1>1. CASE UNCHANGED vars
  BY <1>1 DEF vars, roomVars, IInv, DataTypes, OnlyTheCreator, CacheIsTheSenders, ThreadsFit
<1>2. CASE Next
  BY <1>2, WebhookSafe, StepSafe, CallFailsSafe, RoomEventSafe, CrashSafe DEF Next
<1>3. QED
  BY <1>1, <1>2

LEMMA IInvInit == Init => IInv
<1> SUFFICES ASSUME Init PROVE IInv
  OBVIOUS
<1>1. DataTypes
  BY DirectMessagesFit DEF Init, DataTypes, NoMembers, Membership, Message
<1>2. OnlyTheCreator
  BY DEF Init, OnlyTheCreator, NoMembers, Users
<1>3. CacheIsTheSenders
  BY DEF Init, CacheIsTheSenders, Keys
<1>4. ThreadsFit
  BY IdleFits DEF Init, ThreadsFit
<1>5. QED
  BY <1>1, <1>2, <1>3, <1>4 DEF IInv

-----------------------------------------------------------------------------
(***************************************************************************)
(* Privacy, if every sender has one receiver on Matrix.                    *)
(***************************************************************************)

\* Only somebody the creator of a room writes to is invited to it.
InvitedAreWrittenTo ==
  \A r \in Rooms, h \in Humans :
    <<r, h>> \in invited => creator[r] \in Virtuals /\ Writes(creator[r], h)

\* Nobody is in a room uninvited, and the bot is not before somebody was invited.
MembersAreInvited ==
  /\ \A r \in Rooms, h \in Humans : member[r][h] # "out" => <<r, h>> \in invited
  /\ \A r \in Rooms : member[r][Bot] # "out" \/ botEvent[r] # "none" =>
       \E h \in Humans : <<r, h>> \in invited

\* A thread that is about to send has a room that the receiver was invited to.
SendersInvited ==
  \A t \in WebhookThreads :
    th[t].pc \in {"invite_bot", "send"} => <<th[t].room, th[t].receiver>> \in invited

SentPrivately ==
  \A m \in sent : <<m.room, m.receiver>> \in invited /\ m.foreign = {}

PInv == IInv /\ InvitedAreWrittenTo /\ MembersAreInvited /\ SendersInvited /\ SentPrivately

\* The receiver of a busy thread is the only one who can be in a room of its sender.
LEMMA OnlyReceiver ==
  ASSUME OneReceiver, PInv, NEW t \in WebhookThreads, th[t].pc # "idle",
         NEW r \in Rooms, creator[r] = th[t].sender, NEW h \in Humans, <<r, h>> \in invited
  PROVE  h = th[t].receiver
<1>1. /\ th[t].channel \in Channels
      /\ th[t].sender \in Virtuals
      /\ th[t].receiver \in Humans
      /\ th[t].sender \in Ends[th[t].channel]
      /\ Account[th[t].receiver] \in Ends[th[t].channel] \ {th[t].sender}
  BY BusyThread DEF PInv
<1>2. Writes(th[t].sender, th[t].receiver)
  BY <1>1 DEF Writes
<1>3. Writes(th[t].sender, h)
  BY DEF PInv, InvitedAreWrittenTo
<1>4. QED
  BY <1>1, <1>2, <1>3 DEF OneReceiver

\* A step that leaves the rooms and what was sent alone, and sends no thread to send uninvited.
LEMMA PrivateQuiet ==
  ASSUME PInv, UNCHANGED <<creator, member, invited, botEvent, sent>>,
         NEW t \in WebhookThreads, NEW s, th' = [th EXCEPT ![t] = s],
         s.pc \in {"invite_bot", "send"} => <<s.room, s.receiver>> \in invited
  PROVE  InvitedAreWrittenTo' /\ MembersAreInvited' /\ SendersInvited' /\ SentPrivately'
<1>1. InvitedAreWrittenTo' /\ MembersAreInvited' /\ SentPrivately'
  BY DEF PInv, InvitedAreWrittenTo, MembersAreInvited, SentPrivately
<1>2. SendersInvited'
  BY DEF PInv, IInv, ThreadsFit, SendersInvited
<1>3. QED
  BY <1>1, <1>2

\* The steps that leave the rooms alone.
LEMMA FindingPrivate ==
  ASSUME PInv, NEW t \in WebhookThreads,
         FindingRoom(t) \/ ReadCreator(t) \/ DmList(t) \/ RegisterUser(t) \/ Refused(t) \/ CallFails(t)
  PROVE  InvitedAreWrittenTo' /\ MembersAreInvited' /\ SendersInvited' /\ SentPrivately'
<1>1. UNCHANGED <<creator, member, invited, botEvent, sent>>
  BY DEF FindingRoom, FindUser, JoinedRooms, CheckRoom, ReadCreator, DmList, RegisterUser, Refused,
     CallFails, roomVars
<1>2. th \in [WebhookThreads -> Thread] /\ th[t] \in Thread /\ th[t] \in ThreadRecord
  BY DEF PInv, IInv, ThreadsFit, Thread
<1>3. \E s : th' = [th EXCEPT ![t] = s] /\ s.pc \notin {"invite_bot", "send"}
  <2>1. CASE Return(t)
    <3>1. Idle.pc \notin {"invite_bot", "send"}
      BY DEF Idle
    <3>2. QED
      BY <2>1, <3>1 DEF Return
  <2>2. CASE \E pc \in Pcs \ {"invite_bot", "send"} : Goto(t, pc)
    <3>1. PICK pc \in Pcs \ {"invite_bot", "send"} : th' = [th EXCEPT ![t] = [th[t] EXCEPT !.pc = pc]]
      BY <2>2 DEF Goto
    <3>2. [th[t] EXCEPT !.pc = pc].pc = pc
      BY <1>2 DEF ThreadRecord
    <3>3. QED
      BY <3>1, <3>2
  <2>3. CASE FindUser(t)
    <3>1. CASE \E pc \in {"dm_list", "joined_rooms"} : Goto(t, pc)
      BY <2>2, <3>1 DEF Pcs, LookupPcs, CreatePcs
    <3>2. CASE th' = [th EXCEPT ![t].pc = "read_creator",
                                ![t].room = cache[Key(th[t].channel, th[t].receiver)]]
      <4> DEFINE s == [th[t] EXCEPT !.pc = "read_creator",
                                    !.room = cache[Key(th[t].channel, th[t].receiver)]]
      <4>1. th' = [th EXCEPT ![t] = s]
        BY <3>2
      <4>2. s.pc = "read_creator"
        BY <1>2 DEF ThreadRecord
      <4>3. QED
        BY <4>1, <4>2
    <3>3. QED
      BY <2>3, <3>1, <3>2 DEF FindUser
  <2>4. CASE JoinedRooms(t)
    <3> DEFINE rooms == {r \in Rooms : member[r][th[t].sender] = "join"}
               s == [th[t] EXCEPT !.pc = "check_room", !.todo = rooms]
    <3>1. CASE Goto(t, "dm_list")
      BY <2>2, <3>1 DEF Pcs, CreatePcs
    <3>2. CASE th' = [th EXCEPT ![t].pc = "check_room", ![t].todo = rooms]
      <4>1. th' = [th EXCEPT ![t] = s]
        BY <3>2
      <4>2. s.pc = "check_room"
        BY <1>2 DEF ThreadRecord
      <4>3. QED
        BY <4>1, <4>2
    <3>3. QED
      BY <2>4, <3>1, <3>2 DEF JoinedRooms
  <2>5. CASE CheckRoom(t)
    <3>1. PICK r \in th[t].todo :
            \/ th' = [th EXCEPT ![t].pc = "read_creator", ![t].room = r, ![t].todo = {}]
            \/ th' = [th EXCEPT ![t].todo = @ \ {r},
                                ![t].pc = IF th[t].todo = {r} THEN "dm_list" ELSE "check_room"]
      BY <2>5 DEF CheckRoom
    <3>2. CASE th' = [th EXCEPT ![t].pc = "read_creator", ![t].room = r, ![t].todo = {}]
      <4>1. [th[t] EXCEPT !.pc = "read_creator", !.room = r, !.todo = {}].pc = "read_creator"
        BY <1>2 DEF ThreadRecord
      <4>2. QED
        BY <3>2, <4>1
    <3>3. CASE th' = [th EXCEPT ![t].todo = @ \ {r},
                               ![t].pc = IF th[t].todo = {r} THEN "dm_list" ELSE "check_room"]
      <4>1. PICK pc \in {"dm_list", "check_room"} :
              th' = [th EXCEPT ![t] = [th[t] EXCEPT !.todo = th[t].todo \ {r}, !.pc = pc]]
        BY <3>3
      <4>2. [th[t] EXCEPT !.todo = th[t].todo \ {r}, !.pc = pc].pc = pc
        BY <1>2 DEF ThreadRecord
      <4>3. QED
        BY <4>1, <4>2
    <3>4. QED
      BY <3>1, <3>2, <3>3
  <2>6. CASE RegisterUser(t)
    <3>1. Return(t) \/ th' = [th EXCEPT ![t] = [th[t] EXCEPT !.pc = "create"]]
      BY <2>6 DEF RegisterUser, Answered
    <3>2. [th[t] EXCEPT !.pc = "create"].pc = "create"
      BY <1>2 DEF ThreadRecord
    <3>3. QED
      BY <2>1, <3>1, <3>2
  <2>7. QED
    BY <2>1, <2>2, <2>3, <2>4, <2>5, <2>6
    DEF FindingRoom, ReadCreator, DmList, Refused, CallFails, Pcs, ExistingPcs, CreatePcs
<1>4. QED
  BY <1>1, <1>3, PrivateQuiet

\* Invitations stay, and t goes on to something it may do.
LEMMA SendersStay ==
  ASSUME PInv, invited \subseteq invited', NEW t \in WebhookThreads, NEW s,
         th' = [th EXCEPT ![t] = s] \/ Return(t),
         s.pc \in {"invite_bot", "send"} => <<s.room, s.receiver>> \in invited'
  PROVE  SendersInvited'
<1>1. Idle.pc = "idle"
  BY DEF Idle
<1>2. PICK q : th' = [th EXCEPT ![t] = q] /\ (q.pc \in {"invite_bot", "send"} => <<q.room, q.receiver>> \in invited')
  BY <1>1 DEF Return
<1>3. QED
  BY <1>2 DEF PInv, IInv, ThreadsFit, SendersInvited

LEMMA WebhookPrivate ==
  ASSUME PInv, NEW t \in WebhookThreads, NEW c \in Channels, NEW v \in Virtuals, NEW h \in Humans,
         Webhook(t, c, v, h)
  PROVE  InvitedAreWrittenTo' /\ MembersAreInvited' /\ SendersInvited' /\ SentPrivately'
<1> DEFINE s == [Idle EXCEPT !.pc = "find_user", !.channel = c, !.sender = v, !.receiver = h]
<1>1. th' = [th EXCEPT ![t] = s] /\ UNCHANGED <<creator, member, invited, botEvent, sent>>
  BY DEF Webhook, roomVars
<1>2. s.pc = "find_user"
  BY DEF Idle
<1>3. QED
  BY <1>1, <1>2, PrivateQuiet

\* Somebody who is not virtual is in the room: then the receiver was invited.
LEMMA SomebodyInvited ==
  ASSUME OneReceiver, PInv, NEW t \in WebhookThreads, th[t].pc # "idle",
         NEW r \in Rooms, creator[r] = th[t].sender,
         NEW u \in Users \ Virtuals, member[r][u] # "out"
  PROVE  <<r, th[t].receiver>> \in invited
<1>1. PICK h \in Humans : <<r, h>> \in invited
  BY DEF PInv, MembersAreInvited, Users
<1>2. QED
  BY <1>1, OnlyReceiver

\* The steps that look at the members of the room.
LEMMA LookingPrivate ==
  ASSUME OneReceiver, PInv, NEW t \in WebhookThreads, FindMember(t) \/ CheckReceiver(t)
  PROVE  InvitedAreWrittenTo' /\ MembersAreInvited' /\ SendersInvited' /\ SentPrivately'
<1>1. /\ th[t].pc # "idle"
      /\ th[t] \in ThreadRecord
      /\ th[t].receiver \in Humans
      /\ th[t].room \in Rooms
      /\ creator[th[t].room] = th[t].sender
  <2>1. th[t].pc # "idle" /\ th[t].pc \in ExistingPcs
    BY DEF FindMember, CheckReceiver, Calls, At, ExistingPcs
  <2>2. QED
    BY <2>1, BusyThread, RoomThread DEF PInv
<1>2. UNCHANGED <<creator, member, invited, botEvent, sent>>
  BY DEF FindMember, CheckReceiver, roomVars
<1>3. \/ Return(t)
      \/ Goto(t, "check_receiver") \/ Goto(t, "invite_receiver")
      \/ Goto(t, "send") /\ ~(Joined(member, th[t].room) \subseteq Virtuals)
      \/ Goto(t, "send") /\ th[t].receiver \in Joined(member, th[t].room)
  BY DEF FindMember, CheckReceiver
<1>4. CASE Return(t)
  <2>1. Idle.pc = "idle"
    BY DEF Idle
  <2>2. QED
    BY <1>2, <1>4, <2>1, PrivateQuiet DEF Return
<1>5. ASSUME NEW pc \in {"check_receiver", "invite_receiver"}, Goto(t, pc)
      PROVE  InvitedAreWrittenTo' /\ MembersAreInvited' /\ SendersInvited' /\ SentPrivately'
  <2> DEFINE s == [th[t] EXCEPT !.pc = pc]
  <2>1. th' = [th EXCEPT ![t] = s] /\ s.pc = pc
    BY <1>1, <1>5 DEF Goto, ThreadRecord
  <2>2. QED
    BY <1>2, <2>1, PrivateQuiet
<1>6. ASSUME Goto(t, "send"), <<th[t].room, th[t].receiver>> \in invited
      PROVE  InvitedAreWrittenTo' /\ MembersAreInvited' /\ SendersInvited' /\ SentPrivately'
  <2> DEFINE s == [th[t] EXCEPT !.pc = "send"]
  <2>1. th' = [th EXCEPT ![t] = s] /\ s.room = th[t].room /\ s.receiver = th[t].receiver
    BY <1>1, <1>6 DEF Goto, ThreadRecord
  <2>2. QED
    BY <1>2, <1>6, <2>1, PrivateQuiet
<1>7. ASSUME NEW u \in Users \ Virtuals, u \in Joined(member, th[t].room)
      PROVE  <<th[t].room, th[t].receiver>> \in invited
  <2>1. member[th[t].room][u] # "out"
    BY <1>7 DEF Joined
  <2>2. QED
    BY <1>1, <2>1, SomebodyInvited
<1>8. th[t].receiver \in Users \ Virtuals /\ Joined(member, th[t].room) \subseteq Users
  BY <1>1, UsersAreDistinct DEF Users, Joined
<1>9. QED
  BY <1>3, <1>4, <1>5, <1>6, <1>7, <1>8

\* The receiver is invited into a room of the sender.
LEMMA ReceiverInvited ==
  ASSUME PInv, NEW t \in WebhookThreads, InviteReceiver(t) \/ InviteFirst(t)
  PROVE  InvitedAreWrittenTo' /\ MembersAreInvited' /\ SendersInvited' /\ SentPrivately'
<1> DEFINE r == th[t].room
           g == th[t].receiver
<1>1. /\ th[t].pc # "idle"
      /\ th[t] \in ThreadRecord
      /\ g \in Humans
      /\ r \in Rooms
      /\ th[t].sender \in Virtuals
      /\ creator[r] = th[t].sender
      /\ Writes(th[t].sender, g)
  <2>1. th[t].pc # "idle" /\ th[t].pc \in ExistingPcs \cup {"invite_first"}
    BY DEF InviteReceiver, InviteFirst, Calls, At, ExistingPcs
  <2>2. QED
    BY <2>1, BusyThread, RoomThread DEF PInv, Writes
<1>2. /\ UNCHANGED <<creator, botEvent, sent>>
      /\ member' = Invite(member, r, g)
      /\ invited' = invited \cup {<<r, g>>}
  BY DEF InviteReceiver, InviteFirst
<1>3. InvitedAreWrittenTo'
  BY <1>1, <1>2 DEF PInv, InvitedAreWrittenTo
<1>4. MembersAreInvited'
  <2>1. ASSUME NEW q \in Rooms, NEW u \in Users, <<q, u>> # <<r, g>>
        PROVE  member'[q][u] = member[q][u]
    BY <1>1, <1>2, <2>1 DEF PInv, IInv, DataTypes, Invite
  <2>2. Bot \in Users /\ Bot # g /\ Humans \subseteq Users
    BY <1>1, UsersAreDistinct DEF Users
  <2>3. \A q \in Rooms, h \in Humans : member'[q][h] # "out" => <<q, h>> \in invited'
    BY <1>2, <2>1, <2>2 DEF PInv, MembersAreInvited
  <2>4. \A q \in Rooms : member'[q][Bot] # "out" \/ botEvent'[q] # "none" =>
          \E h \in Humans : <<q, h>> \in invited'
    BY <1>2, <2>1, <2>2 DEF PInv, MembersAreInvited
  <2>5. QED
    BY <2>3, <2>4 DEF MembersAreInvited
<1>5. SendersInvited'
  <2>1. PICK pc \in {"send", "invite_bot"} : Answered(t, [th[t] EXCEPT !.pc = pc])
    BY DEF InviteReceiver, InviteFirst
  <2> DEFINE s == [th[t] EXCEPT !.pc = pc]
  <2>2. s.room = r /\ s.receiver = g
    BY <1>1 DEF ThreadRecord
  <2>3. th' = [th EXCEPT ![t] = s] \/ Return(t)
    BY <2>1 DEF Answered
  <2>4. <<s.room, s.receiver>> \in invited' /\ invited \subseteq invited'
    BY <1>2, <2>2
  <2> HIDE DEF s
  <2>5. QED
    BY <2>3, <2>4, SendersStay
<1>6. SentPrivately'
  BY <1>2 DEF PInv, SentPrivately
<1>7. QED
  BY <1>3, <1>4, <1>5, <1>6

LEMMA InviteBotPrivate ==
  ASSUME PInv, NEW t \in WebhookThreads, InviteBot(t)
  PROVE  InvitedAreWrittenTo' /\ MembersAreInvited' /\ SendersInvited' /\ SentPrivately'
<1> DEFINE r == th[t].room
           s == [th[t] EXCEPT !.pc = "send"]
<1>1. /\ th[t].pc = "invite_bot"
      /\ th[t] \in ThreadRecord
      /\ th[t].receiver \in Humans
      /\ r \in Rooms
      /\ <<r, th[t].receiver>> \in invited
  BY BusyThread, RoomThread DEF PInv, SendersInvited, InviteBot, Calls, At
<1>2. /\ UNCHANGED <<creator, invited, sent>>
      /\ member' = Invite(member, r, Bot)
      /\ botEvent' = [botEvent EXCEPT ![r] = "invite"]
  BY DEF InviteBot
<1>3. InvitedAreWrittenTo' /\ SentPrivately'
  BY <1>2 DEF PInv, InvitedAreWrittenTo, SentPrivately
<1>4. MembersAreInvited'
  <2>1. ASSUME NEW q \in Rooms, NEW u \in Users, <<q, u>> # <<r, Bot>>
        PROVE  member'[q][u] = member[q][u]
    BY <1>1, <1>2, <2>1 DEF PInv, IInv, DataTypes, Invite
  <2>2. Bot \in Users /\ Bot \notin Humans /\ Humans \subseteq Users
    BY UsersAreDistinct DEF Users
  <2>3. \A q \in Rooms, h \in Humans : member'[q][h] # "out" => <<q, h>> \in invited'
    BY <1>2, <2>1, <2>2 DEF PInv, MembersAreInvited
  <2>4. \A q \in Rooms : q # r => botEvent'[q] = botEvent[q]
    BY <1>2 DEF PInv, IInv, DataTypes
  <2>5. \A q \in Rooms : member'[q][Bot] # "out" \/ botEvent'[q] # "none" =>
          \E h \in Humans : <<q, h>> \in invited'
    BY <1>1, <1>2, <2>1, <2>2, <2>4 DEF PInv, MembersAreInvited
  <2>6. QED
    BY <2>3, <2>5 DEF MembersAreInvited
<1>5. SendersInvited'
  <2>1. s.room = r /\ s.receiver = th[t].receiver
    BY <1>1 DEF ThreadRecord
  <2>2. th' = [th EXCEPT ![t] = s] \/ Return(t)
    BY DEF InviteBot, Answered
  <2>3. <<s.room, s.receiver>> \in invited' /\ invited \subseteq invited'
    BY <1>1, <1>2, <2>1
  <2> HIDE DEF s
  <2>4. QED
    BY <2>2, <2>3, SendersStay
<1>6. QED
  BY <1>3, <1>4, <1>5

\* Nobody was invited to a room that does not exist.
LEMMA CreateRoomPrivate ==
  ASSUME PInv, NEW t \in WebhookThreads, CreateRoom(t)
  PROVE  InvitedAreWrittenTo' /\ MembersAreInvited' /\ SendersInvited' /\ SentPrivately'
<1>1. /\ th[t] \in ThreadRecord
      /\ th[t].sender \in Virtuals
  BY BusyThread DEF PInv, CreateRoom, Calls, At
<1>2. PICK r \in Rooms :
        /\ creator[r] = None
        /\ creator' = [creator EXCEPT ![r] = th[t].sender]
        /\ member' = Join(member, r, th[t].sender)
        /\ Answered(t, [th[t] EXCEPT !.pc = "invite_first", !.room = r])
  BY DEF CreateRoom
<1>3. UNCHANGED <<invited, botEvent, sent>>
  BY DEF CreateRoom
<1>4. \A h \in Humans : <<r, h>> \notin invited
  BY <1>2, DirectMessagesFit DEF PInv, InvitedAreWrittenTo, Users
<1>5. InvitedAreWrittenTo'
  BY <1>2, <1>3, <1>4 DEF PInv, IInv, DataTypes, InvitedAreWrittenTo
<1>6. MembersAreInvited'
  <2>1. ASSUME NEW q \in Rooms, NEW u \in Users \ Virtuals
        PROVE  member'[q][u] = member[q][u]
    BY <1>1, <1>2 DEF PInv, IInv, DataTypes, Join
  <2>2. Bot \in Users \ Virtuals /\ Humans \subseteq Users \ Virtuals
    BY UsersAreDistinct DEF Users
  <2>3. QED
    BY <1>3, <2>1, <2>2 DEF PInv, MembersAreInvited
<1>7. SentPrivately'
  BY <1>3 DEF PInv, SentPrivately
<1>8. SendersInvited'
  <2> DEFINE s == [th[t] EXCEPT !.pc = "invite_first", !.room = r]
  <2>1. s.pc = "invite_first"
    BY <1>1 DEF ThreadRecord
  <2>2. th' = [th EXCEPT ![t] = s] \/ Return(t)
    BY <1>2 DEF Answered
  <2>3. QED
    BY <1>3, <2>1, <2>2, SendersStay
<1>9. QED
  BY <1>5, <1>6, <1>7, <1>8

LEMMA SendPrivate ==
  ASSUME OneReceiver, PInv, NEW t \in WebhookThreads, Send(t)
  PROVE  InvitedAreWrittenTo' /\ MembersAreInvited' /\ SendersInvited' /\ SentPrivately'
<1> DEFINE r == th[t].room
           m == [channel |-> th[t].channel, receiver |-> th[t].receiver, room |-> r,
                 foreign |-> {h \in Humans \ {th[t].receiver} : member[r][h] # "out"}]
<1>1. /\ th[t].pc # "idle"
      /\ r \in Rooms
      /\ creator[r] = th[t].sender
      /\ <<r, th[t].receiver>> \in invited
  BY RoomThread DEF PInv, SendersInvited, Send, Calls, At
<1>2. UNCHANGED <<creator, member, invited, botEvent>> /\ sent' = sent \cup {m} /\ Return(t)
  BY DEF Send, roomVars
<1>3. InvitedAreWrittenTo' /\ MembersAreInvited'
  BY <1>2 DEF PInv, InvitedAreWrittenTo, MembersAreInvited
<1>4. SendersInvited'
  <2>1. Idle.pc = "idle"
    BY DEF Idle
  <2>2. QED
    BY <1>2, <2>1, SendersStay
<1>5. m.foreign = {}
  <2>1. ASSUME NEW h \in Humans, h # th[t].receiver
        PROVE  member[r][h] = "out"
    <3>1. <<r, h>> \in invited => h = th[t].receiver
      BY <1>1, OnlyReceiver
    <3>2. QED
      BY <1>1, <2>1, <3>1 DEF PInv, MembersAreInvited
  <2>2. QED
    BY <2>1
<1>6. SentPrivately'
  <2>1. m.room = r /\ m.receiver = th[t].receiver
    OBVIOUS
  <2> HIDE DEF m
  <2>2. QED
    BY <1>1, <1>2, <1>5, <2>1 DEF PInv, SentPrivately
<1>7. QED
  BY <1>3, <1>4, <1>6

\* Joining and leaving invites nobody.
LEMMA RoomEventPrivate ==
  ASSUME PInv, NEW r \in Rooms,
         \/ BotHandled(r) \/ BotEventFails(r) \/ BotForgets(r)
         \/ \E h \in Humans : UserJoins(h, r) \/ UserLeaves(h, r)
  PROVE  InvitedAreWrittenTo' /\ MembersAreInvited' /\ SendersInvited' /\ SentPrivately'
<1>1. UNCHANGED <<creator, invited, sent, th>>
  BY DEF BotHandled, BotInvited, BotJoined, BotEventFails, BotForgets, UserJoins, UserLeaves
<1>2. InvitedAreWrittenTo' /\ SendersInvited' /\ SentPrivately'
  BY <1>1 DEF PInv, InvitedAreWrittenTo, SendersInvited, SentPrivately
<1>3. /\ member \in [Rooms -> [Users -> Membership]]
      /\ botEvent \in [Rooms -> {"none", "invite", "join"}]
      /\ Bot \in Users /\ Bot \notin Humans /\ Humans \subseteq Users
  BY UsersAreDistinct DEF PInv, IInv, DataTypes, Users
<1>4. CASE BotEventFails(r)
  BY <1>1, <1>2, <1>3, <1>4 DEF BotEventFails, PInv, MembersAreInvited
<1>5. CASE BotHandled(r) \/ BotForgets(r)
  <2>1. /\ botEvent[r] # "none"
        /\ member' = Join(member, r, Bot) \/ member' = Leave(member, r, Bot)
        /\ \A q \in Rooms : q # r => botEvent'[q] = botEvent[q]
    BY <1>3, <1>5 DEF BotHandled, BotInvited, BotJoined, BotForgets
  <2>2. ASSUME NEW q \in Rooms, NEW u \in Users, <<q, u>> # <<r, Bot>>
        PROVE  member'[q][u] = member[q][u]
    BY <1>3, <2>1, <2>2 DEF Join, Leave
  <2>3. \A q \in Rooms, h \in Humans : member'[q][h] # "out" => <<q, h>> \in invited'
    BY <1>1, <1>3, <2>2 DEF PInv, MembersAreInvited
  <2>4. \A q \in Rooms : member'[q][Bot] # "out" \/ botEvent'[q] # "none" =>
          \E h \in Humans : <<q, h>> \in invited'
    BY <1>1, <1>3, <2>1, <2>2 DEF PInv, MembersAreInvited
  <2>5. QED
    BY <1>2, <2>3, <2>4 DEF MembersAreInvited
<1>6. ASSUME NEW h \in Humans, UserJoins(h, r) \/ UserLeaves(h, r)
      PROVE  MembersAreInvited'
  <2>1. /\ UNCHANGED botEvent
        /\ member[r][h] # "out"
        /\ member' = Join(member, r, h) \/ member' = Leave(member, r, h)
    BY <1>6 DEF UserJoins, UserLeaves, MayLeave
  <2>2. ASSUME NEW q \in Rooms, NEW u \in Users, <<q, u>> # <<r, h>>
        PROVE  member'[q][u] = member[q][u]
    BY <1>3, <2>1, <2>2 DEF Join, Leave
  <2>3. \A q \in Rooms, g \in Humans : member'[q][g] # "out" => <<q, g>> \in invited'
    BY <1>1, <1>3, <2>1, <2>2 DEF PInv, MembersAreInvited
  <2>4. \A q \in Rooms : member'[q][Bot] = member[q][Bot]
    BY <1>3, <2>2
  <2>5. QED
    BY <1>1, <2>1, <2>3, <2>4 DEF PInv, MembersAreInvited
<1>7. QED
  BY <1>2, <1>4, <1>5, <1>6

LEMMA PInvStep == OneReceiver /\ PInv /\ [Next]_vars => PInv'
<1> SUFFICES ASSUME OneReceiver, PInv, [Next]_vars PROVE PInv'
  OBVIOUS
<1>1. IInv'
  BY IInvStep DEF PInv
<1>2. InvitedAreWrittenTo' /\ MembersAreInvited' /\ SendersInvited' /\ SentPrivately'
  <2>1. CASE UNCHANGED vars
    BY <2>1 DEF vars, roomVars, PInv, InvitedAreWrittenTo, MembersAreInvited, SendersInvited, SentPrivately
  <2>2. ASSUME NEW t \in WebhookThreads, Step(t) \/ CallFails(t)
        PROVE  InvitedAreWrittenTo' /\ MembersAreInvited' /\ SendersInvited' /\ SentPrivately'
    BY <2>2, FindingPrivate, LookingPrivate, ReceiverInvited, CreateRoomPrivate, InviteBotPrivate, SendPrivate
    DEF Step, InvitingReceiver, Creating
  <2>3. CASE Crash
    <3>1. UNCHANGED <<creator, member, invited, botEvent, sent>> /\ th' = [t \in WebhookThreads |-> Idle]
      BY <2>3 DEF Crash, roomVars
    <3>2. Idle.pc = "idle"
      BY DEF Idle
    <3>3. QED
      BY <3>1, <3>2 DEF PInv, InvitedAreWrittenTo, MembersAreInvited, SendersInvited, SentPrivately
  <2>4. QED
    BY <2>1, <2>2, <2>3, WebhookPrivate, RoomEventPrivate DEF Next
<1>3. QED
  BY <1>1, <1>2 DEF PInv

LEMMA PInvInit == Init => PInv
<1> SUFFICES ASSUME Init PROVE PInv
  OBVIOUS
<1>1. Idle.pc = "idle"
  BY DEF Idle
<1>2. InvitedAreWrittenTo /\ SendersInvited /\ SentPrivately
  BY <1>1 DEF Init, InvitedAreWrittenTo, SendersInvited, SentPrivately
<1>3. MembersAreInvited
  BY DEF Init, MembersAreInvited, NoMembers, Users
<1>4. QED
  BY <1>2, <1>3, IInvInit DEF PInv

-----------------------------------------------------------------------------
(***************************************************************************)
(* Where threads go, and what becomes of rooms                             *)
(***************************************************************************)

RoomlessPcs == {"find_user", "joined_rooms", "check_room", "dm_list", "register", "create"}

\* The calls about a room that was read, and the message.
KnownRoomPcs == {"find_member", "check_receiver", "invite_receiver", "send"}

\* u stays, ends, or goes to a call that the call it makes leads to.
ThreadMoved(u) ==
  \/ th'[u] = th[u]
  \/ th'[u] = Idle
  \/ /\ th[u].pc \in RoomlessPcs \cup {"idle"}
     /\ th'[u].pc \in RoomlessPcs \cup {"read_creator"}
  \/ /\ th'[u].room = th[u].room
     /\ \/ ReadCreator(u) /\ th'[u].pc = "find_member"
        \/ th[u].pc \in KnownRoomPcs /\ th'[u].pc \in KnownRoomPcs
        \/ InviteFirst(u) /\ th'[u].pc = "invite_bot"
        \/ InviteBot(u) /\ th'[u].pc = "send"
  \/ CreateRoom(u) /\ th'[u].pc = "invite_first" /\ creator[th'[u].room] = None

\* A handler changes no thread but its own.
LEMMA StepReplaces ==
  ASSUME NEW t \in WebhookThreads, Step(t)
  PROVE  \E s : th' = [th EXCEPT ![t] = s]
<1>1. CASE FindUser(t)
  BY <1>1 DEF FindUser, Goto
<1>2. CASE JoinedRooms(t)
  BY <1>2 DEF JoinedRooms, Goto
<1>3. CASE CheckRoom(t)
  BY <1>3 DEF CheckRoom
<1>4. CASE InvitingReceiver(t)
  BY <1>4 DEF InvitingReceiver, ReadCreator, FindMember, CheckReceiver, InviteReceiver, Goto, Return, Answered
<1>5. CASE Creating(t)
  BY <1>5 DEF Creating, DmList, RegisterUser, CreateRoom, InviteFirst, InviteBot, Goto, Return, Answered
<1>6. CASE Send(t) \/ Refused(t)
  BY <1>6 DEF Send, Refused, Return
<1>7. QED
  BY <1>1, <1>2, <1>3, <1>4, <1>5, <1>6 DEF Step, FindingRoom

LEMMA StepMoves ==
  ASSUME IInv, NEW t \in WebhookThreads, Step(t)
  PROVE  ThreadMoved(t)
<1>1. th \in [WebhookThreads -> Thread] /\ th[t] \in ThreadRecord
  BY DEF IInv, ThreadsFit, Thread
<1>2. ASSUME Return(t)
      PROVE  ThreadMoved(t)
  BY <1>1, <1>2 DEF Return, ThreadMoved
<1>3. ASSUME NEW pc, Goto(t, pc)
      PROVE  th'[t].pc = pc /\ th'[t].room = th[t].room
  BY <1>1, <1>3 DEF Goto, ThreadRecord
<1>4. ASSUME NEW pc, NEW r, Answered(t, [th[t] EXCEPT !.pc = pc, !.room = r])
      PROVE  th'[t] = Idle \/ (th'[t].pc = pc /\ th'[t].room = r)
  BY <1>1, <1>4 DEF Answered, Return, ThreadRecord
<1>5. ASSUME NEW pc, Answered(t, [th[t] EXCEPT !.pc = pc])
      PROVE  th'[t] = Idle \/ (th'[t].pc = pc /\ th'[t].room = th[t].room)
  BY <1>1, <1>5 DEF Answered, Return, ThreadRecord
<1>0. ASSUME \/ FindUser(t) \/ JoinedRooms(t) \/ CheckRoom(t)
              \/ DmList(t) \/ RegisterUser(t) \/ CreateRoom(t)
       PROVE  th[t].pc \in RoomlessPcs
  BY <1>0 DEF FindUser, JoinedRooms, CheckRoom, DmList, RegisterUser, CreateRoom, Calls, At, RoomlessPcs
<1>6. CASE FindUser(t)
  <2>4. th[t].pc \in RoomlessPcs
    BY <1>6, <1>0
  <2>1. CASE \E pc \in {"dm_list", "joined_rooms"} : Goto(t, pc)
    BY <1>3, <2>1, <2>4 DEF ThreadMoved, RoomlessPcs
  <2>2. CASE th' = [th EXCEPT ![t].pc = "read_creator",
                              ![t].room = cache[Key(th[t].channel, th[t].receiver)]]
    <3>1. th'[t].pc = "read_creator"
      BY <1>1, <2>2 DEF ThreadRecord
    <3>2. QED
      BY <2>4, <3>1 DEF ThreadMoved
  <2>3. QED
    BY <1>6, <2>1, <2>2 DEF FindUser
<1>7. CASE JoinedRooms(t)
  <2>4. th[t].pc \in RoomlessPcs
    BY <1>7, <1>0
  <2> DEFINE rooms == {r \in Rooms : member[r][th[t].sender] = "join"}
  <2>1. CASE Goto(t, "dm_list")
    BY <1>3, <2>1, <2>4 DEF ThreadMoved, RoomlessPcs
  <2>2. CASE th' = [th EXCEPT ![t].pc = "check_room", ![t].todo = rooms]
    <3>1. th'[t].pc = "check_room"
      BY <1>1, <2>2 DEF ThreadRecord
    <3>2. QED
      BY <2>4, <3>1 DEF ThreadMoved, RoomlessPcs
  <2>3. QED
    BY <1>7, <2>1, <2>2 DEF JoinedRooms
<1>8. CASE CheckRoom(t)
  <2>1. PICK r \in th[t].todo :
          \/ th' = [th EXCEPT ![t].pc = "read_creator", ![t].room = r, ![t].todo = {}]
          \/ th' = [th EXCEPT ![t].todo = @ \ {r},
                              ![t].pc = IF th[t].todo = {r} THEN "dm_list" ELSE "check_room"]
    BY <1>8 DEF CheckRoom
  <2>2. th'[t].pc \in {"read_creator", "dm_list", "check_room"}
    BY <1>1, <2>1 DEF ThreadRecord
  <2>3. th[t].pc \in RoomlessPcs
    BY <1>8, <1>0
  <2>4. QED
    BY <2>2, <2>3 DEF ThreadMoved, RoomlessPcs
<1>9. CASE ReadCreator(t)
  BY <1>3, <1>9 DEF ReadCreator, ThreadMoved
<1>10. CASE FindMember(t) \/ CheckReceiver(t)
  <2>1. th[t].pc \in KnownRoomPcs
    BY <1>10 DEF FindMember, CheckReceiver, Calls, At, KnownRoomPcs
  <2>2. \/ Return(t)
        \/ \E pc \in KnownRoomPcs : Goto(t, pc)
    BY <1>10 DEF FindMember, CheckReceiver, KnownRoomPcs
  <2>3. QED
    BY <1>2, <1>3, <2>1, <2>2 DEF ThreadMoved
<1>11. CASE InviteReceiver(t)
  BY <1>5, <1>11 DEF InviteReceiver, Calls, At, ThreadMoved, KnownRoomPcs
<1>12. CASE DmList(t)
  BY <1>3, <1>12, <1>0 DEF DmList, ThreadMoved, RoomlessPcs
<1>13. CASE RegisterUser(t)
  BY <1>5, <1>13, <1>0 DEF RegisterUser, ThreadMoved, RoomlessPcs
<1>14. CASE CreateRoom(t)
  <2>1. PICK r \in Rooms :
          creator[r] = None /\ Answered(t, [th[t] EXCEPT !.pc = "invite_first", !.room = r])
    BY <1>14 DEF CreateRoom
  <2>2. QED
    BY <1>4, <1>14, <2>1 DEF ThreadMoved
<1>15. CASE InviteFirst(t)
  BY <1>5, <1>15 DEF InviteFirst, ThreadMoved
<1>16. CASE InviteBot(t)
  BY <1>5, <1>16 DEF InviteBot, ThreadMoved
<1>17. CASE Send(t) \/ Refused(t)
  BY <1>2, <1>17 DEF Send, Refused
<1>18. QED
  BY <1>6, <1>7, <1>8, <1>9, <1>10, <1>11, <1>12, <1>13, <1>14, <1>15, <1>16, <1>17
  DEF Step, FindingRoom, InvitingReceiver, Creating

LEMMA ThreadMoves ==
  ASSUME IInv, [Next]_vars, NEW u \in WebhookThreads
  PROVE  ThreadMoved(u)
<1>1. th \in [WebhookThreads -> Thread]
  BY DEF IInv, ThreadsFit
<1>2. CASE UNCHANGED th
  BY <1>2 DEF ThreadMoved
<1>3. ASSUME NEW t \in WebhookThreads,
             \/ Step(t)
             \/ CallFails(t)
             \/ \E c \in Channels, v \in Virtuals, h \in Humans : Webhook(t, c, v, h)
      PROVE  ThreadMoved(u)
  <2>1. CASE t = u
    <3>1. CASE Step(t)
      BY <2>1, <3>1, StepMoves
    <3>2. CASE CallFails(t)
      BY <1>1, <2>1, <3>2 DEF CallFails, Return, ThreadMoved
    <3>3. ASSUME NEW c \in Channels, NEW v \in Virtuals, NEW h \in Humans, Webhook(t, c, v, h)
          PROVE  ThreadMoved(u)
      <4>1. th'[t].pc = "find_user" /\ th[t].pc = "idle"
        BY <1>1, <3>3 DEF Webhook, Idle, At
      <4>2. QED
        BY <2>1, <4>1 DEF ThreadMoved, RoomlessPcs
    <3>4. QED
      BY <1>3, <3>1, <3>2, <3>3
  <2>2. CASE t # u
    <3>1. \E s : th' = [th EXCEPT ![t] = s]
      BY <1>3, StepReplaces DEF CallFails, Return, Webhook
    <3>2. QED
      BY <1>1, <2>2, <3>1 DEF ThreadMoved
  <2>3. QED
    BY <2>1, <2>2
<1>4. CASE Crash
  BY <1>4 DEF Crash, ThreadMoved
<1>5. CASE \/ \E r \in Rooms : BotHandled(r) \/ BotEventFails(r) \/ BotForgets(r)
           \/ \E h \in Humans, r \in Rooms : UserJoins(h, r) \/ UserLeaves(h, r)
  <2>1. UNCHANGED th
    BY <1>5 DEF BotHandled, BotInvited, BotJoined, BotEventFails, BotForgets, UserJoins, UserLeaves
  <2>2. QED
    BY <1>2, <2>1
<1>6. CASE UNCHANGED vars
  BY <1>2, <1>6 DEF vars
<1>7. QED
  BY <1>3, <1>4, <1>5, <1>6 DEF Next

(***************************************************************************)
(* Rooms that stay usable: the invariant                                   *)
(***************************************************************************)

\* The virtual user that created a room is in it.
CreatorsAreIn == \A r \in Rooms : creator[r] # None => member[r][creator[r]] = "join"

\* A message is in a room of its sender, who is the end of its channel that is not the receiver.
SentBySenders ==
  \A m \in sent :
    /\ creator[m.room] \in Virtuals
    /\ creator[m.room] \in Ends[m.channel]
    /\ Account[m.receiver] \in Ends[m.channel] \ {creator[m.room]}

\* The bot can read the room, or is about to be.
WillBeRead(r) == botEvent[r] = "invite" \/ r \in readable

BeingMade(t) == th[t].pc \in {"invite_first", "invite_bot"}

\* The room that a thread makes is not known to the bot yet, and every other thread that has
\* found it is about to be refused by it; nobody is invited before the receiver.
MadeAlone ==
  \A t \in WebhookThreads : BeingMade(t) =>
    /\ th[t].room \notin readable
    /\ member[th[t].room][Bot] = "out"
    /\ botEvent[th[t].room] = "none"
    /\ \A u \in WebhookThreads \ {t} : th[u].room = th[t].room => th[u].pc = "read_creator"
    /\ th[t].pc = "invite_first" => \A h \in Humans : <<th[t].room, h>> \notin invited

ReadableRoomsExist == \A r \in readable : creator[r] # None

\* As long as no call fails: a room is being made, or the bot can read it or is about to,
RoomsGetRead ==
  faults = 0 =>
    \A r \in Rooms : creator[r] # None =>
      WillBeRead(r) \/ \E t \in WebhookThreads : th[t].room = r /\ BeingMade(t)

\* also if a message was sent there or a handler has read it,
KnownRoomsGetRead ==
  faults = 0 =>
    /\ \A t \in WebhookThreads : th[t].pc \in KnownRoomPcs => WillBeRead(th[t].room)
    /\ \A m \in sent : WillBeRead(m.room)

\* and the bot is not in it but to leave it.
BotIsAboutToLeave ==
  faults = 0 => \A r \in Rooms : member[r][Bot] = "join" => botEvent[r] = "join"

RInv ==
  /\ PInv
  /\ CreatorsAreIn
  /\ SentBySenders
  /\ MadeAlone
  /\ ReadableRoomsExist
  /\ RoomsGetRead
  /\ KnownRoomsGetRead
  /\ BotIsAboutToLeave

\* What a step does to the members: it creates a room, or lets no virtual user in or out.
LEMMA MembersChange ==
  ASSUME IInv, [Next]_vars
  PROVE  \/ \E t \in WebhookThreads : CreateRoom(t)
         \/ /\ UNCHANGED creator
            /\ \A r \in Rooms, v \in Virtuals : member'[r][v] = member[r][v]
<1>1. /\ member \in [Rooms -> [Users -> Membership]]
      /\ Bot \in Users \ Virtuals
      /\ Humans \subseteq Users \ Virtuals
      /\ Virtuals \subseteq Users
  BY UsersAreDistinct DEF IInv, DataTypes, Users
<1>2. CASE \E t \in WebhookThreads : InviteReceiver(t) \/ InviteFirst(t) \/ InviteBot(t)
  <2>1. PICK t \in WebhookThreads : InviteReceiver(t) \/ InviteFirst(t) \/ InviteBot(t)
    BY <1>2
  <2>2. th[t].receiver \in Users \ Virtuals
    BY <1>1, <2>1, BusyThread DEF InviteReceiver, InviteFirst, InviteBot, Calls, At
  <2>3. PICK u \in Users \ Virtuals : member' = Invite(member, th[t].room, u)
    BY <1>1, <2>1, <2>2 DEF InviteReceiver, InviteFirst, InviteBot
  <2>4. \A r \in Rooms, v \in Virtuals : member'[r][v] = member[r][v]
    BY <1>1, <2>3 DEF Invite
  <2>5. UNCHANGED creator
    BY <2>1 DEF InviteReceiver, InviteFirst, InviteBot
  <2>6. QED
    BY <2>4, <2>5
<1>3. CASE \/ \E r \in Rooms : BotHandled(r) \/ BotForgets(r)
           \/ \E h \in Humans, r \in Rooms : UserJoins(h, r) \/ UserLeaves(h, r)
  <2>1. \E u \in Users \ Virtuals, r \in Rooms : member' = Join(member, r, u) \/ member' = Leave(member, r, u)
    BY <1>1, <1>3 DEF BotHandled, BotInvited, BotJoined, BotForgets, UserJoins, UserLeaves
  <2>2. \A r \in Rooms, v \in Virtuals : member'[r][v] = member[r][v]
    BY <1>1, <2>1 DEF Join, Leave
  <2>3. UNCHANGED creator
    BY <1>3 DEF BotHandled, BotInvited, BotJoined, BotForgets, UserJoins, UserLeaves
  <2>4. QED
    BY <2>2, <2>3
<1>4. CASE \E t \in WebhookThreads :
             \/ \E c \in Channels, v \in Virtuals, h \in Humans : Webhook(t, c, v, h)
             \/ FindingRoom(t) \/ ReadCreator(t) \/ FindMember(t) \/ CheckReceiver(t)
             \/ DmList(t) \/ RegisterUser(t) \/ Send(t) \/ Refused(t) \/ CallFails(t)
  <2>1. UNCHANGED <<creator, member>>
    BY <1>4 DEF Webhook, FindingRoom, FindUser, JoinedRooms, CheckRoom, ReadCreator, FindMember,
       CheckReceiver, DmList, RegisterUser, Send, Refused, CallFails, roomVars
  <2>2. QED
    BY <2>1
<1>5. CASE Crash \/ (\E r \in Rooms : BotEventFails(r)) \/ UNCHANGED vars
  BY <1>5 DEF Crash, BotEventFails, vars, roomVars
<1>6. QED
  BY <1>2, <1>3, <1>4, <1>5 DEF Next, Step, InvitingReceiver, Creating

\* What a step does to the invitations and to what the bot reads: only InviteBot and the
\* homeserver's events concern the bot.
LEMMA BotRoomsChange ==
  ASSUME IInv, [Next]_vars, NEW q \in Rooms
  PROVE  \/ botEvent'[q] = botEvent[q] /\ (q \in readable' <=> q \in readable)
            /\ member'[q][Bot] = member[q][Bot]
         \/ \E t \in WebhookThreads :
              /\ InviteBot(t) /\ th[t].room = q
              /\ botEvent'[q] = "invite" /\ UNCHANGED readable
              /\ member'[q][Bot] = "invite"
         \/ /\ botEvent[q] = "invite"
            /\ botEvent'[q] = "join" /\ q \in readable' /\ member'[q][Bot] = "join"
            /\ UNCHANGED <<faults, invited>>
         \/ /\ botEvent[q] = "join"
            /\ botEvent'[q] = "none" /\ readable' = readable /\ member'[q][Bot] = "out"
            /\ UNCHANGED <<faults, invited>>
         \/ /\ botEvent[q] # "none"
            /\ botEvent'[q] = "none" /\ readable' \subseteq readable
            /\ faults' = faults + 1
<1>1. /\ member \in [Rooms -> [Users -> Membership]]
      /\ botEvent \in [Rooms -> {"none", "invite", "join"}]
      /\ Bot \in Users
      /\ Bot \notin Humans \cup Virtuals
      /\ Humans \cup Virtuals \subseteq Users
  BY UsersAreDistinct DEF IInv, DataTypes, Users
<1>2. ASSUME NEW t \in WebhookThreads, InviteBot(t)
      PROVE  \/ /\ botEvent'[q] = botEvent[q] /\ (q \in readable' <=> q \in readable)
                /\ member'[q][Bot] = member[q][Bot]
             \/ /\ InviteBot(t) /\ th[t].room = q
                /\ botEvent'[q] = "invite" /\ UNCHANGED readable
                /\ member'[q][Bot] = "invite"
  <2>1. /\ member' = Invite(member, th[t].room, Bot)
        /\ botEvent' = [botEvent EXCEPT ![th[t].room] = "invite"]
        /\ UNCHANGED readable
    BY <1>2 DEF InviteBot
  <2>2. CASE th[t].room = q
    BY <1>1, <1>2, <2>1, <2>2 DEF Invite
  <2>3. CASE th[t].room # q
    BY <1>1, <2>1, <2>3 DEF Invite
  <2>4. QED
    BY <2>2, <2>3
<1>3. CASE \E t \in WebhookThreads : CreateRoom(t) \/ InviteReceiver(t) \/ InviteFirst(t)
  <2>1. PICK t \in WebhookThreads : CreateRoom(t) \/ InviteReceiver(t) \/ InviteFirst(t)
    BY <1>3
  <2>2. /\ th[t].receiver \in Humans
        /\ th[t].sender \in Virtuals
        /\ CreateRoom(t) \/ th[t].room \in Rooms
    BY <2>1, BusyThread, RoomThread DEF InviteReceiver, InviteFirst, CreateRoom, Calls, At, ExistingPcs
  <2>3. PICK u \in Users \ {Bot}, r \in Rooms : member' = Invite(member, r, u) \/ member' = Join(member, r, u)
    BY <1>1, <2>1, <2>2 DEF InviteReceiver, InviteFirst, CreateRoom
  <2>4. member'[q][Bot] = member[q][Bot]
    BY <1>1, <2>3 DEF Invite, Join
  <2>5. UNCHANGED <<botEvent, readable>>
    BY <2>1 DEF InviteReceiver, InviteFirst, CreateRoom
  <2>6. QED
    BY <2>4, <2>5
<1>4. CASE \E h \in Humans, r \in Rooms : UserJoins(h, r) \/ UserLeaves(h, r)
  <2>1. PICK u \in Users \ {Bot}, r \in Rooms : member' = Join(member, r, u) \/ member' = Leave(member, r, u)
    BY <1>1, <1>4 DEF UserJoins, UserLeaves
  <2>2. member'[q][Bot] = member[q][Bot]
    BY <1>1, <2>1 DEF Join, Leave
  <2>3. UNCHANGED <<botEvent, readable>>
    BY <1>4 DEF UserJoins, UserLeaves
  <2>4. QED
    BY <2>2, <2>3
<1>5. ASSUME NEW r \in Rooms, BotHandled(r) \/ BotEventFails(r) \/ BotForgets(r), r # q
      PROVE  /\ botEvent'[q] = botEvent[q] /\ (q \in readable' <=> q \in readable)
             /\ member'[q][Bot] = member[q][Bot]
  BY <1>1, <1>5 DEF BotHandled, BotInvited, BotJoined, BotEventFails, BotForgets, Join, Leave
<1>6. CASE BotInvited(q)
  BY <1>1, <1>6 DEF BotInvited, Join
<1>7. CASE BotJoined(q)
  BY <1>1, <1>7 DEF BotJoined, Leave
<1>8. CASE BotEventFails(q) \/ BotForgets(q)
  <2>1. /\ botEvent[q] # "none"
        /\ botEvent' = [botEvent EXCEPT ![q] = "none"]
        /\ readable' = readable \/ readable' = readable \ {q}
        /\ faults' = faults + 1
    BY <1>8 DEF BotEventFails, BotForgets
  <2>2. botEvent'[q] = "none" /\ readable' \subseteq readable
    BY <1>1, <2>1
  <2>3. QED
    BY <2>1, <2>2
<1>9. CASE \E t \in WebhookThreads :
             \/ \E c \in Channels, v \in Virtuals, h \in Humans : Webhook(t, c, v, h)
             \/ FindingRoom(t) \/ ReadCreator(t) \/ FindMember(t) \/ CheckReceiver(t)
             \/ DmList(t) \/ RegisterUser(t) \/ Send(t) \/ Refused(t) \/ CallFails(t)
  <2>1. UNCHANGED roomVars
    BY <1>9 DEF Webhook, FindingRoom, FindUser, JoinedRooms, CheckRoom, ReadCreator, FindMember,
       CheckReceiver, DmList, RegisterUser, Send, Refused, CallFails
  <2>2. QED
    BY <2>1 DEF roomVars
<1>10. CASE Crash \/ UNCHANGED vars
  BY <1>10 DEF Crash, vars, roomVars
<1>11. QED
  BY <1>2, <1>3, <1>4, <1>5, <1>6, <1>7, <1>8, <1>9, <1>10
  DEF Next, Step, InvitingReceiver, Creating, BotHandled

\* Faults are only ever counted up.
LEMMA FaultsAreCounted ==
  ASSUME IInv, [Next]_vars
  PROVE  /\ faults \in Nat /\ faults' \in Nat
         /\ faults' = faults \/ faults' = faults + 1
<1>1. faults \in Nat /\ faults' \in Nat
  BY IInvStep, DirectMessagesFit DEF IInv, DataTypes
<1>2. ASSUME NEW t \in WebhookThreads,
             \/ Step(t)
             \/ CallFails(t)
             \/ \E c \in Channels, v \in Virtuals, h \in Humans : Webhook(t, c, v, h)
      PROVE  faults' = faults \/ faults' = faults + 1
  BY <1>2 DEF Step, FindingRoom, InvitingReceiver, Creating, FindUser, JoinedRooms, CheckRoom,
     ReadCreator, FindMember, CheckReceiver, InviteReceiver, DmList, RegisterUser, CreateRoom,
     InviteFirst, InviteBot, Send, Refused, CallFails, Webhook, Answered
<1>3. CASE \/ \E r \in Rooms : BotHandled(r) \/ BotEventFails(r) \/ BotForgets(r)
           \/ \E h \in Humans, r \in Rooms : UserJoins(h, r) \/ UserLeaves(h, r)
           \/ Crash
           \/ UNCHANGED vars
  BY <1>1, <1>3 DEF BotHandled, BotInvited, BotJoined, BotEventFails, BotForgets, UserJoins, UserLeaves,
     Crash, vars
<1>4. QED
  BY <1>1, <1>2, <1>3 DEF Next

\* Somebody is only invited as the receiver of a thread that has the room.
LEMMA InvitedByThreads ==
  ASSUME IInv, [Next]_vars, NEW q \in Rooms, NEW h, <<q, h>> \in invited'
  PROVE  \/ <<q, h>> \in invited
         \/ \E t \in WebhookThreads :
              /\ InviteReceiver(t) \/ InviteFirst(t)
              /\ th[t].room = q
              /\ th[t].receiver = h
<1>1. CASE UNCHANGED invited
  BY <1>1
<1>2. CASE \E t \in WebhookThreads : InviteReceiver(t) \/ InviteFirst(t)
  <2>1. PICK t \in WebhookThreads : InviteReceiver(t) \/ InviteFirst(t)
    BY <1>2
  <2>2. invited' = invited \cup {<<th[t].room, th[t].receiver>>}
    BY <2>1 DEF InviteReceiver, InviteFirst
  <2>3. QED
    BY <2>1, <2>2
<1>3. CASE \E t \in WebhookThreads :
             \/ \E c \in Channels, v \in Virtuals, g \in Humans : Webhook(t, c, v, g)
             \/ FindingRoom(t) \/ ReadCreator(t) \/ FindMember(t) \/ CheckReceiver(t)
             \/ DmList(t) \/ RegisterUser(t) \/ CreateRoom(t) \/ InviteBot(t)
             \/ Send(t) \/ Refused(t) \/ CallFails(t)
  <2>1. UNCHANGED invited
    BY <1>3 DEF Webhook, FindingRoom, FindUser, JoinedRooms, CheckRoom, ReadCreator, FindMember,
       CheckReceiver, DmList, RegisterUser, CreateRoom, InviteBot, Send, Refused, CallFails, roomVars
  <2>2. QED
    BY <1>1, <2>1
<1>4. CASE \/ \E r \in Rooms : BotHandled(r) \/ BotEventFails(r) \/ BotForgets(r)
           \/ \E g \in Humans, r \in Rooms : UserJoins(g, r) \/ UserLeaves(g, r)
           \/ Crash
           \/ UNCHANGED vars
  <2>1. UNCHANGED invited
    BY <1>4 DEF BotHandled, BotInvited, BotJoined, BotEventFails, BotForgets, UserJoins, UserLeaves,
       Crash, vars, roomVars
  <2>2. QED
    BY <1>1, <2>1
<1>5. QED
  BY <1>2, <1>3, <1>4 DEF Next, Step, InvitingReceiver, Creating

\* Only Send adds a message.
LEMMA SentByThreads ==
  ASSUME IInv, [Next]_vars, NEW m \in sent'
  PROVE  \/ m \in sent
         \/ \E t \in WebhookThreads :
              /\ Calls(t, "send")
              /\ m.channel = th[t].channel
              /\ m.receiver = th[t].receiver
              /\ m.room = th[t].room
<1>1. CASE UNCHANGED sent
  BY <1>1
<1>2. CASE \E t \in WebhookThreads : Send(t)
  BY <1>2 DEF Send
<1>3. CASE \E t \in WebhookThreads :
             \/ \E c \in Channels, v \in Virtuals, g \in Humans : Webhook(t, c, v, g)
             \/ FindingRoom(t) \/ InvitingReceiver(t) \/ Creating(t) \/ Refused(t) \/ CallFails(t)
  <2>1. UNCHANGED sent
    BY <1>3 DEF Webhook, FindingRoom, FindUser, JoinedRooms, CheckRoom, InvitingReceiver, ReadCreator,
       FindMember, CheckReceiver, InviteReceiver, Creating, DmList, RegisterUser, CreateRoom,
       InviteFirst, InviteBot, Refused, CallFails
  <2>2. QED
    BY <1>1, <2>1
<1>4. CASE \/ \E r \in Rooms : BotHandled(r) \/ BotEventFails(r) \/ BotForgets(r)
           \/ \E g \in Humans, r \in Rooms : UserJoins(g, r) \/ UserLeaves(g, r)
           \/ Crash
           \/ UNCHANGED vars
  <2>1. UNCHANGED sent
    BY <1>4 DEF BotHandled, BotInvited, BotJoined, BotEventFails, BotForgets, UserJoins, UserLeaves,
       Crash, vars
  <2>2. QED
    BY <1>1, <2>1
<1>5. QED
  BY <1>2, <1>3, <1>4 DEF Next, Step

\* A thread ends without a fault when a message was sent, a room has too many members, or a
\* call is refused.
LEMMA WhyThreadsEnd ==
  ASSUME IInv, [Next]_vars, NEW u \in WebhookThreads, th[u] # Idle, th'[u] = Idle, faults' = faults
  PROVE  \/ Calls(u, "send")
         \/ Calls(u, "find_member") /\ Cardinality(Joined(member, th[u].room)) > 2
         \/ ~At(u, "idle") /\ ~Granted(u)
<1>1. /\ th \in [WebhookThreads -> Thread]
      /\ th[u] \in ThreadRecord
      /\ faults \in Nat
      /\ Idle.pc = "idle"
  BY DirectMessagesFit DEF IInv, ThreadsFit, Thread, DataTypes, Idle
<1>2. ASSUME NEW t \in WebhookThreads,
             \/ Step(t)
             \/ \E c \in Channels, v \in Virtuals, h \in Humans : Webhook(t, c, v, h)
      PROVE  t = u
  <2>1. \E s : th' = [th EXCEPT ![t] = s]
    BY <1>2, StepReplaces DEF Webhook
  <2>2. QED
    BY <1>1, <2>1
<1>3. CASE Step(u)
  <2>1. \A pc : Goto(u, pc) => pc = "idle"
    BY <1>1 DEF Goto, ThreadRecord
  <2>2. ASSUME NEW pc, NEW room, Answered(u, [th[u] EXCEPT !.pc = pc, !.room = room])
        PROVE  pc = "idle"
    <3>1. th'[u] = [th[u] EXCEPT !.pc = pc, !.room = room]
      BY <1>1, <2>2 DEF Answered
    <3>2. th'[u].pc = pc
      BY <1>1, <3>1 DEF ThreadRecord
    <3>3. QED
      BY <1>1, <3>2
  <2>3. \A pc : Answered(u, [th[u] EXCEPT !.pc = pc]) => pc = "idle"
    BY <1>1 DEF Answered, ThreadRecord
  <2>4. ASSUME FindUser(u)
        PROVE  FALSE
    <3>1. ~ \E pc \in {"dm_list", "joined_rooms"} : Goto(u, pc)
      BY <2>1
    <3>2. th' = [th EXCEPT ![u].pc = "read_creator",
                           ![u].room = cache[Key(th[u].channel, th[u].receiver)]]
      BY <2>4, <3>1 DEF FindUser
    <3>3. th'[u].pc = "read_creator"
      BY <1>1, <3>2 DEF ThreadRecord
    <3>4. QED
      BY <1>1, <3>3
  <2>5. ASSUME JoinedRooms(u)
        PROVE  FALSE
    <3> DEFINE rooms == {r \in Rooms : member[r][th[u].sender] = "join"}
    <3>1. th' = [th EXCEPT ![u].pc = "check_room", ![u].todo = rooms]
      BY <2>1, <2>5 DEF JoinedRooms
    <3>2. th'[u].pc = "check_room"
      BY <1>1, <3>1 DEF ThreadRecord
    <3>3. QED
      BY <1>1, <3>2
  <2>6. ASSUME CheckRoom(u)
        PROVE  FALSE
    <3>1. PICK r \in th[u].todo :
            \/ th' = [th EXCEPT ![u].pc = "read_creator", ![u].room = r, ![u].todo = {}]
            \/ th' = [th EXCEPT ![u].todo = @ \ {r},
                                ![u].pc = IF th[u].todo = {r} THEN "dm_list" ELSE "check_room"]
      BY <2>6 DEF CheckRoom
    <3>2. th'[u].pc \in {"read_creator", "dm_list", "check_room"}
      BY <1>1, <3>1 DEF ThreadRecord
    <3>3. QED
      BY <1>1, <3>2
  <2>7. ~ (ReadCreator(u) \/ CheckReceiver(u) \/ DmList(u))
    BY <2>1 DEF ReadCreator, CheckReceiver, DmList
  <2>8. ~ (InviteReceiver(u) \/ RegisterUser(u) \/ InviteFirst(u) \/ InviteBot(u))
    BY <2>3 DEF InviteReceiver, RegisterUser, InviteFirst, InviteBot
  <2>9. ~ CreateRoom(u)
    BY <2>2 DEF CreateRoom
  <2>10. FindMember(u) => Calls(u, "find_member") /\ Cardinality(Joined(member, th[u].room)) > 2
    BY <2>1 DEF FindMember
  <2>11. Send(u) => Calls(u, "send")
    BY DEF Send
  <2>12. Refused(u) => ~At(u, "idle") /\ ~Granted(u)
    BY DEF Refused
  <2>13. QED
    BY <1>3, <2>4, <2>5, <2>6, <2>7, <2>8, <2>9, <2>10, <2>11, <2>12
    DEF Step, FindingRoom, InvitingReceiver, Creating
<1>4. ASSUME NEW c \in Channels, NEW v \in Virtuals, NEW h \in Humans, Webhook(u, c, v, h)
      PROVE  FALSE
  <2>1. th'[u].pc = "find_user"
    BY <1>1, <1>4 DEF Webhook, Idle
  <2>2. QED
    BY <1>1, <2>1
<1>5. ~ Crash /\ \A t \in WebhookThreads : ~ CallFails(t)
  BY <1>1 DEF Crash, CallFails
<1>6. CASE \/ \E r \in Rooms : BotHandled(r) \/ BotEventFails(r) \/ BotForgets(r)
           \/ \E h \in Humans, r \in Rooms : UserJoins(h, r) \/ UserLeaves(h, r)
           \/ UNCHANGED vars
  <2>1. UNCHANGED th
    BY <1>6 DEF BotHandled, BotInvited, BotJoined, BotEventFails, BotForgets, UserJoins, UserLeaves, vars
  <2>2. QED
    BY <2>1
<1>7. QED
  BY <1>2, <1>3, <1>4, <1>5, <1>6 DEF Next

LEMMA CreatorsStayed ==
  ASSUME IInv, [Next]_vars
  PROVE  CreatorsStay
<1>1. CASE \E t \in WebhookThreads : CreateRoom(t)
  BY <1>1 DEF CreateRoom, CreatorsStay, IInv, DataTypes
<1>2. CASE UNCHANGED creator
  BY <1>2 DEF CreatorsStay
<1>3. QED
  BY <1>1, <1>2, MembersChange

\* A room that was not created yet: nobody knows it.
LEMMA UnknownRoom ==
  ASSUME PInv, ReadableRoomsExist, NEW r \in Rooms, creator[r] = None
  PROVE  /\ r \notin readable
         /\ member[r][Bot] = "out"
         /\ botEvent[r] = "none"
         /\ \A h \in Humans : <<r, h>> \notin invited
         /\ \A t \in WebhookThreads : th[t].room # r
<1>1. None \notin Virtuals /\ None \notin Rooms
  BY DirectMessagesFit DEF Users
<1>2. r \notin readable
  BY DEF ReadableRoomsExist
<1>3. \A h \in Humans : <<r, h>> \notin invited
  BY <1>1 DEF PInv, InvitedAreWrittenTo
<1>4. member[r][Bot] = "out" /\ botEvent[r] = "none"
  BY <1>3 DEF PInv, MembersAreInvited
<1>5. ASSUME NEW t \in WebhookThreads, th[t].room = r
      PROVE  FALSE
  <2>1. creator[r] = th[t].sender /\ th[t] \in Thread
    BY <1>1, <1>5 DEF PInv, IInv, ThreadsFit, SenderFits
  <2>2. th[t].pc # "idle"
    BY <1>1, <1>5, <2>1 DEF Thread
  <2>3. QED
    BY <1>1, <2>1, <2>2, BusyThread DEF PInv
<1>6. QED
  BY <1>2, <1>3, <1>4, <1>5

\* A thread with a room is busy, and its sender created it.
LEMMA ThreadWithRoom ==
  ASSUME IInv, NEW t \in WebhookThreads, th[t].room \in Rooms
  PROVE  /\ th[t].pc \notin RoomlessPcs \cup {"idle"}
         /\ th[t].sender \in Virtuals
         /\ th[t].receiver \in Humans
         /\ creator[th[t].room] = th[t].sender
         /\ creator[th[t].room] # None
<1>1. None \notin Virtuals /\ None \notin Rooms
  BY DirectMessagesFit DEF Users
<1>2. th[t] \in Thread /\ SenderFits(th[t], creator)
  BY DEF IInv, ThreadsFit
<1>3. th[t].pc \notin RoomlessPcs \cup {"idle"}
  BY <1>1, <1>2 DEF Thread, RoomlessPcs, LookupPcs
<1>4. creator[th[t].room] = th[t].sender
  BY <1>1, <1>2 DEF SenderFits
<1>5. QED
  BY <1>1, <1>3, <1>4, BusyThread

LEMMA CreatorsAreInStep ==
  ASSUME IInv, CreatorsAreIn, [Next]_vars
  PROVE  CreatorsAreIn'
<1>1. /\ member \in [Rooms -> [Users -> Membership]]
      /\ creator \in [Rooms -> Virtuals \cup {None}]
      /\ Virtuals \subseteq Users
  BY DEF IInv, DataTypes, Users
<1>2. ASSUME NEW t \in WebhookThreads, CreateRoom(t)
      PROVE  CreatorsAreIn'
  <2>1. th[t].sender \in Virtuals
    BY <1>2, BusyThread DEF CreateRoom, Calls, At
  <2>2. PICK r \in Rooms :
          /\ creator[r] = None
          /\ creator' = [creator EXCEPT ![r] = th[t].sender]
          /\ member' = Join(member, r, th[t].sender)
    BY <1>2 DEF CreateRoom
  <2>3. ASSUME NEW q \in Rooms, creator'[q] # None
        PROVE  member'[q][creator'[q]] = "join"
    <3>1. CASE q = r
      BY <1>1, <2>1, <2>2, <3>1 DEF Join
    <3>2. CASE q # r
      BY <1>1, <2>2, <2>3, <3>2 DEF Join, CreatorsAreIn
    <3>3. QED
      BY <3>1, <3>2
  <2>4. QED
    BY <2>3 DEF CreatorsAreIn
<1>3. CASE UNCHANGED creator /\ \A r \in Rooms, v \in Virtuals : member'[r][v] = member[r][v]
  BY <1>1, <1>3 DEF CreatorsAreIn
<1>4. QED
  BY <1>2, <1>3, MembersChange

LEMMA SentBySendersStep ==
  ASSUME IInv, SentBySenders, [Next]_vars
  PROVE  SentBySenders'
<1>1. CreatorsStay /\ None \notin Virtuals
  BY CreatorsStayed, DirectMessagesFit DEF Users
<1>2. ASSUME NEW m \in sent'
      PROVE  /\ creator'[m.room] \in Virtuals
             /\ creator'[m.room] \in Ends[m.channel]
             /\ Account[m.receiver] \in Ends[m.channel] \ {creator'[m.room]}
  <2>1. CASE m \in sent
    <3>1. m.room \in Rooms /\ creator[m.room] \in Virtuals
      BY <2>1 DEF IInv, DataTypes, Message, SentBySenders
    <3>2. creator'[m.room] = creator[m.room]
      BY <1>1, <3>1 DEF CreatorsStay
    <3>3. QED
      BY <2>1, <3>2 DEF SentBySenders
  <2>2. ASSUME NEW t \in WebhookThreads, Calls(t, "send"),
               m.channel = th[t].channel, m.receiver = th[t].receiver, m.room = th[t].room
        PROVE  /\ creator'[m.room] \in Virtuals
               /\ creator'[m.room] \in Ends[m.channel]
               /\ Account[m.receiver] \in Ends[m.channel] \ {creator'[m.room]}
    <3>1. th[t].pc = "send"
      BY <2>2 DEF Calls, At
    <3>2. /\ th[t].room \in Rooms
          /\ creator[th[t].room] = th[t].sender
          /\ th[t].sender \in Virtuals
          /\ th[t].sender \in Ends[th[t].channel]
          /\ Account[th[t].receiver] \in Ends[th[t].channel] \ {th[t].sender}
      BY <3>1, BusyThread, RoomThread
    <3>3. creator'[th[t].room] = creator[th[t].room]
      BY <1>1, <3>2 DEF CreatorsStay
    <3>4. QED
      BY <2>2, <3>2, <3>3
  <2>3. QED
    BY <2>1, <2>2, SentByThreads
<1>3. QED
  BY <1>2 DEF SentBySenders

LEMMA ReadableRoomsExistStep ==
  ASSUME PInv, ReadableRoomsExist, [Next]_vars
  PROVE  ReadableRoomsExist'
<1>1. /\ CreatorsStay
      /\ None \notin Virtuals
      /\ readable \subseteq Rooms
      /\ readable' \subseteq Rooms
  BY CreatorsStayed, IInvStep, DirectMessagesFit DEF Users, PInv, IInv, DataTypes
<1>2. ASSUME NEW r \in readable'
      PROVE  creator'[r] # None
  <2>1. r \in Rooms /\ (r \in readable \/ botEvent[r] = "invite")
    BY <1>1, BotRoomsChange DEF PInv
  <2>2. creator[r] # None
    <3>1. CASE r \in readable
      BY <3>1 DEF ReadableRoomsExist
    <3>2. CASE botEvent[r] = "invite"
      <4>1. PICK h \in Humans : <<r, h>> \in invited
        BY <2>1, <3>2 DEF PInv, MembersAreInvited
      <4>2. QED
        BY <1>1, <2>1, <4>1 DEF PInv, InvitedAreWrittenTo
    <3>3. QED
      BY <2>1, <3>1, <3>2
  <2>3. QED
    BY <1>1, <2>1, <2>2 DEF CreatorsStay
<1>3. QED
  BY <1>2 DEF ReadableRoomsExist

LEMMA BotIsAboutToLeaveStep ==
  ASSUME IInv, BotIsAboutToLeave, [Next]_vars
  PROVE  BotIsAboutToLeave'
<1>1. ASSUME faults' = 0, NEW r \in Rooms, member'[r][Bot] = "join"
      PROVE  botEvent'[r] = "join"
  <2>1. faults = 0 /\ faults' # faults + 1
    BY <1>1, FaultsAreCounted
  <2>2. member[r][Bot] = "join" => botEvent[r] = "join"
    BY <2>1 DEF BotIsAboutToLeave
  <2>3. QED
    BY <1>1, <2>1, <2>2, BotRoomsChange
<1>2. QED
  BY <1>1 DEF BotIsAboutToLeave

\* What will be read goes on to be.
LEMMA StaysRead ==
  ASSUME IInv, [Next]_vars, faults' = faults, NEW q \in Rooms, WillBeRead(q)
  PROVE  WillBeRead(q)'
<1>1. faults' # faults + 1
  BY FaultsAreCounted
<1>2. CASE botEvent[q] = "invite"
  BY <1>1, <1>2, BotRoomsChange DEF WillBeRead
<1>3. CASE q \in readable
  BY <1>1, <1>3, BotRoomsChange DEF WillBeRead
<1>4. QED
  BY <1>2, <1>3 DEF WillBeRead

\* The call about the bot is the last one that makes a room, and the receiver's the first.
LEMMA MadeInOrder ==
  ASSUME IInv, NEW t \in WebhookThreads
  PROVE  /\ InviteBot(t) => th[t].pc = "invite_bot" /\ th'[t].pc \in {"send", "idle"}
         /\ InviteFirst(t) => th[t].pc = "invite_first" /\ th'[t].pc \in {"invite_bot", "idle"}
<1>1. th \in [WebhookThreads -> Thread] /\ th[t] \in ThreadRecord /\ Idle.pc = "idle"
  BY DEF IInv, ThreadsFit, Thread, Idle
<1>2. ASSUME NEW pc, Answered(t, [th[t] EXCEPT !.pc = pc])
      PROVE  th'[t].pc \in {pc, "idle"}
  BY <1>1, <1>2 DEF Answered, Return, ThreadRecord
<1>3. QED
  BY <1>2 DEF InviteBot, InviteFirst, Calls, At

\* Another thread that finds the room that t makes cannot get further than read_creator.
LEMMA OthersWait ==
  ASSUME IInv, MadeAlone, [Next]_vars, NEW t \in WebhookThreads, BeingMade(t),
         NEW u \in WebhookThreads \ {t}, th'[u].room = th[t].room
  PROVE  th'[u].pc = "read_creator"
<1> DEFINE q == th[t].room
<1>1. q \in Rooms /\ creator[q] # None /\ q \notin readable
  BY RoomThread, ThreadWithRoom DEF BeingMade, MadeAlone
<1>2. IInv'
  BY IInvStep
<1>3. th'[u] \in Thread /\ None \notin Rooms
  BY <1>2, DirectMessagesFit DEF IInv, ThreadsFit
<1>4. th'[u].pc \notin RoomlessPcs \cup {"idle"}
  BY <1>1, <1>3 DEF Thread, RoomlessPcs, LookupPcs
<1>5. th'[u] # Idle
  BY <1>4 DEF Idle
<1>6. th[u].room = q => th[u].pc = "read_creator"
  BY DEF MadeAlone
<1>7. CASE th'[u] = th[u]
  BY <1>6, <1>7
<1>8. ~ (th[u].pc = "read_creator" /\ th[u].room = q /\ ReadCreator(u))
  BY <1>1 DEF ReadCreator, Calls, Granted
<1>9. ~ (th[u].pc = "read_creator" /\ (InviteFirst(u) \/ InviteBot(u) \/ th[u].pc \in KnownRoomPcs))
  BY DEF InviteFirst, InviteBot, Calls, At, KnownRoomPcs
<1>10. ThreadMoved(u)
  BY ThreadMoves
<1>11. QED
  BY <1>1, <1>4, <1>5, <1>6, <1>7, <1>8, <1>9, <1>10 DEF ThreadMoved

\* The room that t goes on to make stays alone.
LEMMA StaysAlone ==
  ASSUME IInv, MadeAlone, [Next]_vars, NEW t \in WebhookThreads, BeingMade(t),
         th'[t].room = th[t].room, BeingMade(t)'
  PROVE  /\ th'[t].room \notin readable'
         /\ member'[th'[t].room][Bot] = "out"
         /\ botEvent'[th'[t].room] = "none"
         /\ \A u \in WebhookThreads \ {t} : th'[u].room = th'[t].room => th'[u].pc = "read_creator"
<1> DEFINE q == th[t].room
<1>1. q \in Rooms
  BY RoomThread DEF BeingMade
<1>2. /\ q \notin readable
      /\ member[q][Bot] = "out"
      /\ botEvent[q] = "none"
      /\ \A u \in WebhookThreads \ {t} : th[u].room = q => th[u].pc = "read_creator"
  BY DEF MadeAlone
<1>3. ASSUME NEW u \in WebhookThreads, InviteBot(u), th[u].room = q
      PROVE  FALSE
  <2>1. th[u].pc = "invite_bot" /\ th'[u].pc \in {"send", "idle"}
    BY <1>3, MadeInOrder
  <2>2. u = t
    BY <1>2, <1>3, <2>1
  <2>3. QED
    BY <2>1, <2>2 DEF BeingMade
<1>4. /\ q \notin readable'
      /\ member'[q][Bot] = "out"
      /\ botEvent'[q] = "none"
  BY <1>1, <1>2, <1>3, BotRoomsChange
<1>5. QED
  BY <1>4, OthersWait

LEMMA MadeAloneStep ==
  ASSUME PInv, ReadableRoomsExist, MadeAlone, [Next]_vars
  PROVE  MadeAlone'
<1>1. IInv /\ IInv'
  BY IInvStep DEF PInv
<1>2. ASSUME NEW t \in WebhookThreads, BeingMade(t)'
      PROVE  /\ th'[t].room \notin readable'
             /\ member'[th'[t].room][Bot] = "out"
             /\ botEvent'[th'[t].room] = "none"
             /\ \A u \in WebhookThreads \ {t} : th'[u].room = th'[t].room => th'[u].pc = "read_creator"
             /\ th'[t].pc = "invite_first" => \A h \in Humans : <<th'[t].room, h>> \notin invited'
  <2>1. th'[t].pc \in {"invite_first", "invite_bot"}
    BY <1>2 DEF BeingMade
  <2>2. \/ th'[t] = th[t]
        \/ InviteFirst(t) /\ th'[t].pc = "invite_bot" /\ th'[t].room = th[t].room
        \/ CreateRoom(t) /\ th'[t].pc = "invite_first" /\ creator[th'[t].room] = None
    <3>1. ThreadMoved(t)
      BY <1>1, ThreadMoves
    <3>2. th'[t] # Idle
      BY <2>1 DEF Idle
    <3>3. th'[t].pc \notin RoomlessPcs \cup {"read_creator", "find_member", "send"} \cup KnownRoomPcs
      BY <2>1 DEF RoomlessPcs, KnownRoomPcs
    <3>4. QED
      BY <3>1, <3>2, <3>3 DEF ThreadMoved
  <2>3. CASE CreateRoom(t) /\ creator[th'[t].room] = None
    <3> DEFINE q == th'[t].room
    <3>1. q \in Rooms /\ th'[t].pc # "idle"
      <4>1. th'[t].pc \in ExistingPcs \cup {"invite_first", "invite_bot", "send"}
        BY <2>1
      <4>2. th'[t] \in Thread /\ th'[t] \in ThreadRecord
        BY <1>1 DEF IInv, ThreadsFit, Thread
      <4>3. th'[t].room # None
        BY <4>2, <2>1 DEF Thread, LookupPcs
      <4>4. QED
        BY <2>1, <4>2, <4>3 DEF ThreadRecord
    <3>2. /\ q \notin readable
          /\ member[q][Bot] = "out"
          /\ botEvent[q] = "none"
          /\ \A h \in Humans : <<q, h>> \notin invited
          /\ \A u \in WebhookThreads : th[u].room # q
      BY <2>3, <3>1, UnknownRoom
    <3>3. UNCHANGED <<invited, readable, botEvent>>
      BY <2>3 DEF CreateRoom
    <3>4. member'[q][Bot] = "out"
      <4>1. ~ \E u \in WebhookThreads : InviteBot(u) /\ th[u].room = q
        BY <3>2
      <4>2. q \notin readable' /\ botEvent'[q] = "none"
        BY <3>2, <3>3
      <4>3. botEvent[q] = "none"
        BY <3>2
      <4>4. QED
        BY <1>1, <3>1, <3>2, <4>1, <4>2, BotRoomsChange
    <3>5. \A u \in WebhookThreads \ {t} : th'[u] = th[u]
      <4>1. \E s : th' = [th EXCEPT ![t] = s]
        BY <2>3, StepReplaces DEF Step, Creating
      <4>2. QED
        BY <1>1, <4>1 DEF IInv, ThreadsFit
    <3>6. QED
      BY <3>2, <3>3, <3>4, <3>5
  <2>4. CASE th'[t] = th[t] \/ (InviteFirst(t) /\ th'[t].pc = "invite_bot" /\ th'[t].room = th[t].room)
    <3>1. BeingMade(t) /\ th'[t].room = th[t].room
      BY <1>2, <1>1, <2>4, MadeInOrder DEF BeingMade
    <3>2. /\ th'[t].room \notin readable'
          /\ member'[th'[t].room][Bot] = "out"
          /\ botEvent'[th'[t].room] = "none"
          /\ \A u \in WebhookThreads \ {t} : th'[u].room = th'[t].room => th'[u].pc = "read_creator"
      BY <1>1, <1>2, <3>1, StaysAlone
    <3>3. ASSUME th'[t].pc = "invite_first", NEW h \in Humans, <<th'[t].room, h>> \in invited'
          PROVE  FALSE
      <4>1. th'[t] = th[t] /\ th[t].pc = "invite_first"
        BY <2>4, <3>3
      <4>2. th[t].room \in Rooms /\ <<th[t].room, h>> \notin invited
        BY <1>1, <3>1, <4>1, RoomThread DEF MadeAlone
      <4>3. PICK u \in WebhookThreads : (InviteReceiver(u) \/ InviteFirst(u)) /\ th[u].room = th[t].room
        BY <1>1, <3>3, <4>1, <4>2, InvitedByThreads
      <4>4. th[u].pc # "read_creator"
        BY <4>3 DEF InviteReceiver, InviteFirst, Calls, At
      <4>5. u = t
        BY <3>1, <4>3, <4>4 DEF MadeAlone
      <4>6. ~ InviteReceiver(t)
        BY <4>1 DEF InviteReceiver, Calls, At
      <4>7. th'[t].pc \in {"invite_bot", "idle"}
        BY <1>1, <4>3, <4>5, <4>6, MadeInOrder
      <4>8. QED
        BY <3>3, <4>7
    <3>4. QED
      BY <3>2, <3>3
  <2>5. QED
    BY <2>2, <2>3, <2>4
<1>3. QED
  BY <1>2 DEF MadeAlone

\* A thread that makes a room is not refused.
LEMMA MakersAreGranted ==
  ASSUME PInv, CreatorsAreIn, MadeAlone, NEW t \in WebhookThreads, BeingMade(t)
  PROVE  Granted(t)
<1>1. /\ th[t].pc \in {"invite_first", "invite_bot"}
      /\ th[t].room \in Rooms
      /\ th[t].receiver \in Humans
      /\ creator[th[t].room] = th[t].sender
      /\ creator[th[t].room] # None
  BY RoomThread, ThreadWithRoom DEF BeingMade, PInv
<1>2. member[th[t].room][th[t].sender] = "join"
  BY <1>1 DEF CreatorsAreIn
<1>3. CASE th[t].pc = "invite_first"
  <2>1. <<th[t].room, th[t].receiver>> \notin invited
    BY <1>1, <1>3 DEF MadeAlone, BeingMade
  <2>2. member[th[t].room][th[t].receiver] # "join"
    BY <1>1, <2>1 DEF PInv, MembersAreInvited
  <2>3. QED
    BY <1>2, <1>3, <2>2 DEF Granted, MayInvite
<1>4. CASE th[t].pc = "invite_bot"
  <2>1. member[th[t].room][Bot] # "join"
    BY <1>4 DEF MadeAlone, BeingMade
  <2>2. QED
    BY <1>2, <1>4, <2>1 DEF Granted, MayInvite
<1>5. QED
  BY <1>1, <1>3, <1>4

\* As long as no call fails, it goes on until the bot is invited.
LEMMA MakersGoOn ==
  ASSUME PInv, CreatorsAreIn, MadeAlone, [Next]_vars, faults' = faults,
         NEW t \in WebhookThreads, BeingMade(t), NEW r, r = th[t].room
  PROVE  WillBeRead(r)' \/ (th'[t].room = r /\ BeingMade(t)')
<1>1. /\ th[t].pc \in {"invite_first", "invite_bot"}
      /\ th[t].room \in Rooms
      /\ IInv
      /\ ThreadMoved(t)
  BY RoomThread, ThreadMoves DEF BeingMade, PInv
<1>2. th'[t] # Idle
  <2>1. th[t] # Idle
    BY <1>1 DEF Idle
  <2>2. Granted(t)
    BY MakersAreGranted
  <2>3. ~ Calls(t, "send") /\ ~ Calls(t, "find_member")
    BY <1>1 DEF Calls, At
  <2>4. QED
    BY <1>1, <2>1, <2>2, <2>3, WhyThreadsEnd
<1>3. CASE InviteBot(t)
  <2>1. botEvent' = [botEvent EXCEPT ![th[t].room] = "invite"]
    BY <1>3 DEF InviteBot
  <2>2. botEvent'[th[t].room] = "invite" /\ th'[t].pc \in {"send", "idle"}
    BY <1>1, <1>3, <2>1, MadeInOrder DEF IInv, DataTypes
  <2>3. th'[t].room = th[t].room
    BY <1>1, <1>2, <2>2 DEF ThreadMoved, RoomlessPcs
  <2>4. QED
    BY <2>2, <2>3 DEF WillBeRead
<1>4. CASE ~ InviteBot(t)
  <2>1. ~ CreateRoom(t) /\ ~ ReadCreator(t) /\ th[t].pc \notin KnownRoomPcs \cup RoomlessPcs \cup {"idle"}
    BY <1>1 DEF CreateRoom, ReadCreator, Calls, At, KnownRoomPcs, RoomlessPcs
  <2>2. th'[t] = th[t] \/ (th'[t].room = th[t].room /\ th'[t].pc = "invite_bot")
    BY <1>1, <1>2, <1>4, <2>1 DEF ThreadMoved
  <2>3. QED
    BY <1>1, <2>2 DEF BeingMade
<1>5. QED
  BY <1>3, <1>4

LEMMA RoomsGetReadStep ==
  ASSUME PInv, CreatorsAreIn, MadeAlone, RoomsGetRead, [Next]_vars
  PROVE  RoomsGetRead'
<1> SUFFICES ASSUME faults' = 0, NEW r \in Rooms, creator'[r] # None
             PROVE  WillBeRead(r)' \/ \E t \in WebhookThreads : th'[t].room = r /\ BeingMade(t)'
  BY DEF RoomsGetRead
<1>1. IInv /\ faults = 0 /\ faults' = faults /\ faults' # faults + 1
  BY FaultsAreCounted DEF PInv
<1>2. CASE creator[r] = None
  <2>1. PICK t \in WebhookThreads : CreateRoom(t)
    BY <1>1, <1>2, MembersChange
  <2>2. PICK q \in Rooms :
          /\ creator' = [creator EXCEPT ![q] = th[t].sender]
          /\ Answered(t, [th[t] EXCEPT !.pc = "invite_first", !.room = q])
    BY <2>1 DEF CreateRoom
  <2>3. q = r
    BY <1>1, <1>2, <2>2 DEF IInv, DataTypes
  <2>4. th[t] \in ThreadRecord /\ th \in [WebhookThreads -> Thread]
    BY <1>1 DEF IInv, ThreadsFit, Thread
  <2>5. th'[t] = [th[t] EXCEPT !.pc = "invite_first", !.room = r]
    BY <1>1, <2>2, <2>3, <2>4 DEF Answered
  <2>6. th'[t].room = r /\ th'[t].pc = "invite_first"
    BY <2>4, <2>5 DEF ThreadRecord
  <2>7. QED
    BY <2>6 DEF BeingMade
<1>3. CASE creator[r] # None
  <2>1. CASE WillBeRead(r)
    BY <1>1, <2>1, StaysRead
  <2>2. ASSUME NEW t \in WebhookThreads, th[t].room = r, BeingMade(t)
        PROVE  WillBeRead(r)' \/ (th'[t].room = r /\ BeingMade(t)')
    BY <1>1, <2>2, MakersGoOn
  <2>3. QED
    BY <1>1, <1>3, <2>1, <2>2 DEF RoomsGetRead
<1>4. QED
  BY <1>2, <1>3

LEMMA KnownRoomsGetReadStep ==
  ASSUME IInv, KnownRoomsGetRead, [Next]_vars
  PROVE  KnownRoomsGetRead'
<1> SUFFICES ASSUME faults' = 0
             PROVE  /\ \A t \in WebhookThreads : th'[t].pc \in KnownRoomPcs => WillBeRead(th[t].room)'
                    /\ \A m \in sent' : WillBeRead(m.room)'
  BY DEF KnownRoomsGetRead
<1>1. /\ faults = 0 /\ faults' = faults
      /\ IInv'
  BY IInvStep, FaultsAreCounted
<1>2. ASSUME NEW t \in WebhookThreads, th[t].pc \in KnownRoomPcs
      PROVE  th[t].room \in Rooms /\ WillBeRead(th[t].room)
  BY <1>1, <1>2, RoomThread DEF KnownRoomsGetRead, KnownRoomPcs, ExistingPcs
<1>3. ASSUME NEW t \in WebhookThreads, th'[t].pc \in KnownRoomPcs
      PROVE  WillBeRead(th[t].room)'
  <2>1. ThreadMoved(t)
    BY ThreadMoves
  <2>2. th'[t].pc \notin RoomlessPcs \cup {"read_creator", "invite_first", "invite_bot"} /\ th'[t] # Idle
    BY <1>3 DEF KnownRoomPcs, RoomlessPcs, Idle
  <2>3. CASE th'[t].room = th[t].room /\ th[t].pc \in KnownRoomPcs
    BY <1>1, <1>2, <2>3, StaysRead
  <2>4. CASE th'[t].room = th[t].room /\ ReadCreator(t)
    <3>1. th[t].pc = "read_creator" /\ th[t].room \in readable
      BY <2>4 DEF ReadCreator, Calls, At, Granted
    <3>2. th[t].room \in Rooms /\ WillBeRead(th[t].room)
      BY <3>1 DEF WillBeRead, IInv, DataTypes
    <3>3. QED
      BY <1>1, <2>4, <3>2, StaysRead
  <2>5. CASE th'[t].room = th[t].room /\ InviteBot(t)
    <3>1. th[t].pc = "invite_bot" /\ botEvent' = [botEvent EXCEPT ![th[t].room] = "invite"]
      BY <2>5 DEF InviteBot, Calls, At
    <3>2. th[t].room \in Rooms
      BY <3>1, RoomThread
    <3>3. QED
      BY <2>5, <3>1, <3>2 DEF WillBeRead, IInv, DataTypes
  <2>6. QED
    BY <1>3, <2>1, <2>2, <2>3, <2>4, <2>5 DEF ThreadMoved
<1>4. ASSUME NEW m \in sent'
      PROVE  WillBeRead(m.room)'
  <2>1. CASE m \in sent
    <3>1. m.room \in Rooms /\ WillBeRead(m.room)
      BY <1>1, <2>1 DEF IInv, DataTypes, Message, KnownRoomsGetRead
    <3>2. QED
      BY <1>1, <3>1, StaysRead
  <2>2. ASSUME NEW t \in WebhookThreads, Calls(t, "send"), m.room = th[t].room
        PROVE  WillBeRead(m.room)'
    <3>1. th[t].pc \in KnownRoomPcs
      BY <2>2 DEF Calls, At, KnownRoomPcs
    <3>2. m.room \in Rooms /\ WillBeRead(m.room)
      BY <1>2, <2>2, <3>1
    <3>3. QED
      BY <1>1, <3>2, StaysRead
  <2>3. QED
    BY <2>1, <2>2, SentByThreads
<1>5. QED
  BY <1>3, <1>4

LEMMA RInvStep == OneReceiver /\ RInv /\ [Next]_vars => RInv'
BY PInvStep, CreatorsAreInStep, SentBySendersStep, MadeAloneStep, ReadableRoomsExistStep,
   RoomsGetReadStep, KnownRoomsGetReadStep, BotIsAboutToLeaveStep
DEF RInv, PInv

LEMMA RInvInit == Init => RInv
<1> SUFFICES ASSUME Init PROVE RInv
  OBVIOUS
<1>1. Idle.pc = "idle"
  BY DEF Idle
<1>2. PInv
  BY PInvInit
<1>3. CreatorsAreIn /\ SentBySenders /\ ReadableRoomsExist /\ RoomsGetRead
  BY DEF Init, CreatorsAreIn, SentBySenders, ReadableRoomsExist, RoomsGetRead
<1>4. MadeAlone /\ KnownRoomsGetRead
  BY <1>1 DEF Init, MadeAlone, BeingMade, KnownRoomsGetRead, KnownRoomPcs
<1>5. BotIsAboutToLeave
  BY DEF Init, BotIsAboutToLeave, NoMembers, Users
<1>6. QED
  BY <1>2, <1>3, <1>4, <1>5 DEF RInv

-----------------------------------------------------------------------------
(***************************************************************************)
(* The way back, and messages that are dropped                             *)
(***************************************************************************)

\* A direct message channel is known by the users at its ends (comment "a user can only have
\* one direct message room with another user", room.rs:257).
OneChannelEach == \A c, d \in Channels : Ends[c] = Ends[d] => c = d

\* Nobody but the sender, the receiver and the bot is ever in a room.
LEMMA MembersOfRooms ==
  ASSUME PInv, NEW r \in Rooms, NEW u \in Joined(member, r)
  PROVE  \/ u = Bot
         \/ u \in Virtuals /\ u = creator[r]
         \/ u \in Humans /\ <<r, u>> \in invited
<1>1. u \in Users /\ member[r][u] = "join"
  BY DEF Joined
<1>2. u \in Virtuals => u = creator[r]
  BY <1>1 DEF PInv, IInv, OnlyTheCreator
<1>3. u \in Humans => <<r, u>> \in invited
  BY <1>1 DEF PInv, MembersAreInvited
<1>4. QED
  BY <1>1, <1>2, <1>3 DEF Users

\* The ends of a channel are the sender and the account of the receiver.
LEMMA BothEnds ==
  ASSUME NEW c \in Channels, NEW v \in Ends[c], NEW w \in Ends[c] \ {v}
  PROVE  Ends[c] = {v, w}
<1>1. PICK a, b \in Virtuals : Ends[c] = {a, b}
  BY DirectMessagesFit
<1>2. QED
  BY <1>1

LEMMA AnswersReturnNow ==
  ASSUME OneReceiver, OneChannelEach, RInv
  PROVE  AnswersComeBack
<1> SUFFICES ASSUME NEW m \in sent, m.receiver \in Joined(member, m.room)
             PROVE  /\ ReplyChannels(m.room) = {m.channel}
                    /\ ReplyMayFail(m.room) => botEvent[m.room] # "none" \/ faults > 0
  BY DEF AnswersComeBack
<1> DEFINE r == m.room
           c == m.channel
           g == m.receiver
           v == creator[r]
<1>1. /\ PInv /\ IInv
      /\ r \in Rooms /\ c \in Channels /\ g \in Humans
      /\ v \in Virtuals
      /\ v \in Ends[c]
      /\ Account[g] \in Ends[c] \ {v}
      /\ v # None
  BY DirectMessagesFit DEF RInv, PInv, IInv, DataTypes, Message, SentBySenders, Users
<1>2. Joined(member, r) \cap Virtuals = {v}
  <2>1. v \in Joined(member, r)
    BY <1>1 DEF RInv, CreatorsAreIn, Joined, Users
  <2>2. ASSUME NEW u \in Joined(member, r) \cap Virtuals
        PROVE  u = v
    BY <1>1, <2>2, MembersOfRooms, UsersAreDistinct
  <2>3. QED
    BY <1>1, <2>1, <2>2
<1>3. Joined(member, r) \cap Humans = {g}
  <2>1. ASSUME NEW h \in Joined(member, r) \cap Humans
        PROVE  h = g
    <3>1. <<r, h>> \in invited
      BY <1>1, <2>1, MembersOfRooms, UsersAreDistinct
    <3>2. Writes(v, h)
      BY <1>1, <3>1 DEF PInv, InvitedAreWrittenTo
    <3>3. Writes(v, g)
      BY <1>1 DEF Writes
    <3>4. QED
      BY <1>1, <3>2, <3>3 DEF OneReceiver
  <2>2. QED
    BY <1>1, <2>1
<1>4. {d \in DmChannels(g) : v \in Ends[d]} = {c}
  <2>1. Ends[c] = {v, Account[g]}
    BY <1>1, BothEnds
  <2>2. ASSUME NEW d \in DmChannels(g), v \in Ends[d]
        PROVE  d = c
    <3>1. d \in Channels /\ Account[g] \in Ends[d] \ {v}
      BY <1>1, <2>2 DEF DmChannels
    <3>2. Ends[d] = {v, Account[g]}
      BY <2>2, <3>1, BothEnds
    <3>3. QED
      BY <1>1, <2>1, <3>1, <3>2 DEF OneChannelEach
  <2>3. c \in DmChannels(g)
    BY <1>1 DEF DmChannels
  <2>4. QED
    BY <1>1, <2>2, <2>3
<1>5. ReplyChannels(r) = {c}
  <2>1. ASSUME NEW d \in ReplyChannels(r)
        PROVE  d = c
    <3>1. PICK h \in Joined(member, r) \cap Humans, w \in Joined(member, r) \cap Virtuals :
            d \in {e \in DmChannels(h) : w \in Ends[e]}
      BY <2>1 DEF ReplyChannels
    <3>2. h = g /\ w = v
      BY <1>2, <1>3, <3>1
    <3>3. QED
      BY <1>4, <3>1, <3>2
  <2>2. c \in ReplyChannels(r)
    <3>1. g \in Joined(member, r) \cap Humans /\ v \in Joined(member, r) \cap Virtuals
      BY <1>2, <1>3
    <3>2. c \in {e \in DmChannels(g) : v \in Ends[e]}
      BY <1>4
    <3> DEFINE Matches(h, w) == {e \in DmChannels(h) : w \in Ends[e]}
               humans == Joined(member, r) \cap Humans
               virtuals == Joined(member, r) \cap Virtuals
    <3> HIDE DEF Matches, humans, virtuals, g, v, c
    <3>3. Matches(g, v) \in {Matches(h, w) : h \in humans, w \in virtuals}
      BY <3>1 DEF humans, virtuals
    <3>4. c \in UNION {Matches(h, w) : h \in humans, w \in virtuals}
      <4>1. c \in Matches(g, v)
        BY <3>2 DEF Matches
      <4>2. QED
        BY <3>3, <4>1
    <3>5. QED
      BY <3>4 DEF ReplyChannels, Matches, humans, virtuals
  <2>3. QED
    BY <2>1, <2>2
<1>6. ASSUME ReplyMayFail(r), ~ faults > 0
      PROVE  botEvent[r] # "none"
  <2>1. faults = 0
    BY <1>1, <1>6, DirectMessagesFit DEF IInv, DataTypes
  <2>2. CASE r \notin readable
    BY <2>1, <2>2 DEF RInv, KnownRoomsGetRead, WillBeRead
  <2>3. CASE Bot \in Joined(member, r)
    BY <1>1, <2>1, <2>3 DEF RInv, BotIsAboutToLeave, Joined
  <2>4. QED
    BY <1>6, <2>2, <2>3 DEF ReplyMayFail
<1>7. QED
  BY <1>5, <1>6

LEMMA TwoAtMost ==
  ASSUME NEW a, NEW b, NEW S, S \subseteq {a, b}
  PROVE  ~ Cardinality(S) > 2
<1>1. IsFiniteSet({}) /\ Cardinality({}) = 0
  BY FS_EmptySet
<1>2. IsFiniteSet({a}) /\ Cardinality({a}) = 1
  BY FS_Singleton
<1>3. IsFiniteSet({a, b}) /\ Cardinality({a, b}) <= 2 /\ Cardinality({a, b}) \in Nat
  <2>1. {a} \cup {b} = {a, b}
    OBVIOUS
  <2>2. IsFiniteSet({a} \cup {b})
    BY <1>2, FS_AddElement
  <2>3. Cardinality({a} \cup {b}) = Cardinality({a}) \/ Cardinality({a} \cup {b}) = Cardinality({a}) + 1
    BY <1>2, FS_AddElement
  <2>4. QED
    <3>1. Cardinality({a, b}) = 1 \/ Cardinality({a, b}) = 1 + 1
      BY <1>2, <2>1, <2>3
    <3>2. QED
      BY <2>1, <2>2, <3>1
<1>4. Cardinality(S) <= Cardinality({a, b}) /\ IsFiniteSet(S)
  BY <1>3, FS_Subset
<1>5. Cardinality(S) \in Nat
  BY <1>4, FS_CardinalityType
<1>6. QED
  BY <1>3, <1>4, <1>5

\* A room that has too many members has the bot, who is about to leave.
LEMMA CrowdedByTheBot ==
  ASSUME OneReceiver, RInv, faults = 0, NEW t \in WebhookThreads, th[t].room \in Rooms,
         Cardinality(Joined(member, th[t].room)) > 2
  PROVE  Settling(t)
<1> DEFINE r == th[t].room
<1>1. /\ PInv /\ IInv
      /\ th[t].pc # "idle"
      /\ creator[r] = th[t].sender
      /\ r # None
  BY ThreadWithRoom, DirectMessagesFit DEF RInv, PInv
<1>2. ASSUME Bot \notin Joined(member, r)
      PROVE  FALSE
  <2>1. ASSUME NEW u \in Joined(member, r)
        PROVE  u \in {th[t].sender, th[t].receiver}
    <3>1. CASE u \in Virtuals /\ u = creator[r]
      BY <1>1, <3>1
    <3>2. CASE u \in Humans /\ <<r, u>> \in invited
      BY <1>1, <3>2, OnlyReceiver
    <3>3. QED
      BY <1>1, <1>2, <2>1, <3>1, <3>2, MembersOfRooms
  <2>2. Joined(member, r) \subseteq {th[t].sender, th[t].receiver}
    BY <2>1
  <2>3. QED
    BY <2>2, TwoAtMost
<1>3. botEvent[r] = "join"
  BY <1>2 DEF Joined, RInv, BotIsAboutToLeave
<1>4. QED
  BY <1>1, <1>3 DEF Settling

\* A call that is refused.
LEMMA WhyRefused ==
  ASSUME OneReceiver, RInv, faults = 0, NEW t \in WebhookThreads, ~At(t, "idle"), ~Granted(t)
  PROVE  \/ Settling(t)
         \/ At(t, "register") /\ th[t].sender \in registered
         \/ At(t, "invite_receiver") /\ th[t].receiver \in Joined(member, th[t].room)
<1>1. PInv /\ IInv /\ CreatorsAreIn /\ MadeAlone
  BY DEF RInv, PInv
<1>2. th[t].pc # "idle" /\ th[t].pc \in Pcs
  BY <1>1, BusyThread DEF At, ThreadRecord
<1>3. ASSUME th[t].pc \in ExistingPcs \cup {"send"}
      PROVE  /\ th[t].room \in Rooms /\ th[t].room # None
             /\ th[t].receiver \in Humans
             /\ creator[th[t].room] = th[t].sender
             /\ creator[th[t].room] # None
             /\ member[th[t].room][th[t].sender] = "join"
  BY <1>1, <1>3, RoomThread, ThreadWithRoom, DirectMessagesFit DEF CreatorsAreIn
<1>4. CASE th[t].pc \in {"find_user", "joined_rooms", "check_room", "dm_list", "create"}
  BY <1>4 DEF Granted
<1>5. CASE th[t].pc = "register"
  BY <1>5 DEF Granted, At
<1>6. CASE BeingMade(t)
  BY <1>1, <1>6, MakersAreGranted
<1>7. CASE th[t].pc \in {"find_member", "send"}
  BY <1>3, <1>7 DEF Granted, MayRead, MaySend, ExistingPcs
<1>8. CASE th[t].pc = "invite_receiver"
  <2>1. member[th[t].room][th[t].receiver] = "join"
    BY <1>3, <1>8 DEF Granted, MayInvite, ExistingPcs
  <2>2. QED
    BY <1>3, <1>8, <2>1 DEF At, Joined, Users, ExistingPcs
<1>9. CASE th[t].pc = "check_receiver"
  <2>1. th[t].room \notin readable
    BY <1>3, <1>9 DEF Granted, MayRead, ExistingPcs
  <2>2. botEvent[th[t].room] = "invite"
    BY <1>9, <2>1 DEF RInv, KnownRoomsGetRead, KnownRoomPcs, WillBeRead
  <2>3. QED
    BY <1>3, <1>9, <2>2 DEF Settling, ExistingPcs
<1>10. CASE th[t].pc = "read_creator"
  <2>1. th[t].room \notin readable
    BY <1>10 DEF Granted
  <2>2. botEvent[th[t].room] = "invite" \/ \E u \in WebhookThreads : th[u].room = th[t].room /\ BeingMade(u)
    BY <1>3, <1>10, <2>1 DEF RInv, RoomsGetRead, WillBeRead, ExistingPcs
  <2>3. QED
    BY <1>3, <1>10, <2>2 DEF Settling, ExistingPcs, BeingMade, CreatePcs
<1>11. QED
  BY <1>2, <1>4, <1>5, <1>6, <1>7, <1>8, <1>9, <1>10
  DEF Pcs, LookupPcs, ExistingPcs, CreatePcs, BeingMade

LEMMA DroppedInRaces ==
  ASSUME OneReceiver, RInv, [Next]_vars, NEW t \in WebhookThreads,
         th[t] # Idle, th'[t] = Idle, faults' = 0
  PROVE  \/ At(t, "send") /\ Granted(t)
         \/ Settling(t)
         \/ At(t, "register") /\ th[t].sender \in registered
         \/ At(t, "invite_receiver") /\ th[t].receiver \in Joined(member, th[t].room)
<1>1. IInv /\ faults = 0 /\ faults' = faults
  BY FaultsAreCounted DEF RInv, PInv
<1>2. CASE Calls(t, "send")
  BY <1>2 DEF Calls
<1>3. CASE Calls(t, "find_member") /\ Cardinality(Joined(member, th[t].room)) > 2
  <2>1. th[t].room \in Rooms
    BY <1>1, <1>3, RoomThread DEF Calls, At, ExistingPcs
  <2>2. QED
    BY <1>1, <1>3, <2>1, CrowdedByTheBot
<1>4. CASE ~At(t, "idle") /\ ~Granted(t)
  BY <1>1, <1>4, WhyRefused
<1>5. QED
  BY <1>1, <1>2, <1>3, <1>4, WhyThreadsEnd

-----------------------------------------------------------------------------
(***************************************************************************)
(* Theorems                                                                *)
(***************************************************************************)

\* The invariant, for any channels, users, rooms and threads: rooms, cache and threads belong to
\* the sender of their messages.
THEOREM Inductive == Spec => []IInv
BY IInvInit, IInvStep, PTL DEF Spec

\* Every variable keeps its type: a busy thread has a message, and a room once it found one.
THEOREM TypeCorrect == Spec => []TypeOK
<1>1. IInv => TypeOK
  BY DEF IInv, DataTypes, ThreadsFit, TypeOK
<1>2. QED
  BY <1>1, Inductive, PTL

\* The room that a handler found or created is the sender's own, although the key of the cache
\* names only the receiver (room.rs:75): a channel has two ends.
THEOREM RoomsAreTheSenders == Spec => []RoomIsTheSenders
<1>1. IInv => RoomIsTheSenders
  <2> SUFFICES ASSUME IInv, NEW t \in WebhookThreads, th[t].room # None
               PROVE  creator[th[t].room] = th[t].sender
    BY DEF RoomIsTheSenders
  <2>1. QED
    BY DEF IInv, ThreadsFit, SenderFits
<1>2. QED
  BY <1>1, Inductive, PTL

\* If every sender has one receiver on Matrix, a direct message is sent only to a room its
\* receiver was invited to, and nobody else ever gets in: without the condition there is
\* neither, because the rooms of a sender are told apart by their members alone (room.rs:93).
THEOREM MessagesArePrivate == OneReceiver /\ Spec => [](ReceiverHasAccess /\ NoForeignReader)
<1> DEFINE Private == OneReceiver /\ PInv
<1>1. OneReceiver /\ Init => Private
  BY PInvInit
<1>2. Private /\ [Next]_vars => Private'
  BY PInvStep DEF OneReceiver, Writes
<1>3. Private => ReceiverHasAccess /\ NoForeignReader
  BY DEF PInv, SentPrivately, ReceiverHasAccess, NoForeignReader
<1>4. QED
  BY <1>1, <1>2, <1>3, PTL DEF Spec

\* If every sender has one receiver on Matrix, what the receiver answers in the room of a direct
\* message is posted in the channel of the message and nowhere else, and is not lost but in a
\* room the bot has yet to join or to leave, or after a failed call: the members of the room
\* tell the channel, because nobody else gets in and the creator never leaves (room.rs:257).
THEOREM AnswersReturn == OneReceiver /\ OneChannelEach /\ Spec => []AnswersComeBack
<1> DEFINE Usable == OneReceiver /\ OneChannelEach /\ RInv
<1>1. OneReceiver /\ OneChannelEach /\ Init => Usable
  BY RInvInit
<1>2. Usable /\ [Next]_vars => Usable'
  BY RInvStep DEF OneReceiver, OneChannelEach, Writes
<1>3. Usable => AnswersComeBack
  BY AnswersReturnNow
<1>4. QED
  BY <1>1, <1>2, <1>3, PTL DEF Spec

\* If every sender has one receiver on Matrix and no call has failed, a handler gives a direct
\* message up only in three races: its room is new, the sender was registered or the receiver
\* joined after the handler had looked.  A room that a handler finds is readable for the bot
\* although the bot has left it, has no third member, and the sender is in it.
THEOREM DropsAreRaces == OneReceiver /\ Spec => DroppedOnlyInARace
<1> DEFINE Usable == OneReceiver /\ RInv
           Drops == \A t \in WebhookThreads :
                      th[t] # Idle /\ th'[t] = Idle /\ faults' = 0 =>
                        \/ At(t, "send") /\ Granted(t)
                        \/ Settling(t)
                        \/ At(t, "register") /\ th[t].sender \in registered
                        \/ At(t, "invite_receiver") /\ th[t].receiver \in Joined(member, th[t].room)
<1>1. OneReceiver /\ Init => Usable
  BY RInvInit
<1>2. Usable /\ [Next]_vars => Usable'
  BY RInvStep DEF OneReceiver, Writes
<1>3. Usable /\ [Next]_vars => [Drops]_vars
  BY DroppedInRaces
<1>4. QED
  BY <1>1, <1>2, <1>3, PTL DEF Spec, DroppedOnlyInARace

=============================================================================
