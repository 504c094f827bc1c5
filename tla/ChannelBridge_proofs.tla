------------------------ MODULE ChannelBridge_proofs -------------------------
(***************************************************************************)
(* Theorems about ChannelBridge, for every set of channels, rooms, users   *)
(* and threads and for every bound on the requests and on the faults: of   *)
(* handlers that overlap in any way, and of commands that run one at a     *)
(* time without failures (OneTransaction).                                 *)
(***************************************************************************)

EXTENDS ChannelBridge, TLAPS

(***************************************************************************)
(* Types.  An action replaces the record of one thread, so that the lemmas *)
(* about threads come first and the actions refer to them.                 *)
(***************************************************************************)

\* The record of an idle thread is one of a thread.
LEMMA IdleType == Idle \in Thread
BY DEF Idle, Thread, ThreadRecord, Ops, Pcs, UserPcs, AsUsers

\* The initial state has the right types.
LEMMA InitType == Init => TypeOK
BY ConstantsFit, IdleType
   DEF Init, TypeOK, NoMembers, Membership, Message, Users

\* The record of a thread is typed; a busy thread has a room and a channel.
LEMMA ThreadType ==
  ASSUME TypeOK, NEW t \in Threads
  PROVE  /\ th[t] \in ThreadRecord
         /\ th[t].pc \notin {"idle", "create"} => th[t].room \in Rooms
         /\ th[t].pc \notin {"idle", "read_canonical"} => th[t].channel \in Channels
BY DEF TypeOK, Thread, ThreadRecord

\* A thread that goes from one call to another one stays a thread.
LEMMA MoveType ==
  ASSUME TypeOK, NEW t \in Threads, NEW pc \in Pcs,
         th[t].pc \notin {"idle", "create", "read_canonical"},
         pc \notin {"idle", "create", "read_canonical"},
         pc \in UserPcs => th[t].todo \subseteq Virtuals /\ th[t].who \in th[t].todo
  PROVE  [th[t] EXCEPT !.pc = pc] \in Thread
BY ThreadType, ConstantsFit DEF Thread, ThreadRecord

\* A handler that returns leaves well-typed threads,
LEMMA ReturnType ==
  ASSUME TypeOK, NEW t \in Threads, Return(t)
  PROVE  th' \in [Threads -> Thread]
BY IdleType DEF TypeOK, Return

\* and so does one that goes to its next call without a change to the homeserver,
LEMMA GotoType ==
  ASSUME TypeOK, NEW t \in Threads, NEW pc \in Pcs, Goto(t, pc),
         th[t].pc \notin {"idle", "create", "read_canonical"},
         pc \notin {"idle", "create", "read_canonical"},
         pc \in UserPcs => th[t].todo \subseteq Virtuals /\ th[t].who \in th[t].todo
  PROVE  th' \in [Threads -> Thread]
<1>1. th' = [th EXCEPT ![t] = [th[t] EXCEPT !.pc = pc]]
  BY DEF Goto
<1>2. QED
  BY <1>1, MoveType DEF TypeOK

\* and one whose call is answered, or whose answer is lost.
LEMMA AnsweredType ==
  ASSUME TypeOK, NEW t \in Threads, NEW next \in Thread, Answered(t, next)
  PROVE  th' \in [Threads -> Thread] /\ faults' \in 0..MaxFaults
BY ConstantsFit, IdleType DEF TypeOK, Answered, Return

\* A thread that is done with a user stays a thread.
LEMMA UserDoneType ==
  ASSUME TypeOK, NEW t \in Threads, th[t].pc \in UserPcs
  PROVE  UserDone(th[t]) \in Thread
<1>1. /\ th[t] \in ThreadRecord
      /\ th[t].room \in Rooms
      /\ th[t].channel \in Channels
      /\ th[t].todo \subseteq Virtuals
  BY DEF TypeOK, Thread, ThreadRecord, UserPcs
<1>2. \E pc \in {"find_user", "report_bridged", "send"} :
        UserDone(th[t]) = [th[t] EXCEPT !.todo = th[t].todo \ {th[t].who}, !.pc = pc]
  <2>1. CASE th[t].todo \ {th[t].who} # {}
    BY <2>1 DEF UserDone
  <2>2. CASE th[t].todo \ {th[t].who} = {} /\ th[t].op = "bridge"
    BY <2>2 DEF UserDone
  <2>3. CASE th[t].todo \ {th[t].who} = {} /\ th[t].op # "bridge"
    BY <2>3 DEF UserDone
  <2>4. QED
    BY <2>1, <2>2, <2>3
<1>3. PICK pc \in {"find_user", "report_bridged", "send"} :
        UserDone(th[t]) = [th[t] EXCEPT !.todo = th[t].todo \ {th[t].who}, !.pc = pc]
  BY <1>2
<1>4. UserDone(th[t]) \in ThreadRecord
  BY <1>1, <1>3 DEF ThreadRecord, Pcs, UserPcs
<1>5. /\ UserDone(th[t]).room = th[t].room
      /\ UserDone(th[t]).channel = th[t].channel
      /\ UserDone(th[t]).todo \subseteq th[t].todo
      /\ UserDone(th[t]).pc = pc
  BY <1>1, <1>3 DEF ThreadRecord
<1>6. QED
  BY <1>1, <1>4, <1>5, ConstantsFit DEF Thread, UserPcs

\* Inviting, joining and leaving keep memberships typed.
LEMMA MemberType ==
  ASSUME TypeOK, NEW r, NEW u
  PROVE  /\ Invite(member, r, u) \in [Rooms -> [Users -> Membership]]
         /\ Join(member, r, u) \in [Rooms -> [Users -> Membership]]
         /\ Leave(member, r, u) \in [Rooms -> [Users -> Membership]]
BY DEF TypeOK, Invite, Join, Leave, Membership

\* The calls of a bridge command keep the types.
LEMMA BridgingType ==
  ASSUME TypeOK, NEW t \in Threads, Bridging(t)
  PROVE  TypeOK'
<1>1. CASE CheckRequester(t)
  <2>1. th' \in [Threads -> Thread]
    BY <1>1, ReturnType, GotoType DEF CheckRequester, Pcs, UserPcs, Calls, At
  <2>2. QED
    BY <1>1, <2>1 DEF CheckRequester, TypeOK, hsVars, reportVars, messageVars
<1>2. CASE InviteAgain(t)
  <2>1. [th[t] EXCEPT !.pc = "report_bridged"] \in Thread
    BY <1>2, MoveType DEF InviteAgain, Calls, At, Pcs, UserPcs
  <2>2. th' \in [Threads -> Thread] /\ faults' \in 0..MaxFaults
    BY <1>2, <2>1, AnsweredType DEF InviteAgain
  <2>3. QED
    BY <1>2, <2>2, MemberType DEF InviteAgain, TypeOK, reportVars, messageVars
<1>3. CASE CreateRoom(t)
  <2>1. PICK r \in Rooms :
          /\ madeFor' = [madeFor EXCEPT ![r] = th[t].channel]
          /\ alias' = [alias EXCEPT ![th[t].channel] = r]
          /\ member' = Join(member, r, Bot)
          /\ Answered(t, [th[t] EXCEPT !.pc = "invite_requester", !.room = r])
    BY <1>3 DEF CreateRoom
  <2>2. th[t].pc = "create" /\ th[t].channel \in Channels /\ th[t] \in ThreadRecord
    BY <1>3, ThreadType DEF CreateRoom, Calls, At
  <2>3. [th[t] EXCEPT !.pc = "invite_requester", !.room = r] \in Thread
    BY <2>2, ConstantsFit DEF Thread, ThreadRecord, Pcs, CreatePcs, UserPcs
  <2>4. th' \in [Threads -> Thread] /\ faults' \in 0..MaxFaults
    BY <2>1, <2>3, AnsweredType
  <2>5. QED
    BY <1>3, <2>1, <2>2, <2>4, MemberType DEF CreateRoom, TypeOK, reportVars, messageVars
<1>4. CASE InviteRequester(t)
  <2>1. [th[t] EXCEPT !.pc = "put_canonical"] \in Thread
    BY <1>4, MoveType DEF InviteRequester, Calls, At, Pcs, CreatePcs, UserPcs
  <2>2. th' \in [Threads -> Thread] /\ faults' \in 0..MaxFaults
    BY <1>4, <2>1, AnsweredType DEF InviteRequester
  <2>3. QED
    BY <1>4, <2>2, MemberType DEF InviteRequester, TypeOK, reportVars, messageVars
<1>5. CASE PutCanonical(t)
  <2>1. th[t].pc = "put_canonical" /\ th[t].channel \in Channels /\ th[t].room \in Rooms
        /\ th[t] \in ThreadRecord
    BY <1>5, ThreadType DEF PutCanonical, Calls, At
  <2>2. RcMembers[th[t].channel] \in SUBSET AsUsers
    BY <2>1, ConstantsFit DEF AsUsers
  <2>3. [th[t] EXCEPT !.pc = "find_user", !.todo = RcMembers[th[t].channel]] \in Thread
    BY <2>1, <2>2, ConstantsFit DEF Thread, ThreadRecord, Pcs, UserPcs
  <2>4. th' \in [Threads -> Thread] /\ faults' \in 0..MaxFaults
    BY <1>5, <2>3, AnsweredType DEF PutCanonical
  <2>5. QED
    BY <1>5, <2>1, <2>4 DEF PutCanonical, TypeOK, reportVars, messageVars
<1>6. CASE ReportBridged(t)
  <2>1. th[t].channel \in Channels /\ th[t].room \in Rooms
    BY <1>6, ThreadType DEF ReportBridged, Calls, At
  <2>2. th' \in [Threads -> Thread]
    BY <1>6, ReturnType DEF ReportBridged
  <2>3. QED
    BY <1>6, <2>1, <2>2 DEF ReportBridged, TypeOK, hsVars, messageVars
<1>7. QED
  BY <1>1, <1>2, <1>3, <1>4, <1>5, <1>6 DEF Bridging

\* A thread that brings in a user knows which one.
LEMMA WhoType ==
  ASSUME TypeOK, NEW t \in Threads, th[t].pc \in UserPcs
  PROVE  /\ th[t].todo \subseteq Virtuals
         /\ th[t].pc # "find_user" => th[t].who \in th[t].todo /\ th[t].who \in Virtuals
BY DEF TypeOK, Thread, UserPcs

\* So do the calls that bring virtual users into a room,
LEMMA JoiningUsersType ==
  ASSUME TypeOK, NEW t \in Threads, JoiningUsers(t)
  PROVE  TypeOK'
<1>0. /\ th[t].pc \in UserPcs
      /\ th[t].pc \notin {"idle", "create", "read_canonical"}
      /\ {"check_joined", "invite_user", "join_user", "register"} \subseteq UserPcs
      /\ UserPcs \subseteq Pcs
      /\ UserPcs \cap {"idle", "create", "read_canonical"} = {}
  BY DEF JoiningUsers, FindUser, RegisterUser, CheckJoined, InviteUser, JoinUser, Calls, At, UserPcs, Pcs
<1>1. CASE FindUser(t)
  <2>1. PICK v \in th[t].todo :
          th' = [th EXCEPT ![t].who = v,
                           ![t].pc = IF v \in registered THEN "check_joined" ELSE "register"]
    BY <1>1 DEF FindUser
  <2>2. PICK pc \in {"check_joined", "register"} :
          th' = [th EXCEPT ![t] = [th[t] EXCEPT !.who = v, !.pc = pc]]
    BY <2>1
  <2>3. /\ th[t] \in ThreadRecord
        /\ th[t].room \in Rooms
        /\ th[t].channel \in Channels
        /\ th[t].todo \subseteq Virtuals
    BY <1>0, ThreadType, WhoType
  <2>4. [th[t] EXCEPT !.who = v, !.pc = pc] \in Thread
    BY <2>3, ConstantsFit DEF Thread, ThreadRecord, Pcs, UserPcs
  <2>5. th' \in [Threads -> Thread]
    BY <2>2, <2>4 DEF TypeOK
  <2>6. QED
    BY <1>1, <2>5 DEF FindUser, TypeOK, hsVars, reportVars, messageVars
<1>2. CASE RegisterUser(t)
  <2>1. th[t].who \in Virtuals /\ th[t].who \in th[t].todo /\ th[t].todo \subseteq Virtuals
    BY <1>0, <1>2, WhoType DEF RegisterUser, Calls, At
  <2>2. [th[t] EXCEPT !.pc = "check_joined"] \in Thread
    BY <1>0, <2>1, MoveType
  <2>3. th' \in [Threads -> Thread] /\ faults' \in 0..MaxFaults
    BY <1>2, <2>2, AnsweredType DEF RegisterUser
  <2>4. QED
    BY <1>2, <2>1, <2>3 DEF RegisterUser, TypeOK, reportVars, messageVars
<1>3. CASE CheckJoined(t)
  <2>1. th[t].who \in th[t].todo /\ th[t].todo \subseteq Virtuals
    BY <1>0, <1>3, WhoType DEF CheckJoined, Calls, At
  <2>2. CASE th' = [th EXCEPT ![t] = UserDone(th[t])]
    BY <1>0, <1>3, <2>2, UserDoneType DEF CheckJoined, TypeOK, hsVars, reportVars, messageVars
  <2>3. CASE Goto(t, "invite_user")
    <3>1. th' \in [Threads -> Thread]
      BY <1>0, <2>1, <2>3, GotoType
    <3>2. QED
      BY <1>3, <3>1 DEF CheckJoined, TypeOK, hsVars, reportVars, messageVars
  <2>4. QED
    BY <1>3, <2>2, <2>3 DEF CheckJoined
<1>4. CASE InviteUser(t)
  <2>1. th[t].who \in th[t].todo /\ th[t].todo \subseteq Virtuals
    BY <1>0, <1>4, WhoType DEF InviteUser, Calls, At
  <2>2. [th[t] EXCEPT !.pc = "join_user"] \in Thread
    BY <1>0, <2>1, MoveType
  <2>3. th' \in [Threads -> Thread] /\ faults' \in 0..MaxFaults
    BY <1>4, <2>2, AnsweredType DEF InviteUser
  <2>4. QED
    BY <1>4, <2>3, MemberType DEF InviteUser, TypeOK, reportVars, messageVars
<1>5. CASE JoinUser(t)
  <2>1. th' \in [Threads -> Thread] /\ faults' \in 0..MaxFaults
    BY <1>0, <1>5, UserDoneType, AnsweredType DEF JoinUser
  <2>2. th[t].room \in Rooms /\ th[t].who \in Virtuals
    BY <1>0, <1>5, ThreadType, WhoType DEF JoinUser, Calls, At
  <2>3. latecomers' \subseteq Rooms \X Virtuals
    BY <1>5, <2>2 DEF JoinUser, TypeOK
  <2>4. member' \in [Rooms -> [Users -> Membership]]
    BY <1>5, MemberType DEF JoinUser
  <2>5. UNCHANGED <<alias, canonical, otherAlias, madeFor, registered, bridged, unbridged,
                    messageVars, requests>>
    BY <1>5 DEF JoinUser
  <2>6. QED
    BY <2>1, <2>3, <2>4, <2>5 DEF TypeOK, messageVars
<1>6. QED
  BY <1>1, <1>2, <1>3, <1>4, <1>5 DEF JoiningUsers

\* the calls of an unbridge command: all users that leave are the application service's,
LEMMA UnbridgingType ==
  ASSUME TypeOK, NEW t \in Threads, Unbridging(t)
  PROVE  TypeOK'
<1>0. /\ th[t] \in ThreadRecord
      /\ th[t].pc \in UnbridgePcs
      /\ th[t].room \in Rooms
      /\ th[t].channel \in Channels
      /\ UnbridgePcs \subseteq Pcs
      /\ UnbridgePcs \cap ({"idle", "create", "read_canonical"} \cup UserPcs) = {}
  BY ThreadType DEF Unbridging, Snapshot, CheckAliases, DeleteAlias, Forget, ReportUnbridged,
     Calls, At, UnbridgePcs, UserPcs, Pcs
<1>1. CASE Snapshot(t)
  <2>1. CASE Return(t)
    BY <1>1, <2>1, ReturnType DEF Snapshot, TypeOK, hsVars, reportVars, messageVars
  <2>2. CASE /\ Joined(member, th[t].room) \subseteq AsUsers
             /\ th' = [th EXCEPT ![t].pc = "check_aliases", ![t].todo = Joined(member, th[t].room)]
    <3>1. [th[t] EXCEPT !.pc = "check_aliases", !.todo = Joined(member, th[t].room)] \in Thread
      BY <1>0, <2>2, ConstantsFit DEF Thread, ThreadRecord, UnbridgePcs, UserPcs
    <3>2. th' = [th EXCEPT ![t] = [th[t] EXCEPT !.pc = "check_aliases", !.todo = Joined(member, th[t].room)]]
      BY <2>2
    <3>3. QED
      BY <1>1, <3>1, <3>2 DEF Snapshot, TypeOK, hsVars, reportVars, messageVars
  <2>3. QED
    BY <1>1, <2>1, <2>2 DEF Snapshot
<1>2. CASE CheckAliases(t)
  <2>1. th' \in [Threads -> Thread]
    BY <1>0, <1>2, ReturnType, GotoType DEF CheckAliases, UnbridgePcs
  <2>2. QED
    BY <1>2, <2>1 DEF CheckAliases, TypeOK, hsVars, reportVars, messageVars
<1>3. CASE DeleteAlias(t)
  <2>1. [th[t] EXCEPT !.pc = "forget"] \in Thread
    BY <1>0, MoveType DEF UnbridgePcs
  <2>2. th' \in [Threads -> Thread] /\ faults' \in 0..MaxFaults
    BY <1>3, <2>1, AnsweredType DEF DeleteAlias
  <2>3. QED
    BY <1>0, <1>3, <2>2 DEF DeleteAlias, TypeOK, reportVars, messageVars
<1>4. CASE Forget(t)
  <2>1. PICK u \in th[t].todo :
          \/ /\ member' = Leave(member, th[t].room, u)
             /\ Answered(t, [th[t] EXCEPT !.todo = @ \ {u},
                              !.pc = IF th[t].todo = {u} THEN "report_unbridged" ELSE "forget"])
          \/ /\ Return(t)
             /\ UNCHANGED <<member, faults>>
    BY <1>4 DEF Forget
  <2>2. CASE Return(t) /\ UNCHANGED <<member, faults>>
    BY <1>4, <2>2, ReturnType DEF Forget, TypeOK, reportVars, messageVars
  <2>3. CASE /\ member' = Leave(member, th[t].room, u)
             /\ Answered(t, [th[t] EXCEPT !.todo = @ \ {u},
                              !.pc = IF th[t].todo = {u} THEN "report_unbridged" ELSE "forget"])
    <3>1. PICK pc \in {"report_unbridged", "forget"} :
            Answered(t, [th[t] EXCEPT !.todo = th[t].todo \ {u}, !.pc = pc])
      BY <2>3
    <3>2. [th[t] EXCEPT !.todo = th[t].todo \ {u}, !.pc = pc] \in Thread
      BY <1>0, ConstantsFit DEF Thread, ThreadRecord, UnbridgePcs, UserPcs
    <3>3. th' \in [Threads -> Thread] /\ faults' \in 0..MaxFaults
      BY <3>1, <3>2, AnsweredType
    <3>4. QED
      BY <1>4, <2>3, <3>3, MemberType DEF Forget, TypeOK, reportVars, messageVars
  <2>4. QED
    BY <2>1, <2>2, <2>3
<1>5. CASE ReportUnbridged(t)
  BY <1>0, <1>5, ReturnType DEF ReportUnbridged, TypeOK, hsVars, messageVars
<1>6. QED
  BY <1>1, <1>2, <1>3, <1>4, <1>5 DEF Unbridging

\* the calls that make a message cross: a channel that is read is not None,
LEMMA ForwardingType ==
  ASSUME TypeOK, NEW t \in Threads, Forwarding(t)
  PROVE  TypeOK'
<1>1. CASE SendToRoom(t)
  <2>1. th[t].channel \in Channels /\ th[t].room \in Rooms
    BY <1>1, ThreadType DEF SendToRoom, Calls, At
  <2>2. th' \in [Threads -> Thread]
    BY <1>1, ReturnType DEF SendToRoom
  <2>3. forwarded' \subseteq Message
    BY <1>1, <2>1 DEF SendToRoom, TypeOK, Message, When
  <2>4. QED
    BY <1>1, <2>2, <2>3 DEF SendToRoom, TypeOK, hsVars, reportVars
<1>2. CASE ReadCanonical(t)
  <2>1. CASE Return(t)
    BY <1>2, <2>1, ReturnType DEF ReadCanonical, TypeOK, hsVars, reportVars, messageVars
  <2>2. CASE /\ canonical[th[t].room] # None
             /\ th' = [th EXCEPT ![t].pc = "post", ![t].channel = canonical[th[t].room]]
    <3>1. th[t] \in ThreadRecord /\ th[t].room \in Rooms
      BY <1>2, ThreadType DEF ReadCanonical, Calls, At
    <3>2. canonical[th[t].room] \in Channels
      BY <2>2, <3>1 DEF TypeOK
    <3>3. [th[t] EXCEPT !.pc = "post", !.channel = canonical[th[t].room]] \in Thread
      BY <3>1, <3>2, ConstantsFit DEF Thread, ThreadRecord, Pcs, UserPcs
    <3>4. th' = [th EXCEPT ![t] = [th[t] EXCEPT !.pc = "post", !.channel = canonical[th[t].room]]]
      BY <2>2
    <3>5. QED
      BY <1>2, <3>3, <3>4 DEF ReadCanonical, TypeOK, hsVars, reportVars, messageVars
  <2>3. QED
    BY <1>2, <2>1, <2>2 DEF ReadCanonical
<1>3. CASE PostInChannel(t)
  <2>1. th[t].channel \in Channels /\ th[t].room \in Rooms
    BY <1>3, ThreadType DEF PostInChannel, Calls, At
  <2>2. th' \in [Threads -> Thread]
    BY <1>3, ReturnType DEF PostInChannel
  <2>3. posted' \subseteq Message
    BY <1>3, <2>1 DEF PostInChannel, TypeOK, Message, When
  <2>4. QED
    BY <1>3, <2>2, <2>3 DEF PostInChannel, TypeOK, hsVars, reportVars
<1>4. QED
  BY <1>1, <1>2, <1>3 DEF Forwarding

\* the beginnings of all handlers: a command that finds no room starts by creating one,
LEMMA RequestType ==
  ASSUME TypeOK, NEW t \in Threads, Request(t)
  PROVE  TypeOK'
<1>1. \A request \in Thread : Begin(t, request) =>
        th' \in [Threads -> Thread] /\ requests' \in 0..MaxRequests
  BY ConstantsFit DEF Begin, TypeOK
<1>2. ASSUME NEW h \in Humans, NEW c \in Channels, BridgeCommand(t, h, c)
      PROVE  TypeOK'
  <2>1. [Idle EXCEPT !.op = "bridge", !.user = h, !.channel = c, !.room = MatrixId(c),
                     !.pc = IF MatrixId(c) = None THEN "create" ELSE "check_requester"] \in Thread
    BY ConstantsFit DEF Idle, MatrixId, Thread, ThreadRecord, Ops, Pcs, CreatePcs, UserPcs,
       AsUsers, Users, TypeOK
  <2>2. QED
    BY <1>1, <1>2, <2>1 DEF BridgeCommand, TypeOK, hsVars, reportVars, messageVars
<1>3. ASSUME NEW h \in Humans, NEW c \in Channels, UnbridgeCommand(t, h, c)
      PROVE  TypeOK'
  <2>1. MatrixId(c) \in Rooms
    BY <1>3 DEF UnbridgeCommand, MatrixId, TypeOK
  <2>2. [Idle EXCEPT !.op = "unbridge", !.user = h, !.channel = c, !.room = MatrixId(c),
                     !.pc = "snapshot"] \in Thread
    BY <2>1, ConstantsFit DEF Idle, Thread, ThreadRecord, Ops, Pcs, UnbridgePcs, UserPcs, AsUsers, Users
  <2>3. QED
    BY <1>1, <1>3, <2>2 DEF UnbridgeCommand, TypeOK, hsVars, reportVars, messageVars
<1>4. ASSUME NEW v \in Virtuals, NEW c \in Channels, Webhook(t, v, c)
      PROVE  TypeOK'
  <2>1. MatrixId(c) \in Rooms
    BY <1>4 DEF Webhook, MatrixId, TypeOK
  <2>2. [Idle EXCEPT !.op = "webhook", !.user = v, !.channel = c, !.room = MatrixId(c),
                     !.pc = "find_user", !.todo = {v}] \in Thread
    BY <2>1, ConstantsFit DEF Idle, Thread, ThreadRecord, Ops, Pcs, UserPcs, AsUsers, Users
  <2>3. QED
    BY <1>1, <1>4, <2>2 DEF Webhook, TypeOK, hsVars, reportVars, messageVars
<1>5. ASSUME NEW h \in Humans, NEW r \in Rooms, RoomMessage(t, h, r)
      PROVE  TypeOK'
  <2>1. [Idle EXCEPT !.op = "message", !.user = h, !.room = r, !.pc = "read_canonical"] \in Thread
    BY ConstantsFit DEF Idle, Thread, ThreadRecord, Ops, Pcs, UserPcs, AsUsers, Users
  <2>2. QED
    BY <1>1, <1>5, <2>1 DEF RoomMessage, TypeOK, hsVars, reportVars, messageVars
<1>6. QED
  BY <1>2, <1>3, <1>4, <1>5 DEF Request

\* and what Matrix users do, and a crash.
LEMMA EnvironmentType ==
  ASSUME TypeOK, Environment
  PROVE  TypeOK'
<1>1. ASSUME NEW h \in Humans, NEW r \in Rooms,
             UserJoins(h, r) \/ UserLeaves(h, r)
      PROVE  TypeOK'
  BY <1>1, MemberType DEF UserJoins, UserLeaves, TypeOK, reportVars, messageVars
<1>2. ASSUME NEW h \in Humans, NEW r \in Rooms,
             UserAddsAlias(h, r) \/ UserRemovesAlias(r)
      PROVE  TypeOK'
  BY <1>2 DEF UserAddsAlias, UserRemovesAlias, TypeOK, reportVars, messageVars
<1>3. ASSUME NEW r \in Rooms, UserRemovesAlias(r)
      PROVE  TypeOK'
  BY <1>3 DEF UserRemovesAlias, TypeOK, reportVars, messageVars
<1>4. CASE Crash
  BY <1>4, IdleType, ConstantsFit DEF Crash, TypeOK, hsVars, reportVars, messageVars
<1>5. QED
  BY <1>1, <1>2, <1>3, <1>4 DEF Environment

\* TypeOK is inductive.
LEMMA TypeStep == TypeOK /\ [Next]_vars => TypeOK'
<1>1. SUFFICES ASSUME TypeOK, [Next]_vars
               PROVE  TypeOK'
  OBVIOUS
<1>2. ASSUME NEW t \in Threads, Refused(t) \/ CallFails(t)
      PROVE  TypeOK'
  <2>1. th' \in [Threads -> Thread] /\ faults' \in 0..MaxFaults
    BY <1>1, <1>2, ReturnType, ConstantsFit DEF Refused, CallFails, TypeOK
  <2>2. QED
    BY <1>1, <1>2, <2>1 DEF Refused, CallFails, TypeOK, hsVars, reportVars, messageVars
<1>3. ASSUME NEW t \in Threads, Step(t)
      PROVE  TypeOK'
  BY <1>1, <1>2, <1>3, BridgingType, JoiningUsersType, UnbridgingType, ForwardingType DEF Step
<1>4. CASE UNCHANGED vars
  BY <1>1, <1>4 DEF TypeOK, vars, hsVars, reportVars, messageVars
<1>5. QED
  BY <1>1, <1>2, <1>3, <1>4, RequestType, EnvironmentType DEF Next

\* Every variable keeps its type; in particular a busy thread always has the room and the
\* channel that its next call needs.
THEOREM TypeCorrect == Spec => []TypeOK
BY InitType, TypeStep, PTL DEF Spec

-----------------------------------------------------------------------------
(***************************************************************************)
(* AliasedRoomHasBot.  Most steps are quiet: they touch neither an alias   *)
(* nor the owner of a room, and every thread keeps its room and channel or *)
(* returns.  The others are taken one by one.                              *)
(***************************************************************************)

Quiet ==
  /\ UNCHANGED <<alias, canonical, madeFor>>
  /\ \A x \in Threads :
       \/ th'[x] = Idle
       \/ /\ th'[x].room = th[x].room
          /\ th'[x].channel = th[x].channel
          /\ th'[x].pc = "forget" => th[x].pc = "forget"

Owned == RoomsAreOwned /\ LeftRoomsHaveNoAlias

\* A quiet step changes nothing that Owned speaks of.
LEMMA QuietKeepsOwned == Owned /\ Quiet => Owned'
BY DEF Owned, Quiet, RoomsAreOwned, LeftRoomsHaveNoAlias, At, Idle

\* After an answer, arrived or lost, the other threads are where they were.
LEMMA AnsweredCases ==
  ASSUME TypeOK, NEW t \in Threads, NEW next, Answered(t, next)
  PROVE  \A x \in Threads :
           \/ x # t /\ th'[x] = th[x]
           \/ x = t /\ (th'[x] = next \/ th'[x] = Idle)
BY DEF Answered, Return, TypeOK

\* Bringing users into a room is quiet.
LEMMA JoiningIsQuiet ==
  ASSUME TypeOK, NEW t \in Threads, JoiningUsers(t)
  PROVE  Quiet
<1>0. UserDone(th[t]).room = th[t].room /\ UserDone(th[t]).channel = th[t].channel
      /\ UserDone(th[t]).pc # "forget"
  BY ThreadType DEF UserDone, ThreadRecord
<1>1. CASE FindUser(t)
  BY <1>1 DEF FindUser, Quiet, TypeOK, Thread, ThreadRecord, hsVars
<1>2. CASE RegisterUser(t)
  BY <1>2 DEF RegisterUser, Answered, Return, Quiet, TypeOK, Thread, ThreadRecord
<1>3. CASE CheckJoined(t)
  BY <1>0, <1>3 DEF CheckJoined, Goto, Quiet, TypeOK, Thread, ThreadRecord, hsVars
<1>4. CASE InviteUser(t)
  BY <1>4 DEF InviteUser, Answered, Return, Quiet, TypeOK, Thread, ThreadRecord
<1>5. CASE JoinUser(t)
  BY <1>0, <1>5 DEF JoinUser, Answered, Return, Quiet, TypeOK, Thread, ThreadRecord
<1>6. QED
  BY <1>1, <1>2, <1>3, <1>4, <1>5 DEF JoiningUsers

\* A bridge command creates a room for its channel and names that channel in it.
LEMMA BridgingKeepsOwned ==
  ASSUME TypeOK, Owned, NEW t \in Threads, Bridging(t)
  PROVE  Owned'
<1>1. CASE CheckRequester(t)
  <2>1. Quiet
    BY <1>1 DEF CheckRequester, Return, Goto, Quiet, TypeOK, Thread, ThreadRecord, hsVars
  <2>2. QED
    BY <2>1, QuietKeepsOwned
<1>2. CASE InviteAgain(t) \/ InviteRequester(t)
  <2>1. PICK pc \in {"report_bridged", "put_canonical"} : Answered(t, [th[t] EXCEPT !.pc = pc])
    BY <1>2 DEF InviteAgain, InviteRequester
  <2>2. UNCHANGED <<alias, canonical, madeFor>>
    BY <1>2 DEF InviteAgain, InviteRequester
  <2> DEFINE next == [th[t] EXCEPT !.pc = pc]
  <2>3. next.room = th[t].room /\ next.channel = th[t].channel /\ next.pc # "forget"
    BY ThreadType DEF ThreadRecord
  <2>4. Answered(t, next)
    BY <2>1
  <2> HIDE DEF next
  <2>5. Quiet
    BY <2>2, <2>3, <2>4, AnsweredCases DEF Quiet
  <2>6. QED
    BY <2>5, QuietKeepsOwned
<1>3. CASE ReportBridged(t)
  <2>1. Quiet
    BY <1>3 DEF ReportBridged, Return, Quiet, TypeOK, hsVars
  <2>2. QED
    BY <2>1, QuietKeepsOwned
<1>4. CASE PutCanonical(t)
  <2>1. /\ th[t].room \in Rooms /\ th[t].channel \in Channels
        /\ madeFor[th[t].room] = th[t].channel
    BY <1>4, ThreadType, ConstantsFit DEF PutCanonical, Calls, At, Owned, RoomsAreOwned
  <2> DEFINE next == [th[t] EXCEPT !.pc = "find_user", !.todo = RcMembers[th[t].channel]]
  <2>2. next.room = th[t].room /\ next.channel = th[t].channel /\ next.pc = "find_user"
    BY ThreadType DEF ThreadRecord
  <2>3. /\ UNCHANGED <<alias, madeFor>>
        /\ canonical' = [canonical EXCEPT ![th[t].room] = th[t].channel]
        /\ Answered(t, next)
    BY <1>4 DEF PutCanonical
  <2> HIDE DEF next
  <2>4. \A x \in Threads :
          \/ th'[x] = Idle
          \/ /\ th'[x].room = th[x].room
             /\ th'[x].channel = th[x].channel
             /\ th'[x].pc = "forget" => th[x].pc = "forget"
    BY <2>2, <2>3, AnsweredCases
  <2>5. \A r \in Rooms : canonical'[r] # None => madeFor'[r] = canonical'[r]
    BY <2>1, <2>3 DEF Owned, RoomsAreOwned, TypeOK
  <2>6. RoomsAreOwned'
    BY <2>3, <2>4, <2>5 DEF Owned, RoomsAreOwned, Idle
  <2>7. LeftRoomsHaveNoAlias'
    BY <2>3, <2>4 DEF Owned, LeftRoomsHaveNoAlias, At, Idle
  <2>8. QED
    BY <2>6, <2>7 DEF Owned
<1>5. CASE CreateRoom(t)
  <2>1. PICK r \in Rooms :
          /\ madeFor[r] = None
          /\ madeFor' = [madeFor EXCEPT ![r] = th[t].channel]
          /\ alias' = [alias EXCEPT ![th[t].channel] = r]
          /\ Answered(t, [th[t] EXCEPT !.pc = "invite_requester", !.room = r])
    BY <1>5 DEF CreateRoom
  <2>2. th[t].channel \in Channels
    BY <1>5, ThreadType DEF CreateRoom, Calls, At
  <2>3. UNCHANGED canonical
    BY <1>5 DEF CreateRoom
  <2> DEFINE next == [th[t] EXCEPT !.pc = "invite_requester", !.room = r]
  <2>4. next.room = r /\ next.channel = th[t].channel /\ next.pc = "invite_requester"
    BY ThreadType DEF ThreadRecord
  <2>5. Answered(t, next)
    BY <2>1
  <2> HIDE DEF next
  <2>6. \A x \in Threads :
          \/ th'[x] = Idle
          \/ x # t /\ th'[x] = th[x]
          \/ x = t /\ th'[x].room = r /\ th'[x].channel = th[t].channel /\ th'[x].pc # "forget"
    BY <2>4, <2>5, AnsweredCases
  <2>7. RoomsAreOwned'
    BY <2>1, <2>2, <2>3, <2>6, ConstantsFit DEF Owned, RoomsAreOwned, Idle, TypeOK
  <2>8. LeftRoomsHaveNoAlias'
    BY <2>1, <2>2, <2>6, ConstantsFit DEF Owned, RoomsAreOwned, LeftRoomsHaveNoAlias, At, Idle, TypeOK, Thread
  <2>9. QED
    BY <2>7, <2>8 DEF Owned
<1>6. QED
  BY <1>1, <1>2, <1>3, <1>4, <1>5 DEF Bridging

\* An unbridge command reaches "forget" only by deleting the one alias its room can have.
LEMMA UnbridgingKeepsOwned ==
  ASSUME TypeOK, Owned, NEW t \in Threads, Unbridging(t)
  PROVE  Owned'
<1>1. CASE Snapshot(t) \/ CheckAliases(t) \/ ReportUnbridged(t)
  <2>1. Quiet
    BY <1>1 DEF Snapshot, CheckAliases, ReportUnbridged, Return, Goto, Quiet, TypeOK,
       Thread, ThreadRecord, hsVars
  <2>2. QED
    BY <2>1, QuietKeepsOwned
<1>2. CASE DeleteAlias(t)
  <2>1. /\ th[t].room \in Rooms /\ th[t].channel \in Channels
        /\ madeFor[th[t].room] = th[t].channel
    BY <1>2, ThreadType, ConstantsFit DEF DeleteAlias, Calls, At, Owned, RoomsAreOwned
  <2>2. /\ UNCHANGED <<canonical, madeFor>>
        /\ alias' = [alias EXCEPT ![th[t].channel] = None]
        /\ Answered(t, [th[t] EXCEPT !.pc = "forget"])
    BY <1>2 DEF DeleteAlias
  <2>3. \A x \in Threads :
          \/ th'[x] = Idle
          \/ x # t /\ th'[x] = th[x]
          \/ x = t /\ th'[x].room = th[t].room /\ th'[x].channel = th[t].channel
    BY <2>2 DEF Answered, Return, TypeOK, Thread, ThreadRecord
  <2>4. RoomsAreOwned'
    BY <2>1, <2>2, <2>3 DEF Owned, RoomsAreOwned, Idle, TypeOK
  <2>5. \A c \in Channels : alias'[c] # th[t].room
    BY <2>1, <2>2, ConstantsFit DEF Owned, RoomsAreOwned, TypeOK
  <2>6. ASSUME NEW x \in Threads, th'[x].pc = "forget", NEW c \in Channels
        PROVE  alias'[c] # th'[x].room
    <3>1. CASE x = t
      BY <2>3, <2>5, <2>6, <3>1 DEF Idle
    <3>2. CASE x # t
      <4>1. th'[x] = th[x]
        BY <2>3, <2>6, <3>2 DEF Idle
      <4>2. alias[c] # th[x].room /\ th[x].room # None
        BY <2>6, <4>1, ThreadType, ConstantsFit DEF Owned, LeftRoomsHaveNoAlias, At
      <4>3. alias'[c] \in {alias[c], None}
        BY <2>2 DEF TypeOK
      <4>4. QED
        BY <4>1, <4>2, <4>3
    <3>3. QED
      BY <3>1, <3>2
  <2>7. LeftRoomsHaveNoAlias'
    BY <2>6 DEF LeftRoomsHaveNoAlias, At
  <2>8. QED
    BY <2>4, <2>7 DEF Owned
<1>3. CASE Forget(t)
  <2>1. th[t].pc = "forget" /\ UNCHANGED <<alias, canonical, madeFor>>
    BY <1>3 DEF Forget, Calls, At
  <2>2. \/ Return(t)
        \/ \E u \in th[t].todo :
             Answered(t, [th[t] EXCEPT !.todo = @ \ {u},
                            !.pc = IF th[t].todo = {u} THEN "report_unbridged" ELSE "forget"])
    BY <1>3 DEF Forget
  <2>3. ASSUME NEW next, next.room = th[t].room, next.channel = th[t].channel, Answered(t, next)
        PROVE  Quiet
    BY <2>1, <2>3, AnsweredCases DEF Quiet
  <2>4. Return(t) => Quiet
    BY <2>1 DEF Return, Quiet, TypeOK
  <2>5. ASSUME NEW u \in th[t].todo,
               Answered(t, [th[t] EXCEPT !.todo = @ \ {u},
                              !.pc = IF th[t].todo = {u} THEN "report_unbridged" ELSE "forget"])
        PROVE  Quiet
    <3> DEFINE next == [th[t] EXCEPT !.todo = @ \ {u},
                              !.pc = IF th[t].todo = {u} THEN "report_unbridged" ELSE "forget"]
    <3>1. next.room = th[t].room /\ next.channel = th[t].channel
      BY ThreadType DEF ThreadRecord
    <3>2. QED
      BY <2>3, <2>5, <3>1
  <2>6. QED
    BY <2>2, <2>4, <2>5, QuietKeepsOwned
<1>4. QED
  BY <1>1, <1>2, <1>3 DEF Unbridging

\* A room message takes the channel that the canonical alias of its room names.
LEMMA ForwardingKeepsOwned ==
  ASSUME TypeOK, Owned, NEW t \in Threads, Forwarding(t)
  PROVE  Owned'
<1>1. CASE SendToRoom(t) \/ PostInChannel(t)
  <2>1. Quiet
    BY <1>1 DEF SendToRoom, PostInChannel, Return, Quiet, TypeOK, hsVars
  <2>2. QED
    BY <2>1, QuietKeepsOwned
<1>2. CASE ReadCanonical(t)
  <2>1. th[t].pc = "read_canonical" /\ UNCHANGED <<alias, canonical, madeFor>>
    BY <1>2 DEF ReadCanonical, Calls, At, hsVars
  <2>2. Return(t) => Quiet
    BY <2>1 DEF Return, Quiet, TypeOK
  <2>3. CASE /\ canonical[th[t].room] # None
             /\ th' = [th EXCEPT ![t].pc = "post", ![t].channel = canonical[th[t].room]]
    <3>1. /\ th[t].room \in Rooms
          /\ madeFor[th[t].room] = canonical[th[t].room]
      BY <2>1, <2>3, ThreadType DEF Owned, RoomsAreOwned
    <3>2. \A x \in Threads :
            \/ x # t /\ th'[x] = th[x]
            \/ /\ x = t
               /\ th'[x].room = th[t].room
               /\ th'[x].channel = canonical[th[t].room]
               /\ th'[x].pc = "post"
      BY <2>3, ThreadType DEF TypeOK, ThreadRecord
    <3>3. RoomsAreOwned'
      BY <2>1, <3>1, <3>2 DEF Owned, RoomsAreOwned
    <3>4. LeftRoomsHaveNoAlias'
      BY <2>1, <3>2 DEF Owned, LeftRoomsHaveNoAlias, At
    <3>5. QED
      BY <3>3, <3>4 DEF Owned
  <2>4. QED
    BY <1>2, <2>2, <2>3, QuietKeepsOwned DEF ReadCanonical
<1>3. QED
  BY <1>1, <1>2 DEF Forwarding

\* A handler begins with the room of its channel's alias, without a room, or with a room
\* that the bridge made.
Fits(request) ==
  /\ request.pc # "forget"
  /\ request.room # None =>
       /\ madeFor[request.room] # None
       /\ request.channel # None => madeFor[request.room] = request.channel

\* A thread that begins with the room its channel's alias resolves to fits.
LEMMA LookupFits ==
  ASSUME Owned, NEW c \in Channels, NEW request,
         request.room = MatrixId(c), request.channel = c, request.pc # "forget"
  PROVE  Fits(request)
BY ConstantsFit DEF Fits, MatrixId, Owned, RoomsAreOwned

\* The beginnings of all handlers keep Owned.
LEMMA RequestKeepsOwned ==
  ASSUME TypeOK, Owned, NEW t \in Threads, Request(t)
  PROVE  Owned'
<1>1. UNCHANGED <<alias, canonical, madeFor>>
  BY DEF Request, BridgeCommand, UnbridgeCommand, Webhook, RoomMessage, hsVars
<1>2. \E request : Begin(t, request) /\ Fits(request)
  <2>1. ASSUME NEW h \in Humans, NEW c \in Channels, BridgeCommand(t, h, c)
        PROVE  \E request : Begin(t, request) /\ Fits(request)
    <3> DEFINE request == [Idle EXCEPT !.op = "bridge", !.user = h, !.channel = c,
                             !.room = MatrixId(c),
                             !.pc = IF MatrixId(c) = None THEN "create" ELSE "check_requester"]
    <3>1. request.room = MatrixId(c) /\ request.channel = c /\ request.pc # "forget"
      BY DEF Idle
    <3>2. Begin(t, request)
      BY <2>1 DEF BridgeCommand
    <3>3. Fits(request)
      BY <3>1, LookupFits
    <3>4. QED
      BY <3>2, <3>3
  <2>2. ASSUME NEW h \in Humans, NEW c \in Channels, UnbridgeCommand(t, h, c)
        PROVE  \E request : Begin(t, request) /\ Fits(request)
    <3> DEFINE request == [Idle EXCEPT !.op = "unbridge", !.user = h, !.channel = c,
                             !.room = MatrixId(c), !.pc = "snapshot"]
    <3>1. request.room = MatrixId(c) /\ request.channel = c /\ request.pc # "forget"
      BY DEF Idle
    <3>2. Begin(t, request)
      BY <2>2 DEF UnbridgeCommand
    <3>3. Fits(request)
      BY <3>1, LookupFits
    <3>4. QED
      BY <3>2, <3>3
  <2>3. ASSUME NEW v \in Virtuals, NEW c \in Channels, Webhook(t, v, c)
        PROVE  \E request : Begin(t, request) /\ Fits(request)
    <3> DEFINE request == [Idle EXCEPT !.op = "webhook", !.user = v, !.channel = c,
                             !.room = MatrixId(c), !.pc = "find_user", !.todo = {v}]
    <3>1. request.room = MatrixId(c) /\ request.channel = c /\ request.pc # "forget"
      BY DEF Idle
    <3>2. Begin(t, request)
      BY <2>3 DEF Webhook
    <3>3. Fits(request)
      BY <3>1, LookupFits
    <3>4. QED
      BY <3>2, <3>3
  <2>4. ASSUME NEW h \in Humans, NEW r \in Rooms, RoomMessage(t, h, r)
        PROVE  \E request : Begin(t, request) /\ Fits(request)
    <3> DEFINE request == [Idle EXCEPT !.op = "message", !.user = h, !.room = r,
                             !.pc = "read_canonical"]
    <3>1. request.room = r /\ request.channel = None /\ request.pc # "forget"
      BY DEF Idle
    <3>2. Begin(t, request)
      BY <2>4 DEF RoomMessage
    <3>3. Fits(request)
      BY <2>4, <3>1 DEF Fits, RoomMessage
    <3>4. QED
      BY <3>2, <3>3
  <2>5. QED
    BY <2>1, <2>2, <2>3, <2>4 DEF Request
<1>3. PICK request : Begin(t, request) /\ Fits(request)
  BY <1>2
<1>4. \A x \in Threads : IF x = t THEN th'[x] = request ELSE th'[x] = th[x]
  BY <1>3 DEF Begin, TypeOK
<1>5. RoomsAreOwned'
  BY <1>1, <1>3, <1>4 DEF Owned, RoomsAreOwned, Fits
<1>6. LeftRoomsHaveNoAlias'
  BY <1>1, <1>3, <1>4 DEF Owned, LeftRoomsHaveNoAlias, At, Fits
<1>7. QED
  BY <1>5, <1>6 DEF Owned

\* Owned is inductive, given the types.
LEMMA OwnedStep == TypeOK /\ Owned /\ [Next]_vars => Owned'
<1>1. SUFFICES ASSUME TypeOK, Owned, [Next]_vars
               PROVE  Owned'
  OBVIOUS
<1>2. ASSUME NEW t \in Threads, Refused(t) \/ CallFails(t)
      PROVE  Quiet
  BY <1>1, <1>2 DEF Refused, CallFails, Return, Quiet, TypeOK, hsVars
<1>3. ASSUME NEW t \in Threads, Step(t)
      PROVE  Owned'
  BY <1>1, <1>2, <1>3, BridgingKeepsOwned, JoiningIsQuiet, UnbridgingKeepsOwned,
     ForwardingKeepsOwned, QuietKeepsOwned DEF Step
<1>4. Environment => Quiet
  BY <1>1 DEF Environment, UserJoins, UserLeaves, UserAddsAlias, UserRemovesAlias, Crash,
     hsVars, Quiet
<1>5. UNCHANGED vars => Quiet
  BY DEF vars, hsVars, Quiet
<1>6. QED
  BY <1>1, <1>2, <1>3, <1>4, <1>5, RequestKeepsOwned, QuietKeepsOwned DEF Next

-----------------------------------------------------------------------------
(***************************************************************************)
(* The bot stays in a room unless it is made to leave, and it is made to   *)
(* leave only rooms that no alias resolves to.                             *)
(***************************************************************************)

BotStays == \A r \in Rooms : member[r][Bot] = "join" => member'[r][Bot] = "join"

\* Whoever a handler invites is not the bot.
LEMMA InvitedIsNotBot ==
  ASSUME TypeOK, NEW r \in Rooms, NEW u,
         MayInvite(member, r, Bot, u), member' = Invite(member, r, u)
  PROVE  BotStays
BY DEF BotStays, MayInvite, Invite, TypeOK, Users

\* A user who is invited or joins does not make the bot leave.
LEMMA JoinedKeepsBot ==
  ASSUME TypeOK, NEW r \in Rooms, NEW u, member' = Join(member, r, u)
  PROVE  BotStays
BY DEF BotStays, Join, TypeOK, Users

\* No step of a handler but Forget makes the bot leave a room.
LEMMA StepKeepsBot ==
  ASSUME TypeOK, NEW t \in Threads, Step(t) \/ CallFails(t) \/ Request(t)
  PROVE  \/ BotStays
         \/ /\ At(t, "forget")
            /\ UNCHANGED alias
            /\ \A r \in Rooms \ {th[t].room} : member'[r] = member[r]
<1>0. ~At(t, "idle") /\ ~At(t, "create") => th[t].room \in Rooms
  BY ThreadType DEF At
<1>1. CASE InviteAgain(t) \/ InviteRequester(t)
  BY <1>0, <1>1, InvitedIsNotBot DEF InviteAgain, InviteRequester, Calls, At, Granted
<1>2. CASE InviteUser(t)
  BY <1>0, <1>2, InvitedIsNotBot DEF InviteUser, Calls, At, Granted
<1>3. CASE JoinUser(t)
  BY <1>0, <1>3, JoinedKeepsBot DEF JoinUser, Calls, At
<1>4. CASE CreateRoom(t)
  BY <1>4, JoinedKeepsBot DEF CreateRoom
<1>5. CASE Forget(t)
  BY <1>5 DEF Forget, Calls, At, Leave, TypeOK
<1>6. UNCHANGED member => BotStays
  BY DEF BotStays
<1>7. QED
  BY <1>1, <1>2, <1>3, <1>4, <1>5, <1>6
     DEF Step, Bridging, JoiningUsers, Unbridging, Forwarding, Request, CheckRequester,
     PutCanonical, ReportBridged, FindUser, RegisterUser, CheckJoined, Snapshot, CheckAliases,
     DeleteAlias, ReportUnbridged, SendToRoom, ReadCanonical, PostInChannel, Refused, CallFails,
     BridgeCommand, UnbridgeCommand, Webhook, RoomMessage, hsVars

\* Matrix users and crashes do not make the bot leave a room.
LEMMA EnvironmentKeepsBot ==
  ASSUME TypeOK, Environment
  PROVE  BotStays
<1>1. ASSUME NEW h \in Humans, NEW r \in Rooms, UserJoins(h, r)
      PROVE  BotStays
  BY <1>1, JoinedKeepsBot DEF UserJoins
<1>2. ASSUME NEW h \in Humans, NEW r \in Rooms, UserLeaves(h, r)
      PROVE  BotStays
  BY <1>2, UsersAreDistinct DEF UserLeaves, Leave, BotStays, TypeOK, Users
<1>3. UNCHANGED member => BotStays
  BY DEF BotStays
<1>4. QED
  BY <1>1, <1>2, <1>3 DEF Environment, UserAddsAlias, UserRemovesAlias, Crash, hsVars

\* The only step that gives a channel an alias creates the room it resolves to, which was not
\* there before, with the bot.
LEMMA AliasStep ==
  ASSUME TypeOK, [Next]_vars
  PROVE  \A c \in Channels :
           \/ alias'[c] = alias[c]
           \/ alias'[c] = None
           \/ /\ alias'[c] \in Rooms
              /\ madeFor[alias'[c]] = None
              /\ member'[alias'[c]][Bot] = "join"
<1>1. ASSUME NEW t \in Threads, CreateRoom(t)
      PROVE  \A c \in Channels :
               \/ alias'[c] = alias[c]
               \/ /\ alias'[c] \in Rooms
                  /\ madeFor[alias'[c]] = None
                  /\ member'[alias'[c]][Bot] = "join"
  BY <1>1 DEF CreateRoom, Join, TypeOK, Users
<1>2. ASSUME NEW t \in Threads, DeleteAlias(t)
      PROVE  \A c \in Channels : alias'[c] = alias[c] \/ alias'[c] = None
  BY <1>2 DEF DeleteAlias, TypeOK
<1>3. ASSUME NEW t \in Threads, Request(t) \/ Step(t) \/ CallFails(t),
             ~CreateRoom(t), ~DeleteAlias(t)
      PROVE  UNCHANGED alias
  BY <1>3 DEF Step, Bridging, JoiningUsers, Unbridging, Forwarding, Request, CheckRequester,
     InviteAgain, InviteRequester, PutCanonical, ReportBridged, FindUser, RegisterUser,
     CheckJoined, InviteUser, JoinUser, Snapshot, CheckAliases, Forget, ReportUnbridged,
     SendToRoom, ReadCanonical, PostInChannel, Refused, CallFails,
     BridgeCommand, UnbridgeCommand, Webhook, RoomMessage, hsVars
<1>4. Environment \/ UNCHANGED vars => UNCHANGED alias
  BY DEF Environment, UserJoins, UserLeaves, UserAddsAlias, UserRemovesAlias, Crash, vars, hsVars
<1>5. QED
  BY <1>1, <1>2, <1>3, <1>4 DEF Next, Step, Bridging, Unbridging

\* The bot stays in rooms with an alias: a room that is being left has none.
LEMMA BotStep == IInv /\ [Next]_vars => AliasedRoomHasBot'
<1>1. SUFFICES ASSUME IInv, [Next]_vars
               PROVE  AliasedRoomHasBot'
  OBVIOUS
<1>2. TypeOK /\ AliasedRoomHasBot /\ LeftRoomsHaveNoAlias
  BY <1>1 DEF IInv
<1>3. BotStays => AliasedRoomHasBot'
  BY <1>1, <1>2, AliasStep DEF BotStays, AliasedRoomHasBot, TypeOK
<1>4. ASSUME NEW t \in Threads, At(t, "forget"), UNCHANGED alias,
             \A r \in Rooms \ {th[t].room} : member'[r] = member[r]
      PROVE  AliasedRoomHasBot'
  BY <1>2, <1>4 DEF AliasedRoomHasBot, LeftRoomsHaveNoAlias, TypeOK
<1>5. UNCHANGED vars => BotStays
  BY DEF vars, hsVars, BotStays
<1>6. QED
  BY <1>1, <1>2, <1>3, <1>4, <1>5, StepKeepsBot, EnvironmentKeepsBot DEF Next

\* IInv holds initially.
LEMMA IInvInit == Init => IInv
BY InitType, ConstantsFit
   DEF Init, IInv, RoomsAreOwned, LeftRoomsHaveNoAlias, AliasedRoomHasBot, At, Idle

\* Every step preserves IInv.
LEMMA IInvStep == IInv /\ [Next]_vars => IInv'
BY TypeStep, OwnedStep, BotStep DEF IInv, Owned

\* Types, the ownership of rooms, the order of an unbridge command (first the alias, then the users)
\* and the bot's presence hold together in every reachable state.
THEOREM Inductive == Spec => []IInv
BY IInvInit, IInvStep, PTL DEF Spec

\* However the calls of the handlers interleave, fail or are cut off by a crash, and for every
\* number of threads, channels, rooms and users: a room that a channel's alias resolves to has
\* the bot in it.
THEOREM BotIsInAliasedRooms == Spec => []AliasedRoomHasBot
<1>1. IInv => AliasedRoomHasBot
  BY DEF IInv
<1>2. QED
  BY <1>1, Inductive, PTL

-----------------------------------------------------------------------------
(***************************************************************************)
(* The contract.  Four steps of a handler are steps of the contract; every *)
(* other step leaves the contract's variables alone.                       *)
(***************************************************************************)

contractState == <<alias, madeFor, forwarded, posted>>

\* Creating a room with its alias is Bind,
LEMMA CreateBinds ==
  ASSUME TypeOK, NEW t \in Threads, CreateRoom(t)
  PROVE  \E c \in Channels, r \in Rooms : Contract!Bind(c, r)
<1>1. th[t].channel \in Channels /\ alias[th[t].channel] = None
  BY ThreadType DEF CreateRoom, Calls, At, Granted
<1>2. PICK r \in Rooms :
        /\ madeFor[r] = None
        /\ madeFor' = [madeFor EXCEPT ![r] = th[t].channel]
        /\ alias' = [alias EXCEPT ![th[t].channel] = r]
  BY DEF CreateRoom
<1>3. UNCHANGED <<forwarded, posted>>
  BY DEF CreateRoom, messageVars
<1>4. Contract!Bind(th[t].channel, r)
  BY <1>1, <1>2, <1>3 DEF Contract!Bind
<1>5. QED
  BY <1>1, <1>4

\* deleting an alias is Unbind,
LEMMA DeleteUnbinds ==
  ASSUME TypeOK, NEW t \in Threads, DeleteAlias(t)
  PROVE  \E c \in Channels : Contract!Unbind(c)
<1>1. th[t].channel \in Channels /\ alias[th[t].channel] # None
  BY ThreadType DEF DeleteAlias, Calls, At, Granted
<1>2. Contract!Unbind(th[t].channel)
  BY <1>1 DEF DeleteAlias, messageVars, Contract!Unbind
<1>3. QED
  BY <1>1, <1>2

\* A message that crosses does so between a room and the channel that the room was made for.
LEMMA MessageCrosses ==
  ASSUME TypeOK, RoomsAreOwned, NEW t \in Threads, SendToRoom(t) \/ PostInChannel(t)
  PROVE  \E c \in Channels, r \in Rooms : Contract!Forward(c, r) \/ Contract!Post(r, c)
<1>1. /\ th[t].channel \in Channels /\ th[t].room \in Rooms
      /\ madeFor[th[t].room] = th[t].channel
  BY ThreadType, ConstantsFit DEF SendToRoom, PostInChannel, Calls, At, RoomsAreOwned
<1>2. PICK c \in Channels, r \in Rooms : c = th[t].channel /\ r = th[t].room
  BY <1>1
<1>3. UNCHANGED <<alias, madeFor>>
  BY DEF SendToRoom, PostInChannel, hsVars
<1>4. PICK message : message = [channel |-> c, room |-> r, when |-> When(r)]
  OBVIOUS
<1>5. message.channel = c /\ message.room = r
  BY <1>4
<1>6. CASE SendToRoom(t)
  <2>1. forwarded' = forwarded \cup {message} /\ UNCHANGED posted
    BY <1>2, <1>4, <1>6 DEF SendToRoom
  <2>2. {<<m.channel, m.room>> : m \in forwarded'}
          = {<<m.channel, m.room>> : m \in forwarded} \cup {<<c, r>>}
    BY <1>5, <2>1
  <2>3. Contract!Forward(c, r)
    BY <1>1, <1>2, <1>3, <2>1, <2>2 DEF Contract!Forward
  <2>4. QED
    BY <2>3
<1>7. CASE PostInChannel(t)
  <2>1. posted' = posted \cup {message} /\ UNCHANGED forwarded
    BY <1>2, <1>4, <1>7 DEF PostInChannel
  <2>2. {<<m.room, m.channel>> : m \in posted'}
          = {<<m.room, m.channel>> : m \in posted} \cup {<<r, c>>}
    BY <1>5, <2>1
  <2>3. Contract!Post(r, c)
    BY <1>1, <1>2, <1>3, <2>1, <2>2 DEF Contract!Post
  <2>4. QED
    BY <2>3
<1>8. QED
  BY <1>6, <1>7

\* Every step of a handler, of a user or of a crash is a step of the contract or a stutter.
LEMMA ContractStep == IInv /\ [Next]_vars => [Contract!Next]_(Contract!contractVars)
<1>1. SUFFICES ASSUME IInv, [Next]_vars
               PROVE  Contract!Next \/ UNCHANGED contractState
  BY DEF contractState, Contract!contractVars
<1>2. TypeOK /\ RoomsAreOwned
  BY <1>1 DEF IInv
<1>3. ASSUME NEW t \in Threads,
             CreateRoom(t) \/ DeleteAlias(t) \/ SendToRoom(t) \/ PostInChannel(t)
      PROVE  Contract!Next
  BY <1>2, <1>3, CreateBinds, DeleteUnbinds, MessageCrosses DEF Contract!Next
<1>4. ASSUME NEW t \in Threads, Request(t) \/ Step(t) \/ CallFails(t),
             ~CreateRoom(t), ~DeleteAlias(t), ~SendToRoom(t), ~PostInChannel(t)
      PROVE  UNCHANGED contractState
  BY <1>4 DEF contractState, Step, Bridging, JoiningUsers, Unbridging, Forwarding, Request,
     CheckRequester, InviteAgain, InviteRequester, PutCanonical, ReportBridged, FindUser,
     RegisterUser, CheckJoined, InviteUser, JoinUser, Snapshot, CheckAliases, Forget,
     ReportUnbridged, ReadCanonical, Refused, CallFails, BridgeCommand, UnbridgeCommand,
     Webhook, RoomMessage, hsVars, messageVars
<1>5. Environment \/ UNCHANGED vars => UNCHANGED contractState
  BY DEF contractState, Environment, UserJoins, UserLeaves, UserAddsAlias, UserRemovesAlias,
     Crash, vars, hsVars, messageVars
<1>6. QED
  BY <1>1, <1>3, <1>4, <1>5 DEF Next

\* The handlers, with all their calls, implement the contract: a channel is bound to one room
\* at a time, a room stays with its channel, and no message reaches a foreign room or channel.
THEOREM ContractHolds == Spec => ImplementsContract
<1>1. Init => Contract!Init
  BY DEF Init, Contract!Init
<1>2. QED
  BY <1>1, ContractStep, Inductive, PTL DEF Spec, ImplementsContract, Contract!Spec

-----------------------------------------------------------------------------
(***************************************************************************)
(* Refusals.  Between the look at a room's members and the join or the     *)
(* message that follows it, no handler takes the user out of the room      *)
(* again, unless the channel has lost the room: whoever makes users leave  *)
(* has deleted the alias before.                                           *)
(***************************************************************************)

\* The user that a thread brings in stays invited, or joined, while the alias resolves to the room.
UsersAreIn ==
  \A t \in Threads :
    LET s == th[t] IN
    s.pc \in {"join_user", "send"} /\ alias[s.channel] = s.room =>
      /\ s.pc = "join_user" => member[s.room][s.who] # "out"
      /\ s.pc = "send" => s.who \in Virtuals /\ member[s.room][s.who] = "join"

\* A step takes none of the application service's users further out of room r.
Keeps(r) ==
  \A u \in AsUsers :
    /\ member[r][u] = "join" => member'[r][u] = "join"
    /\ member[r][u] # "out" => member'[r][u] # "out"

\* An invitation reaches only users who have not joined.
LEMMA InviteKeeps ==
  ASSUME TypeOK, NEW r \in Rooms, NEW u,
         MayInvite(member, r, Bot, u), member' = Invite(member, r, u)
  PROVE  \A q \in Rooms : Keeps(q)
BY DEF Keeps, MayInvite, Invite, TypeOK, Users, AsUsers, Membership

\* A join takes nobody out.
LEMMA JoinKeeps ==
  ASSUME TypeOK, NEW r \in Rooms, NEW u, member' = Join(member, r, u)
  PROVE  \A q \in Rooms : Keeps(q)
BY DEF Keeps, Join, TypeOK, Users, AsUsers, Membership

\* Handlers take users only out of rooms that no alias resolves to.
LEMMA HandlerKeeps ==
  ASSUME TypeOK, LeftRoomsHaveNoAlias, NEW t \in Threads, Step(t) \/ CallFails(t) \/ Request(t),
         NEW r \in Rooms
  PROVE  Keeps(r) \/ (UNCHANGED alias /\ \A c \in Channels : alias[c] # r)
<1>0. ~At(t, "idle") /\ ~At(t, "create") => th[t].room \in Rooms
  BY ThreadType DEF At
<1>1. CASE InviteAgain(t) \/ InviteRequester(t)
  BY <1>0, <1>1, InviteKeeps DEF InviteAgain, InviteRequester, Calls, At, Granted
<1>2. CASE InviteUser(t)
  BY <1>0, <1>2, InviteKeeps DEF InviteUser, Calls, At, Granted
<1>3. CASE JoinUser(t)
  BY <1>0, <1>3, JoinKeeps DEF JoinUser, Calls, At
<1>4. CASE CreateRoom(t)
  BY <1>4, JoinKeeps DEF CreateRoom
<1>5. CASE Forget(t)
  <2>1. At(t, "forget") /\ UNCHANGED alias
    BY <1>5 DEF Forget, Calls
  <2>2. CASE r = th[t].room
    BY <2>1, <2>2 DEF LeftRoomsHaveNoAlias
  <2>3. CASE r # th[t].room
    <3>1. member'[r] = member[r]
      BY <1>0, <1>5, <2>1, <2>3 DEF Forget, Leave, TypeOK
    <3>2. QED
      BY <3>1 DEF Keeps
  <2>4. QED
    BY <2>2, <2>3
<1>6. UNCHANGED member => Keeps(r)
  BY DEF Keeps
<1>7. QED
  BY <1>1, <1>2, <1>3, <1>4, <1>5, <1>6
     DEF Step, Bridging, JoiningUsers, Unbridging, Forwarding, Request, CheckRequester,
     PutCanonical, ReportBridged, FindUser, RegisterUser, CheckJoined, Snapshot, CheckAliases,
     DeleteAlias, ReportUnbridged, SendToRoom, ReadCanonical, PostInChannel, Refused, CallFails,
     BridgeCommand, UnbridgeCommand, Webhook, RoomMessage, hsVars

\* Matrix users and crashes take none of the application service's users out of a room.
LEMMA EnvironmentKeeps ==
  ASSUME TypeOK, Environment, NEW r \in Rooms
  PROVE  Keeps(r)
<1>1. ASSUME NEW h \in Humans, NEW q \in Rooms, UserJoins(h, q)
      PROVE  Keeps(r)
  BY <1>1, JoinKeeps DEF UserJoins
<1>2. ASSUME NEW h \in Humans, NEW q \in Rooms, UserLeaves(h, q)
      PROVE  Keeps(r)
  BY <1>2, UsersAreDistinct DEF UserLeaves, Leave, Keeps, TypeOK, Users, AsUsers
<1>3. UNCHANGED member => Keeps(r)
  BY DEF Keeps
<1>4. QED
  BY <1>1, <1>2, <1>3 DEF Environment, UserAddsAlias, UserRemovesAlias, Crash, hsVars

\* A step of one handler leaves the other handlers where they are.
LEMMA OthersStay ==
  ASSUME TypeOK, NEW t \in Threads, Step(t) \/ CallFails(t) \/ Request(t)
  PROVE  \A x \in Threads \ {t} : th'[x] = th[x]
<1>1. ASSUME NEW next, Answered(t, next)
      PROVE  \A x \in Threads \ {t} : th'[x] = th[x]
  BY <1>1, AnsweredCases
<1>2. ASSUME NEW request, Begin(t, request)
      PROVE  \A x \in Threads \ {t} : th'[x] = th[x]
  BY <1>2 DEF Begin, TypeOK
<1>3. CASE Bridging(t) \/ JoiningUsers(t)
  BY <1>1, <1>3 DEF Bridging, JoiningUsers, CheckRequester, InviteAgain, CreateRoom,
     InviteRequester, PutCanonical, ReportBridged, FindUser, RegisterUser, CheckJoined,
     InviteUser, JoinUser, Return, Goto, TypeOK
<1>4. CASE Unbridging(t) \/ Forwarding(t)
  BY <1>1, <1>4 DEF Unbridging, Forwarding, Snapshot, CheckAliases, DeleteAlias, Forget,
     ReportUnbridged, SendToRoom, ReadCanonical, PostInChannel, Return, Goto, TypeOK
<1>5. CASE Refused(t) \/ CallFails(t)
  BY <1>5 DEF Refused, CallFails, Return, TypeOK
<1>6. CASE Request(t)
  BY <1>2, <1>6 DEF Request, BridgeCommand, UnbridgeCommand, Webhook, RoomMessage
<1>7. QED
  BY <1>3, <1>4, <1>5, <1>6 DEF Step

\* The call that a handler makes after another one.  What it works on stays the same, but for
\* the room that it creates and the channel that it reads from a room.
Proceeds(t) ==
  LET s == th[t]  next == th'[t] IN
  /\ next.op = s.op /\ next.user = s.user
  /\ s.pc # "create" => next.room = s.room
  /\ s.pc # "read_canonical" => next.channel = s.channel
  /\ \/ s.pc = "check_requester" /\ next.pc = "invite_again"
     \/ s.pc = "invite_again" /\ next.pc = "report_bridged"
     \/ s.pc = "create" /\ next.pc = "invite_requester"
     \/ s.pc = "invite_requester" /\ next.pc = "put_canonical"
     \/ s.pc = "put_canonical" /\ next.pc = "find_user"
     \/ s.pc = "find_user" /\ next.pc \in {"register", "check_joined"}
     \/ s.pc = "register" /\ next.pc = "check_joined"
     \/ s.pc = "check_joined" /\ next.pc = "invite_user"
     \/ s.pc = "invite_user" /\ next.pc = "join_user"
     \/ s.pc \in {"check_joined", "join_user"} /\ next.pc = "find_user"
     \/ s.pc \in {"check_joined", "join_user"} /\ next.pc = "report_bridged" /\ s.op = "bridge"
     \/ s.pc \in {"check_joined", "join_user"} /\ next.pc = "send" /\ s.op # "bridge"
     \/ s.pc = "snapshot" /\ next.pc = "check_aliases"
     \/ s.pc = "check_aliases" /\ next.pc = "delete_alias"
     \/ s.pc = "delete_alias" /\ next.pc = "forget"
     \/ s.pc = "forget" /\ next.pc \in {"forget", "report_unbridged"}
     \/ s.pc = "read_canonical" /\ next.pc = "post"

\* A thread that is done with a user has the next user, the report or the message before it.
LEMMA UserDoneNext ==
  ASSUME TypeOK, NEW t \in Threads
  PROVE  LET s == th[t]  next == UserDone(s) IN
         /\ next.op = s.op /\ next.user = s.user /\ next.who = s.who
         /\ next.room = s.room /\ next.channel = s.channel
         /\ \/ next.pc = "find_user"
            \/ next.pc = "report_bridged" /\ s.op = "bridge"
            \/ next.pc = "send" /\ s.op # "bridge"
BY ThreadType DEF UserDone, ThreadRecord

\* A handler that takes a step proceeds or returns.
LEMMA HandlerProceeds ==
  ASSUME TypeOK, NEW t \in Threads, Step(t) \/ CallFails(t)
  PROVE  th'[t] = Idle \/ Proceeds(t)
<1>0. th[t] \in ThreadRecord
  BY ThreadType
<1>1. \A next : Answered(t, next) => th'[t] = next \/ th'[t] = Idle
  BY AnsweredCases
<1>2. Return(t) => th'[t] = Idle
  BY DEF Return, TypeOK
<1>3. \A pc : Goto(t, pc) => th'[t] = [th[t] EXCEPT !.pc = pc]
  BY DEF Goto, TypeOK
<1>4. CASE CheckRequester(t) \/ InviteAgain(t)
  <2>1. \/ th'[t] = Idle
        \/ th[t].pc = "check_requester" /\ th'[t] = [th[t] EXCEPT !.pc = "invite_again"]
        \/ th[t].pc = "invite_again" /\ th'[t] = [th[t] EXCEPT !.pc = "report_bridged"]
    BY <1>1, <1>2, <1>3, <1>4 DEF CheckRequester, InviteAgain, Calls, At
  <2>2. QED
    BY <1>0, <2>1 DEF Proceeds, ThreadRecord
<1>5. CASE CreateRoom(t)
  BY <1>0, <1>1, <1>5 DEF CreateRoom, Calls, At, Proceeds, ThreadRecord
<1>6. CASE InviteRequester(t) \/ PutCanonical(t)
  BY <1>0, <1>1, <1>6 DEF InviteRequester, PutCanonical, Calls, At, Proceeds, ThreadRecord
<1>7. CASE FindUser(t)
  <2>1. PICK v \in th[t].todo :
          th' = [th EXCEPT ![t].who = v,
                           ![t].pc = IF v \in registered THEN "check_joined" ELSE "register"]
    BY <1>7 DEF FindUser
  <2>2. \E pc \in {"check_joined", "register"} : th'[t] = [th[t] EXCEPT !.who = v, !.pc = pc]
    BY <2>1 DEF TypeOK
  <2>3. QED
    BY <1>0, <1>7, <2>2 DEF FindUser, Calls, At, Proceeds, ThreadRecord
<1>8. CASE RegisterUser(t) \/ InviteUser(t)
  BY <1>0, <1>1, <1>8 DEF RegisterUser, InviteUser, Calls, At, Proceeds, ThreadRecord
<1>9. CASE CheckJoined(t)
  <2>1. th'[t] = UserDone(th[t]) \/ th'[t] = [th[t] EXCEPT !.pc = "invite_user"]
    BY <1>3, <1>9 DEF CheckJoined, TypeOK
  <2>2. th[t].pc = "check_joined"
    BY <1>9 DEF CheckJoined, Calls, At
  <2>3. QED
    BY <1>0, <2>1, <2>2, UserDoneNext DEF Proceeds, ThreadRecord
<1>10. CASE JoinUser(t)
  BY <1>1, <1>10, UserDoneNext DEF JoinUser, Calls, At, Proceeds
<1>11. CASE Snapshot(t)
  <2>1. \/ th'[t] = Idle
        \/ th'[t] = [th[t] EXCEPT !.pc = "check_aliases", !.todo = Joined(member, th[t].room)]
    BY <1>2, <1>11 DEF Snapshot, TypeOK
  <2>2. QED
    BY <1>0, <1>11, <2>1 DEF Snapshot, Calls, At, Proceeds, ThreadRecord
<1>12. CASE CheckAliases(t) \/ DeleteAlias(t)
  <2>1. \/ th'[t] = Idle
        \/ th[t].pc = "check_aliases" /\ th'[t] = [th[t] EXCEPT !.pc = "delete_alias"]
        \/ th[t].pc = "delete_alias" /\ th'[t] = [th[t] EXCEPT !.pc = "forget"]
    BY <1>1, <1>2, <1>3, <1>12 DEF CheckAliases, DeleteAlias, Calls, At
  <2>2. QED
    BY <1>0, <2>1 DEF Proceeds, ThreadRecord
<1>13. CASE Forget(t)
  <2>1. \/ th'[t] = Idle
        \/ \E u : \E pc \in {"report_unbridged", "forget"} :
             th'[t] = [th[t] EXCEPT !.todo = th[t].todo \ {u}, !.pc = pc]
    BY <1>1, <1>2, <1>13 DEF Forget
  <2>2. QED
    BY <1>0, <1>13, <2>1 DEF Forget, Calls, At, Proceeds, ThreadRecord
<1>14. CASE ReadCanonical(t)
  <2>1. \/ th'[t] = Idle
        \/ th'[t] = [th[t] EXCEPT !.pc = "post", !.channel = canonical[th[t].room]]
    BY <1>2, <1>14 DEF ReadCanonical, TypeOK
  <2>2. QED
    BY <1>0, <1>14, <2>1 DEF ReadCanonical, Calls, At, Proceeds, ThreadRecord
<1>15. CASE \/ ReportBridged(t) \/ ReportUnbridged(t) \/ SendToRoom(t) \/ PostInChannel(t)
            \/ Refused(t) \/ CallFails(t)
  BY <1>2, <1>15 DEF ReportBridged, ReportUnbridged, SendToRoom, PostInChannel, Refused, CallFails
<1>16. QED
  BY <1>4, <1>5, <1>6, <1>7, <1>8, <1>9, <1>10, <1>11, <1>12, <1>13, <1>14, <1>15
     DEF Step, Bridging, JoiningUsers, Unbridging, Forwarding

\* A handler begins with one of the first calls.
LEMMA RequestBegins ==
  ASSUME TypeOK, NEW t \in Threads, Request(t)
  PROVE  th'[t].pc \in {"create", "check_requester", "snapshot", "find_user", "read_canonical"}
<1>1. \A request : Begin(t, request) => th'[t] = request
  BY DEF Begin, TypeOK
<1>2. ASSUME NEW h \in Humans, NEW c \in Channels, BridgeCommand(t, h, c)
      PROVE  th'[t].pc \in {"create", "check_requester"}
  BY <1>1, <1>2 DEF BridgeCommand, Idle
<1>3. ASSUME NEW h \in Humans, NEW c \in Channels, UnbridgeCommand(t, h, c)
      PROVE  th'[t].pc = "snapshot"
  BY <1>1, <1>3 DEF UnbridgeCommand, Idle
<1>4. ASSUME NEW v \in Virtuals, NEW c \in Channels, Webhook(t, v, c)
      PROVE  th'[t].pc = "find_user"
  BY <1>1, <1>4 DEF Webhook, Idle
<1>5. ASSUME NEW h \in Humans, NEW r \in Rooms, RoomMessage(t, h, r)
      PROVE  th'[t].pc = "read_canonical"
  BY <1>1, <1>5 DEF RoomMessage, Idle
<1>6. QED
  BY <1>2, <1>3, <1>4, <1>5 DEF Request

\* A thread comes to join_user and to send only by an invitation, by a join, or because the user
\* has joined already.
LEMMA ArrivesIn ==
  ASSUME TypeOK, NEW t \in Threads, Step(t) \/ CallFails(t) \/ Request(t),
         th'[t].pc \in {"join_user", "send"}
  PROVE  LET s == th[t]  next == th'[t] IN
         /\ next.room = s.room /\ next.channel = s.channel /\ next.who = s.who
         /\ s.who \in Virtuals /\ s.room \in Rooms
         /\ next.pc = "join_user" => member'[s.room][s.who] # "out"
         /\ next.pc = "send" => member'[s.room][s.who] = "join"
<1>0. th[t] \in ThreadRecord
  BY ThreadType
<1>1. th[t].pc \in {"check_joined", "invite_user", "join_user"}
  BY HandlerProceeds, RequestBegins DEF Proceeds, Idle
<1>2. th[t].who \in Virtuals /\ th[t].room \in Rooms
  BY <1>1, ThreadType, WhoType DEF UserPcs
<1>3. \A next : Answered(t, next) => th'[t] = next \/ th'[t] = Idle
  BY AnsweredCases
<1>4. CASE CheckJoined(t)
  <2>1. IF th[t].who \in Joined(member, th[t].room)
          THEN th'[t] = UserDone(th[t])
          ELSE th'[t].pc = "invite_user"
    BY <1>0, <1>4 DEF CheckJoined, Goto, TypeOK, ThreadRecord
  <2>2. th'[t] = UserDone(th[t]) /\ member[th[t].room][th[t].who] = "join" /\ UNCHANGED member
    BY <1>4, <2>1 DEF CheckJoined, Joined, hsVars
  <2>3. QED
    BY <1>2, <2>2, UserDoneNext
<1>5. CASE InviteUser(t)
  <2>1. member'[th[t].room][th[t].who] = "invite"
    BY <1>2, <1>5 DEF InviteUser, Invite, TypeOK, Users
  <2>2. th'[t] = [th[t] EXCEPT !.pc = "join_user"]
    BY <1>3, <1>5 DEF InviteUser, Idle
  <2>3. QED
    BY <1>0, <1>2, <2>1, <2>2 DEF ThreadRecord
<1>6. CASE JoinUser(t)
  <2>1. member'[th[t].room][th[t].who] = "join"
    BY <1>2, <1>6 DEF JoinUser, Join, TypeOK, Users
  <2>2. th'[t] = UserDone(th[t])
    BY <1>3, <1>6 DEF JoinUser, Idle
  <2>3. QED
    BY <1>2, <2>1, <2>2, UserDoneNext
<1>7. CheckJoined(t) \/ InviteUser(t) \/ JoinUser(t)
  <2>1. ~FindUser(t) /\ ~RegisterUser(t)
    BY <1>1 DEF FindUser, RegisterUser, Calls, At
  <2>2. ~Bridging(t)
    BY <1>1 DEF Bridging, CheckRequester, InviteAgain, CreateRoom, InviteRequester, PutCanonical,
       ReportBridged, Calls, At
  <2>3. ~Unbridging(t)
    BY <1>1 DEF Unbridging, Snapshot, CheckAliases, DeleteAlias, Forget, ReportUnbridged, Calls, At
  <2>4. ~Forwarding(t)
    BY <1>1 DEF Forwarding, SendToRoom, ReadCanonical, PostInChannel, Calls, At
  <2>5. ~Refused(t) /\ ~CallFails(t)
    BY DEF Refused, CallFails, Return, Idle, TypeOK
  <2>6. ~Request(t)
    BY <1>1 DEF Request, BridgeCommand, UnbridgeCommand, Webhook, RoomMessage, Begin, At
  <2>7. QED
    BY <2>1, <2>2, <2>3, <2>4, <2>5, <2>6 DEF Step, JoiningUsers
<1>8. QED
  BY <1>4, <1>5, <1>6, <1>7

\* UsersAreIn is inductive, given IInv.
LEMMA UsersAreInStep == IInv /\ UsersAreIn /\ [Next]_vars => UsersAreIn'
<1> SUFFICES ASSUME IInv, UsersAreIn, [Next]_vars
             PROVE  UsersAreIn'
  OBVIOUS
<1>1. TypeOK /\ RoomsAreOwned /\ LeftRoomsHaveNoAlias
  BY DEF IInv
<1> SUFFICES ASSUME NEW t \in Threads,
                    th'[t].pc \in {"join_user", "send"}, alias'[th'[t].channel] = th'[t].room
             PROVE  /\ th'[t].pc = "join_user" => member'[th'[t].room][th'[t].who] # "out"
                    /\ th'[t].pc = "send" =>
                         th'[t].who \in Virtuals /\ member'[th'[t].room][th'[t].who] = "join"
  BY DEF UsersAreIn
<1>2. CASE th'[t] = th[t]
  <2>1. /\ th[t].pc \in {"join_user", "send"}
        /\ th[t].room \in Rooms /\ th[t].channel \in Channels
        /\ madeFor[th[t].room] # None
    BY <1>1, <1>2, ThreadType, ConstantsFit DEF RoomsAreOwned
  <2>2. alias[th[t].channel] = th[t].room
    BY <1>1, <1>2, <2>1, AliasStep, ConstantsFit
  <2>3. /\ th[t].pc = "join_user" => member[th[t].room][th[t].who] # "out"
        /\ th[t].pc = "send" => th[t].who \in Virtuals /\ member[th[t].room][th[t].who] = "join"
    BY <2>1, <2>2 DEF UsersAreIn
  <2>4. th[t].who \in AsUsers
    BY <1>1, <2>1, <2>3, WhoType DEF AsUsers, UserPcs
  <2>5. Keeps(th[t].room)
    <3>1. UNCHANGED vars => Keeps(th[t].room)
      BY DEF vars, hsVars, Keeps
    <3>2. QED
      BY <1>1, <2>1, <2>2, <3>1, HandlerKeeps, EnvironmentKeeps DEF Next
  <2>6. QED
    BY <1>2, <2>3, <2>4, <2>5 DEF Keeps
<1>3. CASE Step(t) \/ CallFails(t) \/ Request(t)
  BY <1>1, <1>3, ArrivesIn
<1>4. Environment \/ UNCHANGED vars => th'[t] = th[t] \/ th'[t] = Idle
  BY <1>1 DEF Environment, UserJoins, UserLeaves, UserAddsAlias, UserRemovesAlias, Crash, vars
<1>5. QED
  BY <1>1, <1>2, <1>3, <1>4, OthersStay DEF Next, Idle

\* A call that brings in a user, or sends the message, is refused for one of the three reasons.
LEMMA RefusedForAReason ==
  ASSUME IInv, UsersAreIn, NEW t \in Threads, Refused(t), th[t].pc \in UserPcs \cup {"send"}
  PROVE  \/ At(t, "register") /\ th[t].who \in registered
         \/ At(t, "invite_user") /\ th[t].who \in Joined(member, th[t].room)
         \/ alias[th[t].channel] # th[t].room
<1> SUFFICES ASSUME alias[th[t].channel] = th[t].room
             PROVE  \/ At(t, "register") /\ th[t].who \in registered
                    \/ At(t, "invite_user") /\ th[t].who \in Joined(member, th[t].room)
  OBVIOUS
<1>1. /\ th[t].room \in Rooms
      /\ th[t].channel \in Channels
      /\ member[th[t].room][Bot] = "join"
  BY ThreadType, ConstantsFit DEF IInv, UserPcs, AliasedRoomHasBot
<1>2. ~Granted(t)
  BY DEF Refused
<1>3. CASE th[t].pc \in {"find_user", "check_joined"}
  BY <1>1, <1>2, <1>3 DEF Granted, BotReads, MayRead
<1>4. CASE th[t].pc = "register"
  BY <1>2, <1>4 DEF Granted, BotReads, At
<1>5. CASE th[t].pc = "invite_user"
  BY <1>1, <1>2, <1>5, WhoType DEF IInv, Granted, BotReads, MayInvite, Joined, Users, UserPcs, At
<1>6. CASE th[t].pc \in {"join_user", "send"}
  BY <1>2, <1>6 DEF UsersAreIn, Granted, BotReads, MayJoin, MaySend
<1>7. QED
  BY <1>3, <1>4, <1>5, <1>6 DEF UserPcs

\* A handler that brings in users and returns without a fault has sent the message or is refused.
LEMMA ReturnsRefused ==
  ASSUME TypeOK, [Next]_vars, NEW t \in Threads, th[t].pc \in UserPcs \cup {"send"},
         th'[t] = Idle, faults' = faults
  PROVE  SendToRoom(t) \/ Refused(t)
<1>0. th[t].pc # "idle" /\ faults' # faults + 1
  BY DEF UserPcs, TypeOK
<1>1. Step(t)
  <2>1. ~(Environment \/ UNCHANGED vars)
    BY <1>0 DEF Environment, UserJoins, UserLeaves, UserAddsAlias, UserRemovesAlias, Crash, vars, Idle
  <2>2. PICK x \in Threads : Request(x) \/ Step(x) \/ CallFails(x)
    BY <2>1 DEF Next
  <2>3. x = t
    BY <1>0, <2>2, OthersStay DEF Idle
  <2>4. ~CallFails(t) /\ ~Request(t)
    BY <1>0 DEF CallFails, Request, BridgeCommand, UnbridgeCommand, Webhook, RoomMessage, Begin, At
  <2>5. QED
    BY <2>2, <2>3, <2>4
<1>2. \A next : Answered(t, next) => th'[t] = next
  BY <1>0 DEF Answered, TypeOK
<1>3. UserDone(th[t]).pc # "idle"
  BY UserDoneNext
<1>4. ~JoiningUsers(t)
  <2>1. ASSUME FindUser(t)
        PROVE  FALSE
    <3>1. PICK v \in th[t].todo :
            th' = [th EXCEPT ![t].who = v,
                             ![t].pc = IF v \in registered THEN "check_joined" ELSE "register"]
      BY <2>1 DEF FindUser
    <3>2. PICK pc \in {"check_joined", "register"} : th'[t] = [th[t] EXCEPT !.who = v, !.pc = pc]
      BY <3>1 DEF TypeOK
    <3>3. th'[t].pc = pc
      BY <3>2, ThreadType DEF ThreadRecord
    <3>4. QED
      BY <3>3 DEF Idle
  <2>2. ~RegisterUser(t) /\ ~InviteUser(t)
    BY <1>2, ThreadType DEF RegisterUser, InviteUser, Idle, ThreadRecord
  <2>3. ~CheckJoined(t)
    BY <1>3, ThreadType DEF CheckJoined, Goto, Idle, TypeOK, ThreadRecord
  <2>4. ~JoinUser(t)
    BY <1>2, <1>3 DEF JoinUser, Idle
  <2>5. QED
    BY <2>1, <2>2, <2>3, <2>4 DEF JoiningUsers
<1>5. ~Bridging(t)
  BY DEF Bridging, CheckRequester, InviteAgain, CreateRoom, InviteRequester, PutCanonical,
     ReportBridged, Calls, At, UserPcs
<1>6. ~Unbridging(t)
  BY DEF Unbridging, Snapshot, CheckAliases, DeleteAlias, Forget, ReportUnbridged, Calls, At, UserPcs
<1>7. ~ReadCanonical(t) /\ ~PostInChannel(t)
  BY DEF ReadCanonical, PostInChannel, Calls, At, UserPcs
<1>8. QED
  BY <1>1, <1>4, <1>5, <1>6, <1>7 DEF Step, Forwarding

\* However many handlers run, whatever they left behind, and whichever calls failed: a virtual
\* user is kept out of a room, and the message or the bridge command with it, only if another
\* handler brought the same user in at the same time, or if the channel has lost the room.
THEOREM UsersAreRefusedOnlyInARace == Spec => RefusedOnlyInARace
<1>1. Init => UsersAreIn
  BY DEF Init, UsersAreIn, Idle
<1>2. IInv /\ UsersAreIn /\ [Next]_vars =>
        [\A t \in Threads :
           th[t].pc \in UserPcs \cup {"send"} /\ th'[t] = Idle /\ faults' = faults =>
             \/ At(t, "send") /\ Granted(t)
             \/ At(t, "register") /\ th[t].who \in registered
             \/ At(t, "invite_user") /\ th[t].who \in Joined(member, th[t].room)
             \/ alias[th[t].channel] # th[t].room]_vars
  <2> SUFFICES ASSUME IInv, UsersAreIn, [Next]_vars, NEW t \in Threads,
                      th[t].pc \in UserPcs \cup {"send"}, th'[t] = Idle, faults' = faults
               PROVE  \/ At(t, "send") /\ Granted(t)
                      \/ At(t, "register") /\ th[t].who \in registered
                      \/ At(t, "invite_user") /\ th[t].who \in Joined(member, th[t].room)
                      \/ alias[th[t].channel] # th[t].room
    OBVIOUS
  <2>1. SendToRoom(t) \/ Refused(t)
    BY ReturnsRefused DEF IInv
  <2>2. SendToRoom(t) => At(t, "send") /\ Granted(t)
    BY DEF SendToRoom, Calls
  <2>3. QED
    BY <2>1, <2>2, RefusedForAReason
<1>3. QED
  BY <1>1, <1>2, UsersAreInStep, Inductive, PTL DEF Spec, RefusedOnlyInARace

-----------------------------------------------------------------------------
(***************************************************************************)
(* What an unbridge command leaves behind, with any handlers running and   *)
(* any calls failing.  From the list of the members on, the users of the   *)
(* application service in the room who are no latecomers only become       *)
(* fewer, whoever makes them leave; the command reports the room when none *)
(* of them is left.                                                        *)
(***************************************************************************)

\* The users of the application service in room r, except for latecomers.
Remaining(r) == {u \in Joined(member, r) \cap AsUsers : <<r, u>> \notin latecomers}

NotBound(r) == \A c \in Channels : alias[c] # r

\* A room that was reported as unbridged is one that the bridge made and has left.
Gone(r) == madeFor[r] # None /\ NotBound(r) /\ Remaining(r) = {}

UnbridgedRoomsAreGone == \A r \in unbridged : Gone(r)

LeavingPcs == {"check_aliases", "delete_alias", "forget", "report_unbridged"}

\* All users that have to leave are on the list of the thread that makes them leave.
LeavingIsComplete ==
  \A t \in Threads :
    LET s == th[t] IN
    s.pc \in LeavingPcs =>
      /\ Remaining(s.room) \subseteq s.todo
      /\ s.pc = "report_unbridged" => s.todo = {} /\ NotBound(s.room)

LeftInv == UnbridgedRoomsAreGone /\ LeavingIsComplete

\* A room stays with the channel it was made for.
LEMMA MadeForStays ==
  ASSUME TypeOK, [Next]_vars
  PROVE  \A r \in Rooms : madeFor[r] # None => madeFor'[r] = madeFor[r]
<1>1. ASSUME NEW t \in Threads, CreateRoom(t)
      PROVE  \A r \in Rooms : madeFor[r] # None => madeFor'[r] = madeFor[r]
  BY <1>1 DEF CreateRoom, TypeOK
<1>2. ASSUME NEW t \in Threads, Request(t) \/ Step(t) \/ CallFails(t), ~CreateRoom(t)
      PROVE  UNCHANGED madeFor
  BY <1>2 DEF Step, Bridging, JoiningUsers, Unbridging, Forwarding, Request, CheckRequester,
     InviteAgain, InviteRequester, PutCanonical, ReportBridged, FindUser, RegisterUser,
     CheckJoined, InviteUser, JoinUser, Snapshot, CheckAliases, DeleteAlias, Forget,
     ReportUnbridged, SendToRoom, ReadCanonical, PostInChannel, Refused, CallFails,
     BridgeCommand, UnbridgeCommand, Webhook, RoomMessage, hsVars
<1>3. Environment \/ UNCHANGED vars => UNCHANGED madeFor
  BY DEF Environment, UserJoins, UserLeaves, UserAddsAlias, UserRemovesAlias, Crash, vars, hsVars
<1>4. QED
  BY <1>1, <1>2, <1>3 DEF Next, Step, Bridging

\* No user of the application service comes to room r.
NobodyComes(r) == Joined(member', r) \cap AsUsers \subseteq Joined(member, r)

\* An invitation brings nobody into a room, nor does a departure,
LEMMA NobodyComesByInvite ==
  ASSUME TypeOK, NEW q \in Rooms, NEW u, member' = Invite(member, q, u) \/ member' = Leave(member, q, u)
  PROVE  \A r \in Rooms : NobodyComes(r)
BY DEF NobodyComes, Joined, Invite, Leave, TypeOK, Users

\* and a join brings the user into the one room.
LEMMA NobodyComesByJoin ==
  ASSUME TypeOK, NEW q \in Rooms, NEW u, member' = Join(member, q, u)
  PROVE  \A r \in Rooms : NobodyComes(r) \/ (r = q /\ u \in AsUsers)
BY DEF NobodyComes, Joined, Join, TypeOK, Users, AsUsers

\* The bridge's users come only to a new room and to a room that a thread brings a user into.
LEMMA WhoComes ==
  ASSUME TypeOK, [Next]_vars, NEW r \in Rooms
  PROVE  \/ NobodyComes(r)
         \/ madeFor[r] = None
         \/ \E t \in Threads : JoinUser(t) /\ th[t].room = r
<1>1. ASSUME NEW t \in Threads, Request(t) \/ Step(t) \/ CallFails(t)
      PROVE  \/ NobodyComes(r)
             \/ madeFor[r] = None
             \/ JoinUser(t) /\ th[t].room = r
  <2>0. ~At(t, "idle") /\ ~At(t, "create") => th[t].room \in Rooms
    BY ThreadType DEF At
  <2>1. CASE InviteAgain(t) \/ InviteRequester(t) \/ InviteUser(t)
    BY <2>0, <2>1, NobodyComesByInvite DEF InviteAgain, InviteRequester, InviteUser, Calls, At
  <2>2. CASE JoinUser(t)
    BY <2>0, <2>2, NobodyComesByJoin DEF JoinUser, Calls, At
  <2>3. CASE CreateRoom(t)
    BY <2>3, NobodyComesByJoin DEF CreateRoom
  <2>4. UNCHANGED member => NobodyComes(r)
    BY DEF NobodyComes
  <2>5. CASE Forget(t)
    BY <2>0, <2>4, <2>5, NobodyComesByInvite DEF Forget, Calls, At
  <2>6. QED
    BY <1>1, <2>1, <2>2, <2>3, <2>4, <2>5
       DEF Step, Bridging, JoiningUsers, Unbridging, Forwarding, Request, CheckRequester,
       PutCanonical, ReportBridged, FindUser, RegisterUser, CheckJoined, Snapshot, CheckAliases,
       DeleteAlias, ReportUnbridged, SendToRoom, ReadCanonical, PostInChannel, Refused, CallFails,
       BridgeCommand, UnbridgeCommand, Webhook, RoomMessage, hsVars
<1>2. Environment \/ UNCHANGED vars => NobodyComes(r)
  <2>1. ASSUME NEW h \in Humans, NEW q \in Rooms, UserJoins(h, q)
        PROVE  NobodyComes(r)
    BY <2>1, NobodyComesByJoin, UsersAreDistinct DEF UserJoins, AsUsers
  <2>2. ASSUME NEW h \in Humans, NEW q \in Rooms, UserLeaves(h, q)
        PROVE  NobodyComes(r)
    BY <2>2, NobodyComesByInvite DEF UserLeaves
  <2>3. UNCHANGED member => NobodyComes(r)
    BY DEF NobodyComes
  <2>4. QED
    BY <2>1, <2>2, <2>3 DEF Environment, UserAddsAlias, UserRemovesAlias, Crash, vars, hsVars
<1>3. QED
  BY <1>1, <1>2 DEF Next

\* Latecomers come and go with the users themselves.
LEMMA LatecomersStay ==
  ASSUME [Next]_vars
  PROVE  UNCHANGED latecomers \/ \E t \in Threads : JoinUser(t) \/ Forget(t)
<1>1. ASSUME NEW t \in Threads, Request(t) \/ Step(t) \/ CallFails(t), ~JoinUser(t), ~Forget(t)
      PROVE  UNCHANGED latecomers
  BY <1>1 DEF Step, Bridging, JoiningUsers, Unbridging, Forwarding, Request, CheckRequester,
     InviteAgain, CreateRoom, InviteRequester, PutCanonical, ReportBridged, FindUser,
     RegisterUser, CheckJoined, InviteUser, Snapshot, CheckAliases, DeleteAlias,
     ReportUnbridged, SendToRoom, ReadCanonical, PostInChannel, Refused, CallFails,
     BridgeCommand, UnbridgeCommand, Webhook, RoomMessage, reportVars
<1>2. Environment \/ UNCHANGED vars => UNCHANGED latecomers
  BY DEF Environment, UserJoins, UserLeaves, UserAddsAlias, UserRemovesAlias, Crash, vars, reportVars
<1>3. QED
  BY <1>1, <1>2 DEF Next

\* A user who is made to leave is not there any more; the others remain as they were.
LEMMA ForgetShrinks ==
  ASSUME TypeOK, NEW t \in Threads, Forget(t), NEW r \in Rooms
  PROVE  Remaining(r)' \subseteq Remaining(r)
<1>1. th[t].room \in Rooms
  BY ThreadType DEF Forget, Calls, At
<1>2. ASSUME NEW u, member' = Leave(member, th[t].room, u), latecomers' = latecomers \ {<<th[t].room, u>>}
      PROVE  Remaining(r)' \subseteq Remaining(r)
  <2>1. ASSUME NEW x \in Users, member'[r][x] = "join"
        PROVE  member[r][x] = "join" /\ <<r, x>> # <<th[t].room, u>>
    BY <1>1, <1>2, <2>1 DEF Leave, TypeOK
  <2>2. QED
    BY <1>2, <2>1 DEF Remaining, Joined
<1>3. UNCHANGED <<member, latecomers>> => Remaining(r)' \subseteq Remaining(r)
  BY DEF Remaining, Joined
<1>4. QED
  BY <1>2, <1>3 DEF Forget

\* Whoever is brought in meanwhile is a latecomer.
LEMMA JoinShrinks ==
  ASSUME TypeOK, NEW t \in Threads, JoinUser(t), NEW r \in Rooms, BeingLeft(r)
  PROVE  Remaining(r)' \subseteq Remaining(r)
<1>1. th[t].room \in Rooms
  BY ThreadType DEF JoinUser, Calls, At
<1>2. ASSUME NEW x \in Users, member'[r][x] = "join", member[r][x] # "join"
      PROVE  r = th[t].room /\ x = th[t].who
  BY <1>1, <1>2 DEF JoinUser, Join, TypeOK
<1>3. latecomers \subseteq latecomers' /\ (r = th[t].room => <<r, th[t].who>> \in latecomers')
  BY DEF JoinUser
<1>4. QED
  BY <1>2, <1>3 DEF Remaining, Joined

\* While a room is being left, and afterwards, those who remain in it only become fewer.
LEMMA RemainingShrinks ==
  ASSUME TypeOK, [Next]_vars, NEW r \in Rooms, madeFor[r] # None, BeingLeft(r)
  PROVE  Remaining(r)' \subseteq Remaining(r)
<1>1. NobodyComes(r) /\ UNCHANGED latecomers => Remaining(r)' \subseteq Remaining(r)
  BY DEF NobodyComes, Remaining
<1>2. QED
  BY <1>1, WhoComes, LatecomersStay, ForgetShrinks, JoinShrinks

\* No alias comes to resolve to a room that is there already.
LEMMA NotBoundStays ==
  ASSUME TypeOK, [Next]_vars, NEW r \in Rooms, madeFor[r] # None, NotBound(r)
  PROVE  NotBound(r)'
BY AliasStep, ConstantsFit DEF NotBound

\* A handler proceeds only by a call that the homeserver grants.
LEMMA ProceedsGranted ==
  ASSUME TypeOK, NEW t \in Threads, Step(t) \/ CallFails(t), th'[t] # Idle
  PROVE  Granted(t)
<1>1. ~Refused(t) /\ ~CallFails(t)
  BY DEF Refused, CallFails, Return, TypeOK
<1>2. Bridging(t) \/ JoiningUsers(t) => Granted(t)
  BY DEF Bridging, JoiningUsers, CheckRequester, InviteAgain, CreateRoom, InviteRequester,
     PutCanonical, ReportBridged, FindUser, RegisterUser, CheckJoined, InviteUser, JoinUser, Calls
<1>3. Unbridging(t) \/ Forwarding(t) => Granted(t)
  BY DEF Unbridging, Forwarding, Snapshot, CheckAliases, DeleteAlias, Forget, ReportUnbridged,
     SendToRoom, ReadCanonical, PostInChannel, Calls
<1>4. QED
  BY <1>1, <1>2, <1>3 DEF Step

\* The only call of a command that finds no room creates it.
LEMMA CreateIsCreate ==
  ASSUME TypeOK, NEW t \in Threads, Step(t) \/ CallFails(t), th'[t] # Idle, th[t].pc = "create"
  PROVE  CreateRoom(t)
<1>1. ~Refused(t) /\ ~CallFails(t)
  BY DEF Refused, CallFails, Return, TypeOK
<1>2. ~JoiningUsers(t) /\ ~Forwarding(t)
  BY DEF JoiningUsers, FindUser, RegisterUser, CheckJoined, InviteUser, JoinUser, Forwarding,
     SendToRoom, ReadCanonical, PostInChannel, Calls, At
<1>3. ~Unbridging(t)
  BY DEF Unbridging, Snapshot, CheckAliases, DeleteAlias, Forget, ReportUnbridged, Calls, At
<1>4. Bridging(t) => CreateRoom(t)
  BY DEF Bridging, CheckRequester, InviteAgain, InviteRequester, PutCanonical, ReportBridged, Calls, At
<1>5. QED
  BY <1>1, <1>2, <1>3, <1>4 DEF Step

\* It creates a room that was not there before, and the thread goes on with that room.
LEMMA CreateStep ==
  ASSUME TypeOK, NEW t \in Threads, CreateRoom(t), th'[t] # Idle
  PROVE  \E r \in Rooms :
           /\ madeFor[r] = None
           /\ alias' = [alias EXCEPT ![th[t].channel] = r]
           /\ member' = Join(member, r, Bot)
           /\ th'[t].pc = "invite_requester"
           /\ th'[t].room = r
           /\ th'[t].channel = th[t].channel
<1>1. PICK r \in Rooms :
        /\ madeFor[r] = None
        /\ alias' = [alias EXCEPT ![th[t].channel] = r]
        /\ member' = Join(member, r, Bot)
        /\ Answered(t, [th[t] EXCEPT !.pc = "invite_requester", !.room = r])
  BY DEF CreateRoom
<1>2. th'[t] = [th[t] EXCEPT !.pc = "invite_requester", !.room = r]
  BY <1>1, AnsweredCases
<1>3. /\ th'[t].pc = "invite_requester"
      /\ th'[t].room = r
      /\ th'[t].channel = th[t].channel
  BY <1>2, ThreadType DEF ThreadRecord
<1>4. QED
  BY <1>1, <1>3

\* A room is reported as unbridged by ReportUnbridged only.
LEMMA WhoReports ==
  ASSUME TypeOK, [Next]_vars
  PROVE  \/ UNCHANGED unbridged
         \/ \E t \in Threads : ReportUnbridged(t)
<1>1. ASSUME NEW t \in Threads, Request(t) \/ Step(t) \/ CallFails(t), ~ReportUnbridged(t)
      PROVE  UNCHANGED unbridged
  BY <1>1 DEF Step, Bridging, JoiningUsers, Unbridging, Forwarding, Request, CheckRequester,
     InviteAgain, CreateRoom, InviteRequester, PutCanonical, ReportBridged, FindUser,
     RegisterUser, CheckJoined, InviteUser, JoinUser, Snapshot, CheckAliases, DeleteAlias,
     Forget, SendToRoom, ReadCanonical, PostInChannel, Refused, CallFails,
     BridgeCommand, UnbridgeCommand, Webhook, RoomMessage, reportVars
<1>2. Environment \/ UNCHANGED vars => UNCHANGED unbridged
  BY DEF Environment, UserJoins, UserLeaves, UserAddsAlias, UserRemovesAlias, Crash, vars, reportVars
<1>3. QED
  BY <1>1, <1>2 DEF Next

\* A thread that did not step is where it was, unless the process was killed.
LEMMA EnvironmentThreads ==
  ASSUME TypeOK, Environment \/ UNCHANGED vars, NEW t \in Threads
  PROVE  th'[t] = th[t] \/ th'[t] = Idle
BY DEF Environment, UserJoins, UserLeaves, UserAddsAlias, UserRemovesAlias, Crash, vars

\* Rooms that were reported stay left, and the thread that reports has seen to it.
LEMMA UnbridgedStep ==
  IInv /\ LeftInv /\ [Next]_vars => UnbridgedRoomsAreGone'
<1> SUFFICES ASSUME IInv, LeftInv, [Next]_vars, NEW r \in unbridged'
             PROVE  Gone(r)'
  BY DEF UnbridgedRoomsAreGone
<1>1. TypeOK /\ RoomsAreOwned
  BY DEF IInv
<1>2. CASE r \in unbridged
  <2>1. r \in Rooms /\ Gone(r) /\ BeingLeft(r)
    BY <1>1, <1>2 DEF LeftInv, UnbridgedRoomsAreGone, BeingLeft, TypeOK
  <2>2. madeFor'[r] # None
    BY <1>1, <2>1, MadeForStays DEF Gone
  <2>3. NotBound(r)' /\ Remaining(r)' = {}
    BY <1>1, <2>1, NotBoundStays, RemainingShrinks DEF Gone
  <2>4. QED
    BY <2>2, <2>3 DEF Gone
<1>3. ASSUME NEW t \in Threads, ReportUnbridged(t), r \notin unbridged
      PROVE  Gone(r)'
  <2>1. r = th[t].room /\ th[t].pc = "report_unbridged"
    BY <1>3 DEF ReportUnbridged, Calls, At
  <2>2. r \in Rooms /\ madeFor[r] # None
    BY <1>1, <2>1, ThreadType, ConstantsFit DEF RoomsAreOwned
  <2>3. Remaining(r) = {} /\ NotBound(r)
    BY <2>1 DEF LeftInv, LeavingIsComplete, LeavingPcs
  <2>4. UNCHANGED <<alias, madeFor, member, latecomers>>
    BY <1>3 DEF ReportUnbridged, hsVars
  <2>5. QED
    BY <2>2, <2>3, <2>4 DEF Gone, Remaining, NotBound, Joined
<1>4. QED
  BY <1>1, <1>2, <1>3, WhoReports

\* The thread that makes users leave has those who remain on its list.
LeavesAll(t) ==
  th[t].pc \in LeavingPcs =>
    /\ Remaining(th[t].room) \subseteq th[t].todo
    /\ th[t].pc = "report_unbridged" => th[t].todo = {} /\ NotBound(th[t].room)

\* Another handler, a Matrix user or a crash adds nobody to them.
LEMMA WaitingStep ==
  ASSUME IInv, LeftInv, [Next]_vars, NEW t \in Threads, th'[t] = th[t]
  PROVE  LeavesAll(t)'
<1> SUFFICES ASSUME th[t].pc \in LeavingPcs
             PROVE  LeavesAll(t)'
  BY DEF LeavesAll
<1>1. TypeOK /\ RoomsAreOwned
  BY DEF IInv
<1>2. PICK r \in Rooms : r = th[t].room /\ madeFor[r] # None
  BY <1>1, ThreadType, ConstantsFit DEF RoomsAreOwned, LeavingPcs
<1>3. BeingLeft(r)
  BY <1>2 DEF BeingLeft, LeavingPcs, UnbridgePcs
<1>4. /\ Remaining(r) \subseteq th[t].todo
      /\ th[t].pc = "report_unbridged" => th[t].todo = {} /\ NotBound(r)
  BY <1>2 DEF LeftInv, LeavingIsComplete
<1>5. Remaining(r)' \subseteq th[t].todo
  BY <1>1, <1>2, <1>3, <1>4, RemainingShrinks
<1>6. th[t].pc = "report_unbridged" => th[t].todo = {} /\ NotBound(r)'
  BY <1>1, <1>2, <1>4, NotBoundStays
<1>7. Remaining(th[t].room)' = Remaining(r)' /\ NotBound(th[t].room)' = NotBound(r)'
  BY <1>2 DEF Remaining, NotBound, Joined
<1>8. QED
  BY <1>5, <1>6, <1>7 DEF LeavesAll

\* Its own step takes the list of the members, keeps it, or makes one user leave who is on it.
LEMMA OwnStep ==
  ASSUME IInv, LeftInv, NEW t \in Threads, Step(t) \/ CallFails(t), th'[t].pc \in LeavingPcs
  PROVE  LeavesAll(t)'
<1>1. TypeOK /\ LeftRoomsHaveNoAlias
  BY DEF IInv
<1>2. th[t] \in ThreadRecord /\ th'[t] # Idle
  BY <1>1, ThreadType DEF Idle, LeavingPcs
<1>3. Proceeds(t)
  BY <1>1, <1>2, HandlerProceeds
<1>4. th[t].pc \in {"snapshot", "check_aliases", "delete_alias", "forget"}
  BY <1>3 DEF Proceeds, LeavingPcs
<1>5. PICK r \in Rooms : r = th[t].room
  BY <1>1, <1>4, ThreadType
<1>6. SUFFICES /\ Remaining(r)' \subseteq th'[t].todo
               /\ th'[t].pc = "report_unbridged" => th'[t].todo = {} /\ NotBound(r)'
  <2>1. th'[t].room = r
    BY <1>3, <1>4, <1>5 DEF Proceeds
  <2>2. QED
    BY <2>1 DEF LeavesAll, Remaining, NotBound, Joined
<1>7. CASE Snapshot(t)
  <2>1. th'[t] = [th[t] EXCEPT !.pc = "check_aliases", !.todo = Joined(member, r)]
    BY <1>1, <1>2, <1>5, <1>7 DEF Snapshot, Return, TypeOK
  <2>2. th'[t].todo = Joined(member, r) /\ th'[t].pc = "check_aliases"
    BY <1>2, <2>1 DEF ThreadRecord
  <2>3. UNCHANGED member
    BY <1>7 DEF Snapshot, hsVars
  <2>4. QED
    BY <2>2, <2>3 DEF Remaining, Joined
<1>8. CASE CheckAliases(t) \/ DeleteAlias(t)
  <2>1. \E pc \in {"delete_alias", "forget"} : th'[t] = [th[t] EXCEPT !.pc = pc]
    BY <1>1, <1>2, <1>8, AnsweredCases DEF CheckAliases, DeleteAlias, Goto, Return, TypeOK
  <2>2. th'[t].todo = th[t].todo /\ th'[t].pc # "report_unbridged"
    BY <1>2, <2>1 DEF ThreadRecord
  <2>3. UNCHANGED <<member, latecomers>>
    BY <1>8 DEF CheckAliases, DeleteAlias, hsVars, reportVars
  <2>4. Remaining(r) \subseteq th[t].todo
    BY <1>5, <1>8 DEF CheckAliases, DeleteAlias, Calls, At, LeftInv, LeavingIsComplete, LeavingPcs
  <2>5. QED
    BY <2>2, <2>3, <2>4 DEF Remaining, Joined
<1>9. CASE Forget(t)
  <2>1. PICK u \in th[t].todo :
          /\ member' = Leave(member, r, u)
          /\ th'[t] = [th[t] EXCEPT !.todo = @ \ {u},
                         !.pc = IF th[t].todo = {u} THEN "report_unbridged" ELSE "forget"]
    <3>1. \A next : Answered(t, next) => th'[t] = next
      BY <1>1, <1>2, AnsweredCases
    <3>2. ~Return(t)
      BY <1>1, <1>2 DEF Return, TypeOK
    <3>3. QED
      BY <1>5, <1>9, <3>1, <3>2 DEF Forget
  <2>2. /\ th'[t].todo = th[t].todo \ {u}
        /\ th'[t].pc = "report_unbridged" => th[t].todo = {u}
    BY <1>2, <2>1 DEF ThreadRecord
  <2>3. th[t].pc = "forget" /\ UNCHANGED alias
    BY <1>9 DEF Forget, Calls, At
  <2>4. Remaining(r) \subseteq th[t].todo
    BY <1>5, <2>3 DEF LeftInv, LeavingIsComplete, LeavingPcs
  <2>5. Remaining(r)' \subseteq Remaining(r)
    BY <1>1, <1>9, ForgetShrinks
  <2>6. u \notin Joined(member', r)
    BY <1>1, <2>1 DEF Joined, Leave, TypeOK
  <2>7. NotBound(r)'
    BY <1>1, <1>5, <2>3 DEF LeftRoomsHaveNoAlias, At, NotBound
  <2>8. QED
    BY <2>2, <2>4, <2>5, <2>6, <2>7 DEF Remaining
<1>10. Snapshot(t) \/ CheckAliases(t) \/ DeleteAlias(t) \/ Forget(t)
  <2>1. ~Refused(t) /\ ~CallFails(t)
    BY <1>1, <1>2 DEF Refused, CallFails, Return, TypeOK
  <2>2. ~JoiningUsers(t) /\ ~Forwarding(t)
    BY <1>4 DEF JoiningUsers, FindUser, RegisterUser, CheckJoined, InviteUser, JoinUser,
       Forwarding, SendToRoom, ReadCanonical, PostInChannel, Calls, At
  <2>3. ~Bridging(t) /\ ~ReportUnbridged(t)
    BY <1>4 DEF Bridging, CheckRequester, InviteAgain, CreateRoom, InviteRequester, PutCanonical,
       ReportBridged, ReportUnbridged, Calls, At
  <2>4. QED
    BY <2>1, <2>2, <2>3 DEF Step, Unbridging
<1>11. QED
  BY <1>7, <1>8, <1>9, <1>10

\* The list of the members stays complete, whatever the others do.
LEMMA LeavingStep == IInv /\ LeftInv /\ [Next]_vars => LeavingIsComplete'
<1> SUFFICES ASSUME IInv, LeftInv, [Next]_vars, NEW t \in Threads
             PROVE  LeavesAll(t)'
  BY DEF LeavingIsComplete, LeavesAll
<1> SUFFICES ASSUME th'[t].pc \in LeavingPcs
             PROVE  LeavesAll(t)'
  BY DEF LeavesAll
<1>1. TypeOK /\ th'[t] # Idle
  BY DEF IInv, Idle, LeavingPcs
<1>2. CASE th'[t] = th[t]
  BY <1>2, WaitingStep
<1>3. CASE Step(t) \/ CallFails(t)
  BY <1>3, OwnStep
<1>4. ~Request(t)
  BY <1>1, RequestBegins DEF LeavingPcs
<1>5. QED
  BY <1>1, <1>2, <1>3, <1>4, OthersStay, EnvironmentThreads DEF Next

\* LeftInv holds in every reachable state.
LEMMA LeftInductive == Spec => []LeftInv
<1>1. Init => LeftInv
  BY DEF Init, LeftInv, UnbridgedRoomsAreGone, LeavingIsComplete, LeavingPcs, Idle
<1>2. IInv /\ LeftInv /\ [Next]_vars => LeftInv'
  BY UnbridgedStep, LeavingStep DEF LeftInv
<1>3. QED
  BY <1>1, <1>2, Inductive, PTL DEF Spec

\* However many handlers run, whichever calls fail and whenever the process dies: a room that was
\* reported as unbridged has no alias and no bot, and the only Rocket.Chat users in it are those
\* whom a handler brought in when the unbridge command had listed the members.
THEOREM UnbridgedRoomsAreLeft == Spec => []UnbridgedRoomIsLeft
<1>1. IInv /\ LeftInv => UnbridgedRoomIsLeft
  BY DEF IInv, TypeOK, LeftInv, UnbridgedRoomsAreGone, Gone, NotBound, Remaining, UnbridgedRoomIsLeft
<1>2. QED
  BY <1>1, LeftInductive, Inductive, PTL

\* A handler finds a room by its alias, or creates one, and neither is a room that was left.
LEMMA FindsNoLeftRoom ==
  ASSUME IInv, LeftInv, [Next]_vars, NEW t \in Threads,
         th'[t].op # "message", th'[t].room \notin {None, th[t].room}
  PROVE  th'[t].room \notin unbridged
<1>1. TypeOK /\ \A r \in unbridged : Gone(r)
  BY DEF IInv, LeftInv, UnbridgedRoomsAreGone
<1>2. th'[t] # Idle /\ th'[t] # th[t]
  BY DEF Idle
<1>3. CASE Step(t) \/ CallFails(t)
  <2>1. Proceeds(t)
    BY <1>1, <1>2, <1>3, HandlerProceeds
  <2>2. th[t].pc = "create"
    BY <2>1 DEF Proceeds
  <2>3. CreateRoom(t)
    BY <1>1, <1>2, <1>3, <2>2, CreateIsCreate
  <2>4. PICK r \in Rooms : madeFor[r] = None /\ th'[t].room = r
    BY <1>1, <1>2, <2>3, CreateStep
  <2>5. QED
    BY <1>1, <2>4 DEF Gone
<1>4. CASE Request(t)
  <2>1. \A request : Begin(t, request) => th'[t] = request
    BY <1>1 DEF Begin, TypeOK
  <2>2. \E c \in Channels : th'[t].room = MatrixId(c)
    BY <1>4, <2>1 DEF Request, BridgeCommand, UnbridgeCommand, Webhook, RoomMessage, Idle
  <2>3. QED
    BY <1>1, <2>2 DEF Gone, NotBound, MatrixId
<1>5. QED
  BY <1>1, <1>2, <1>3, <1>4, OthersStay, EnvironmentThreads DEF Next

\* The channel of a message is read as the bot, who is in none of these rooms.
LEMMA ReadsNoLeftRoom ==
  ASSUME IInv, LeftInv, [Next]_vars, NEW t \in Threads, th'[t].pc = "post", th[t].pc # "post"
  PROVE  th'[t].room \notin unbridged
<1>1. TypeOK /\ \A r \in unbridged : Gone(r)
  BY DEF IInv, LeftInv, UnbridgedRoomsAreGone
<1>2. th'[t] # Idle /\ th'[t] # th[t]
  BY DEF Idle
<1>3. ~Request(t)
  BY <1>1, RequestBegins
<1>4. Step(t) \/ CallFails(t)
  BY <1>1, <1>2, <1>3, OthersStay, EnvironmentThreads DEF Next
<1>5. Proceeds(t) /\ Granted(t)
  BY <1>1, <1>2, <1>4, HandlerProceeds, ProceedsGranted
<1>6. th[t].pc = "read_canonical" /\ th'[t].room = th[t].room
  BY <1>5 DEF Proceeds
<1>7. member[th[t].room][Bot] = "join"
  BY <1>5, <1>6 DEF Granted, BotReads, MayRead
<1>8. ASSUME th[t].room \in unbridged
      PROVE  FALSE
  <2>1. <<th[t].room, Bot>> \in latecomers
    BY <1>1, <1>7, <1>8 DEF Gone, Remaining, Joined, Users, AsUsers
  <2>2. QED
    BY <1>1, <2>1, UsersAreDistinct DEF TypeOK
<1>9. QED
  BY <1>6, <1>8

\* However many handlers run and whatever fails: nothing takes a room up again that was reported
\* as unbridged, neither from the channel's side nor from the room's, so that whatever crosses
\* afterwards was under way by then.
THEOREM LeftRoomsAreNotTakenUpAgain == Spec => NotTakenUpAgain
<1>1. IInv /\ LeftInv /\ [Next]_vars =>
        [\A t \in Threads :
           LET s == th[t]  n == th'[t] IN
           \/ n.op # "message" /\ n.room \notin {None, s.room}
           \/ n.pc = "post" /\ s.pc # "post"
           => n.room \notin unbridged]_vars
  BY FindsNoLeftRoom, ReadsNoLeftRoom
<1>2. QED
  BY <1>1, LeftInductive, Inductive, PTL DEF Spec, NotTakenUpAgain

-----------------------------------------------------------------------------
(***************************************************************************)
(* Commands one at a time and no fault, with any number of webhook         *)
(* messages meanwhile: a bridge command that has created a room names the  *)
(* channel in it, because no call on the way can be refused.               *)
(***************************************************************************)

\* What a homeserver does that pushes one transaction at a time.
OneTransaction == \A t, u \in TransactionThreads : t = u

\* Commands are handled by transaction threads, and come from humans.
CommandsAreTransactions ==
  \A t \in Threads :
    LET s == th[t] IN
    /\ s.pc \in CreatePcs \cup {"check_requester", "invite_again", "report_bridged"} => s.op = "bridge"
    /\ s.pc \in UnbridgePcs => s.op = "unbridge"
    /\ s.op \in {"bridge", "unbridge"} => t \in TransactionThreads
    /\ s.op = "bridge" => s.user \in Humans

NobodyInUnmadeRooms ==
  \A r \in Rooms, h \in Humans : madeFor[r] = None => member[r][h] = "out"

\* The calls between the creation of a room and its canonical alias.
Naming == {"invite_requester", "put_canonical"}

\* The room of a channel is named after it, or is about to be.
NamedOrNaming ==
  \A c \in Channels :
    alias[c] # None =>
      \/ canonical[alias[c]] = c
      \/ \E t \in Threads : th[t].pc \in Naming /\ th[t].channel = c

\* Meanwhile nobody takes the alias away, and the requester is not in the room yet.
NewRoomsAreBound ==
  \A t \in Threads :
    LET s == th[t] IN
    s.pc \in Naming =>
      /\ alias[s.channel] = s.room
      /\ s.pc = "invite_requester" => \A h \in Humans : member[s.room][h] = "out"

\* A bridge command brings users only into a room that is named.
BridgingRoomsAreNamed ==
  \A t \in Threads :
    LET s == th[t] IN
    s.op = "bridge" /\ s.pc \in UserPcs \cup {"check_requester", "invite_again", "report_bridged"} =>
      canonical[s.room] = s.channel

NamedInv ==
  /\ CommandsAreTransactions
  /\ NobodyInUnmadeRooms
  /\ NamedOrNaming
  /\ NewRoomsAreBound
  /\ BridgingRoomsAreNamed
  /\ ReportedBridgeIsTwoWay

\* A room that names a channel goes on naming it.
LEMMA CanonicalStays ==
  ASSUME IInv, [Next]_vars
  PROVE  \A r \in Rooms : canonical[r] # None => canonical'[r] = canonical[r]
<1>1. TypeOK /\ RoomsAreOwned
  BY DEF IInv
<1>2. ASSUME NEW t \in Threads, PutCanonical(t)
      PROVE  \A r \in Rooms : canonical[r] # None => canonical'[r] = canonical[r]
  <2>1. /\ th[t].room \in Rooms /\ madeFor[th[t].room] = th[t].channel
        /\ canonical' = [canonical EXCEPT ![th[t].room] = th[t].channel]
    BY <1>1, <1>2, ThreadType, ConstantsFit DEF PutCanonical, Calls, At, RoomsAreOwned
  <2>2. QED
    BY <1>1, <2>1 DEF RoomsAreOwned, TypeOK
<1>3. ASSUME NEW t \in Threads, Request(t) \/ Step(t) \/ CallFails(t), ~PutCanonical(t)
      PROVE  UNCHANGED canonical
  BY <1>3 DEF Step, Bridging, JoiningUsers, Unbridging, Forwarding, Request, CheckRequester,
     InviteAgain, CreateRoom, InviteRequester, ReportBridged, FindUser, RegisterUser,
     CheckJoined, InviteUser, JoinUser, Snapshot, CheckAliases, DeleteAlias, Forget,
     ReportUnbridged, SendToRoom, ReadCanonical, PostInChannel, Refused, CallFails,
     BridgeCommand, UnbridgeCommand, Webhook, RoomMessage, hsVars
<1>4. Environment \/ UNCHANGED vars => UNCHANGED canonical
  BY DEF Environment, UserJoins, UserLeaves, UserAddsAlias, UserRemovesAlias, Crash, vars, hsVars
<1>5. QED
  BY <1>2, <1>3, <1>4 DEF Next, Step, Bridging

\* A human who has nothing to do with a room is in it only after an invitation by a bridge command.
LEMMA WhoInvites ==
  ASSUME TypeOK, [Next]_vars, NEW r \in Rooms, NEW h \in Humans, member[r][h] = "out"
  PROVE  \/ member'[r][h] = "out"
         \/ \E t \in Threads : (InviteAgain(t) \/ InviteRequester(t)) /\ th[t].room = r
<1>0. UNCHANGED member => member'[r][h] = "out"
  OBVIOUS
<1>1. ASSUME NEW t \in Threads, Request(t) \/ Step(t) \/ CallFails(t)
      PROVE  \/ member'[r][h] = "out"
             \/ (InviteAgain(t) \/ InviteRequester(t)) /\ th[t].room = r
  <2>0. ~At(t, "idle") /\ ~At(t, "create") => th[t].room \in Rooms
    BY ThreadType DEF At
  <2>1. CASE InviteAgain(t) \/ InviteRequester(t)
    BY <2>0, <2>1 DEF InviteAgain, InviteRequester, Calls, At, Invite, TypeOK
  <2>2. CASE InviteUser(t) \/ JoinUser(t)
    <3>1. th[t].room \in Rooms /\ th[t].who \in Virtuals /\ th[t].who # h
      BY <2>0, <2>2, WhoType, UsersAreDistinct DEF InviteUser, JoinUser, Calls, At, UserPcs
    <3>2. QED
      BY <2>2, <3>1 DEF InviteUser, JoinUser, Invite, Join, TypeOK, Users
  <2>3. CASE CreateRoom(t)
    BY <2>3, UsersAreDistinct DEF CreateRoom, Join, TypeOK, Users
  <2>4. CASE Forget(t)
    BY <1>0, <2>4 DEF Forget, Calls, At, Leave, TypeOK, Users
  <2>5. QED
    BY <1>0, <1>1, <2>1, <2>2, <2>3, <2>4
       DEF Step, Bridging, JoiningUsers, Unbridging, Forwarding, Request, CheckRequester,
       PutCanonical, ReportBridged, FindUser, RegisterUser, CheckJoined, Snapshot, CheckAliases,
       DeleteAlias, ReportUnbridged, SendToRoom, ReadCanonical, PostInChannel, Refused, CallFails,
       BridgeCommand, UnbridgeCommand, Webhook, RoomMessage, hsVars
<1>2. ASSUME NEW g \in Humans, NEW q \in Rooms, UserJoins(g, q)
      PROVE  member'[r][h] = "out"
  BY <1>2 DEF UserJoins, Join, TypeOK, Users
<1>3. ASSUME NEW g \in Humans, NEW q \in Rooms, UserLeaves(g, q)
      PROVE  member'[r][h] = "out"
  BY <1>3 DEF UserLeaves, Leave, TypeOK, Users
<1>4. QED
  BY <1>0, <1>1, <1>2, <1>3
     DEF Next, Environment, UserAddsAlias, UserRemovesAlias, Crash, vars, hsVars

\* The bot can invite the requester into a room that it has just created, and name the room.
LEMMA NamingIsGranted ==
  ASSUME IInv, NamedInv, NEW t \in Threads, th[t].pc \in Naming
  PROVE  Granted(t)
<1>1. /\ th[t].room \in Rooms /\ th[t].channel \in Channels
      /\ alias[th[t].channel] = th[t].room
  BY ThreadType DEF IInv, Naming, NamedInv, NewRoomsAreBound
<1>2. member[th[t].room][Bot] = "join"
  BY <1>1, ConstantsFit DEF IInv, AliasedRoomHasBot
<1>3. th[t].pc = "invite_requester" => member[th[t].room][th[t].user] = "out"
  BY DEF NamedInv, NewRoomsAreBound, CommandsAreTransactions, CreatePcs, Naming
<1>4. QED
  BY <1>2, <1>3 DEF Granted, BotReads, MayRead, MayInvite, Naming

\* Without faults no process dies and every answer arrives.
LEMMA NoFaults ==
  ASSUME MaxFaults = 0, TypeOK
  PROVE  /\ ~Crash
         /\ \A t \in Threads : ~CallFails(t)
         /\ \A t \in Threads : \A next : Answered(t, next) => th' = [th EXCEPT ![t] = next]
<1>1. ~(faults < MaxFaults)
  BY DEF TypeOK
<1>2. QED
  BY <1>1 DEF Crash, CallFails, Answered

\* A handler begins as what it is.
LEMMA RequestOp ==
  ASSUME TypeOK, NEW t \in Threads, Request(t)
  PROVE  LET next == th'[t] IN
         \/ /\ next.op = "bridge" /\ next.user \in Humans
            /\ th[t].pc = "idle" /\ t \in TransactionThreads
            /\ next.channel \in Channels /\ next.room = alias[next.channel]
            /\ \/ next.pc = "create"
               \/ next.pc = "check_requester" /\ next.room # None
         \/ next.op = "unbridge" /\ t \in TransactionThreads /\ next.pc = "snapshot"
         \/ next.op = "webhook" /\ next.pc = "find_user"
         \/ next.op = "message" /\ next.pc = "read_canonical"
<1>1. \A request : Begin(t, request) => th'[t] = request /\ th[t].pc = "idle"
  BY DEF Begin, TypeOK, At
<1>2. ASSUME NEW h \in Humans, NEW c \in Channels, BridgeCommand(t, h, c)
      PROVE  LET next == th'[t] IN
             /\ next.op = "bridge" /\ next.user \in Humans
             /\ th[t].pc = "idle" /\ t \in TransactionThreads
             /\ next.channel \in Channels /\ next.room = alias[next.channel]
             /\ \/ next.pc = "create"
                \/ next.pc = "check_requester" /\ next.room # None
  <2> DEFINE request == [Idle EXCEPT !.op = "bridge", !.user = h, !.channel = c,
                           !.room = MatrixId(c),
                           !.pc = IF MatrixId(c) = None THEN "create" ELSE "check_requester"]
  <2>1. /\ request.op = "bridge" /\ request.user = h /\ request.channel = c
        /\ request.room = alias[c]
        /\ request.pc = IF alias[c] = None THEN "create" ELSE "check_requester"
    BY DEF Idle, MatrixId
  <2>2. th'[t] = request /\ th[t].pc = "idle" /\ t \in TransactionThreads
    BY <1>1, <1>2 DEF BridgeCommand
  <2> HIDE DEF request
  <2>3. QED
    BY <2>1, <2>2
<1>3. ASSUME NEW h \in Humans, NEW c \in Channels, UnbridgeCommand(t, h, c)
      PROVE  th'[t].op = "unbridge" /\ t \in TransactionThreads /\ th'[t].pc = "snapshot"
  <2> DEFINE request == [Idle EXCEPT !.op = "unbridge", !.user = h, !.channel = c,
                           !.room = MatrixId(c), !.pc = "snapshot"]
  <2>1. request.op = "unbridge" /\ request.pc = "snapshot"
    BY DEF Idle
  <2>2. th'[t] = request /\ t \in TransactionThreads
    BY <1>1, <1>3 DEF UnbridgeCommand
  <2> HIDE DEF request
  <2>3. QED
    BY <2>1, <2>2
<1>4. ASSUME NEW v \in Virtuals, NEW c \in Channels, Webhook(t, v, c)
      PROVE  th'[t].op = "webhook" /\ th'[t].pc = "find_user"
  <2> DEFINE request == [Idle EXCEPT !.op = "webhook", !.user = v, !.channel = c,
                           !.room = MatrixId(c), !.pc = "find_user", !.todo = {v}]
  <2>1. request.op = "webhook" /\ request.pc = "find_user"
    BY DEF Idle
  <2>2. th'[t] = request
    BY <1>1, <1>4 DEF Webhook
  <2> HIDE DEF request
  <2>3. QED
    BY <2>1, <2>2
<1>5. ASSUME NEW h \in Humans, NEW r \in Rooms, RoomMessage(t, h, r)
      PROVE  th'[t].op = "message" /\ th'[t].pc = "read_canonical"
  <2> DEFINE request == [Idle EXCEPT !.op = "message", !.user = h, !.room = r,
                           !.pc = "read_canonical"]
  <2>1. request.op = "message" /\ request.pc = "read_canonical"
    BY DEF Idle
  <2>2. th'[t] = request
    BY <1>1, <1>5 DEF RoomMessage
  <2> HIDE DEF request
  <2>3. QED
    BY <2>1, <2>2
<1>6. QED
  BY <1>2, <1>3, <1>4, <1>5 DEF Request

\* What a thread can have done in one step.
LEMMA ThreadCases ==
  ASSUME TypeOK, [Next]_vars, NEW t \in Threads
  PROVE  \/ th'[t] = th[t]
         \/ th'[t] = Idle
         \/ Request(t)
         \/ (Step(t) \/ CallFails(t)) /\ Proceeds(t)
BY OthersStay, HandlerProceeds, EnvironmentThreads DEF Next

\* A command stays a command.
LEMMA CommandsStep == IInv /\ NamedInv /\ [Next]_vars => CommandsAreTransactions'
<1> SUFFICES ASSUME IInv, NamedInv, [Next]_vars, NEW t \in Threads
             PROVE  LET s == th'[t] IN
                    /\ s.pc \in CreatePcs \cup {"check_requester", "invite_again", "report_bridged"} =>
                         s.op = "bridge"
                    /\ s.pc \in UnbridgePcs => s.op = "unbridge"
                    /\ s.op \in {"bridge", "unbridge"} => t \in TransactionThreads
                    /\ s.op = "bridge" => s.user \in Humans
  BY DEF CommandsAreTransactions
<1>1. TypeOK
  BY DEF IInv
<1>2. CASE th'[t] = th[t]
  BY <1>2 DEF NamedInv, CommandsAreTransactions
<1>3. CASE th'[t] = Idle
  BY <1>3 DEF Idle, CreatePcs, UnbridgePcs
<1>4. CASE Request(t)
  BY <1>1, <1>4, RequestOp DEF CreatePcs, UnbridgePcs
<1>5. CASE Proceeds(t)
  BY <1>5 DEF Proceeds, NamedInv, CommandsAreTransactions, CreatePcs, UnbridgePcs
<1>6. QED
  BY <1>1, <1>2, <1>3, <1>4, <1>5, ThreadCases

\* Humans are invited only into rooms that are there.
LEMMA UnmadeStep == IInv /\ NamedInv /\ [Next]_vars => NobodyInUnmadeRooms'
<1> SUFFICES ASSUME IInv, NamedInv, [Next]_vars, NEW r \in Rooms, NEW h \in Humans, madeFor'[r] = None
             PROVE  member'[r][h] = "out"
  BY DEF NobodyInUnmadeRooms
<1>1. TypeOK /\ RoomsAreOwned
  BY DEF IInv
<1>2. madeFor[r] = None
  BY <1>1, MadeForStays
<1>3. member[r][h] = "out"
  BY <1>2 DEF NamedInv, NobodyInUnmadeRooms
<1>4. \A t \in Threads : InviteAgain(t) \/ InviteRequester(t) => th[t].room # r
  BY <1>1, <1>2, ThreadType, ConstantsFit DEF InviteAgain, InviteRequester, Calls, At, RoomsAreOwned
<1>5. QED
  BY <1>1, <1>3, <1>4, WhoInvites

\* The calls that bring a human, or take an alias away, are made by commands.
LEMMA CommandThreads ==
  ASSUME OneTransaction, NamedInv, NEW t \in Threads, NEW u \in Threads,
         th[t].op \in {"bridge", "unbridge"}, th[u].op \in {"bridge", "unbridge"}
  PROVE  t = u
BY DEF OneTransaction, NamedInv, CommandsAreTransactions

\* An alias changes by CreateRoom and by DeleteAlias, for the thread's channel only.
LEMMA WhoBinds ==
  ASSUME TypeOK, [Next]_vars
  PROVE  \/ UNCHANGED alias
         \/ \E t \in Threads :
              /\ CreateRoom(t) \/ DeleteAlias(t)
              /\ \A c \in Channels \ {th[t].channel} : alias'[c] = alias[c]
<1>1. ASSUME NEW t \in Threads, CreateRoom(t) \/ DeleteAlias(t)
      PROVE  \A c \in Channels \ {th[t].channel} : alias'[c] = alias[c]
  BY <1>1 DEF CreateRoom, DeleteAlias, TypeOK
<1>2. ASSUME NEW t \in Threads, Request(t) \/ Step(t) \/ CallFails(t),
             ~CreateRoom(t), ~DeleteAlias(t)
      PROVE  UNCHANGED alias
  BY <1>2 DEF Step, Bridging, JoiningUsers, Unbridging, Forwarding, Request, CheckRequester,
     InviteAgain, InviteRequester, PutCanonical, ReportBridged, FindUser, RegisterUser,
     CheckJoined, InviteUser, JoinUser, Snapshot, CheckAliases, Forget, ReportUnbridged,
     SendToRoom, ReadCanonical, PostInChannel, Refused, CallFails,
     BridgeCommand, UnbridgeCommand, Webhook, RoomMessage, hsVars
<1>3. Environment \/ UNCHANGED vars => UNCHANGED alias
  BY DEF Environment, UserJoins, UserLeaves, UserAddsAlias, UserRemovesAlias, Crash, vars, hsVars
<1>4. QED
  BY <1>1, <1>2, <1>3 DEF Next

\* While a room is waiting for its name nobody else touches its alias or invites the requester.
LEMMA BoundStep ==
  ASSUME OneTransaction, MaxFaults = 0
  PROVE  IInv /\ NamedInv /\ [Next]_vars => NewRoomsAreBound'
<1> SUFFICES ASSUME IInv, NamedInv, [Next]_vars, NEW t \in Threads, th'[t].pc \in Naming
             PROVE  /\ alias'[th'[t].channel] = th'[t].room
                    /\ th'[t].pc = "invite_requester" =>
                         \A h \in Humans : member'[th'[t].room][h] = "out"
  BY DEF NewRoomsAreBound
<1>1. TypeOK /\ RoomsAreOwned
  BY DEF IInv
<1>2. CASE th'[t] = th[t]
  <2>1. /\ th[t].room \in Rooms /\ th[t].channel \in Channels
        /\ alias[th[t].channel] = th[t].room
        /\ th[t].pc = "invite_requester" => \A h \in Humans : member[th[t].room][h] = "out"
        /\ th[t].op = "bridge"
    BY <1>1, <1>2, ThreadType
       DEF NamedInv, NewRoomsAreBound, CommandsAreTransactions, Naming, CreatePcs
  <2>2. ASSUME NEW u \in Threads, DeleteAlias(u) \/ CreateRoom(u)
        PROVE  alias'[th[t].channel] = alias[th[t].channel]
    <3>1. th[u].pc \in {"delete_alias", "create"} /\ th[u].channel \in Channels
      BY <1>1, <2>2, ThreadType DEF DeleteAlias, CreateRoom, Calls, At
    <3>2. th[u].op \in {"bridge", "unbridge"}
      BY <3>1 DEF NamedInv, CommandsAreTransactions, CreatePcs, UnbridgePcs
    <3>3. u = t
      BY <2>1, <3>2, CommandThreads
    <3>4. QED
      BY <1>2, <3>1, <3>3 DEF Naming
  <2>3. alias'[th[t].channel] = th[t].room
    BY <1>1, <2>1, <2>2, WhoBinds
  <2>4. ASSUME NEW u \in Threads, InviteAgain(u) \/ InviteRequester(u), th[t].pc = "invite_requester"
        PROVE  FALSE
    <3>1. th[u].pc \in {"invite_again", "invite_requester"}
      BY <2>4 DEF InviteAgain, InviteRequester, Calls, At
    <3>2. th[u].op = "bridge"
      BY <3>1 DEF NamedInv, CommandsAreTransactions, CreatePcs
    <3>3. u = t
      BY <2>1, <3>2, CommandThreads
    <3>4. InviteRequester(t)
      BY <2>4, <3>3 DEF InviteAgain, Calls, At
    <3>5. th'[t] = [th[t] EXCEPT !.pc = "put_canonical"]
      BY <1>1, <3>4, NoFaults DEF InviteRequester, TypeOK
    <3>6. th'[t].pc = "put_canonical"
      BY <1>1, <3>5, ThreadType DEF ThreadRecord
    <3>7. QED
      BY <1>2, <2>4, <3>6
  <2>5. th[t].pc = "invite_requester" => \A h \in Humans : member'[th[t].room][h] = "out"
    BY <1>1, <2>1, <2>4, WhoInvites
  <2>6. QED
    BY <1>2, <2>3, <2>5
<1>3. ASSUME Step(t) \/ CallFails(t), Proceeds(t)
      PROVE  /\ alias'[th'[t].channel] = th'[t].room
             /\ th'[t].pc = "invite_requester" =>
                  \A h \in Humans : member'[th'[t].room][h] = "out"
  <2>1. th[t].pc \in {"create", "invite_requester"} /\ th'[t] # Idle /\ th'[t].channel = th[t].channel
    BY <1>3 DEF Proceeds, Naming, Idle
  <2>2. CASE th[t].pc = "create"
    <3>1. CreateRoom(t)
      BY <1>1, <1>3, <2>1, <2>2, CreateIsCreate
    <3>2. PICK r \in Rooms :
            /\ madeFor[r] = None
            /\ alias' = [alias EXCEPT ![th[t].channel] = r]
            /\ member' = Join(member, r, Bot)
            /\ th'[t].room = r
      BY <1>1, <2>1, <3>1, CreateStep
    <3>3. alias'[th[t].channel] = r
      BY <1>1, <2>2, <3>2, ThreadType DEF TypeOK
    <3>4. \A h \in Humans : member'[r][h] = "out"
      <4>1. \A h \in Humans : member[r][h] = "out" /\ h # Bot
        BY <3>2, UsersAreDistinct DEF NamedInv, NobodyInUnmadeRooms
      <4>2. QED
        BY <1>1, <3>2, <4>1 DEF Join, TypeOK, Users
    <3>5. QED
      BY <2>1, <3>2, <3>3, <3>4
  <2>3. CASE th[t].pc = "invite_requester"
    <3>1. th'[t].room = th[t].room /\ th'[t].pc = "put_canonical"
      BY <1>3, <2>3 DEF Proceeds
    <3>0. \A u \in Threads : CreateRoom(u) \/ DeleteAlias(u) => u = t
      <4>1. \A u \in Threads : CreateRoom(u) \/ DeleteAlias(u) => th[u].op \in {"bridge", "unbridge"}
        BY DEF CreateRoom, DeleteAlias, Calls, At, NamedInv, CommandsAreTransactions, CreatePcs, UnbridgePcs
      <4>2. th[t].op = "bridge"
        BY <2>3 DEF NamedInv, CommandsAreTransactions, CreatePcs
      <4>3. QED
        BY <4>1, <4>2, CommandThreads
    <3>2. UNCHANGED alias
      BY <2>3, <3>0, WhoBinds, <1>1 DEF CreateRoom, DeleteAlias, Calls, At
    <3>3. QED
      BY <2>1, <2>3, <3>1, <3>2 DEF NamedInv, NewRoomsAreBound, Naming
  <2>4. QED
    BY <2>1, <2>2, <2>3
<1>4. th'[t] # Idle
  BY DEF Idle, Naming
<1>5. ~Request(t)
  BY <1>1, RequestBegins DEF Naming
<1>6. QED
  BY <1>1, <1>2, <1>3, <1>4, <1>5, ThreadCases

\* A command that has created a room goes on to name it.
LEMMA NamingGoesOn ==
  ASSUME MaxFaults = 0, IInv, NamedInv, [Next]_vars, NEW t \in Threads, th[t].pc \in Naming
  PROVE  \/ th'[t] = th[t]
         \/ InviteRequester(t) /\ th'[t] = [th[t] EXCEPT !.pc = "put_canonical"]
         \/ PutCanonical(t)
<1>1. TypeOK
  BY DEF IInv
<1>2. Environment \/ UNCHANGED vars => th'[t] = th[t]
  BY <1>1, NoFaults DEF Environment, UserJoins, UserLeaves, UserAddsAlias, UserRemovesAlias, vars
<1>3. \A x \in Threads : Request(x) \/ Step(x) \/ CallFails(x) => th'[t] = th[t] \/ x = t
  BY <1>1, OthersStay
<1>4. ~Request(t)
  BY DEF Request, BridgeCommand, UnbridgeCommand, Webhook, RoomMessage, Begin, At, Naming
<1>5. ~CallFails(t) /\ ~Refused(t)
  BY <1>1, NoFaults, NamingIsGranted DEF Refused
<1>6. ~JoiningUsers(t) /\ ~Forwarding(t)
  BY DEF JoiningUsers, FindUser, RegisterUser, CheckJoined, InviteUser, JoinUser,
     Forwarding, SendToRoom, ReadCanonical, PostInChannel, Calls, At, Naming
<1>7. ~Unbridging(t)
  BY DEF Unbridging, Snapshot, CheckAliases, DeleteAlias, Forget, ReportUnbridged, Calls, At, Naming
<1>8. Bridging(t) => InviteRequester(t) \/ PutCanonical(t)
  BY DEF Bridging, CheckRequester, InviteAgain, CreateRoom, ReportBridged, Calls, At, Naming
<1>9. InviteRequester(t) => th'[t] = [th[t] EXCEPT !.pc = "put_canonical"]
  BY <1>1, NoFaults DEF InviteRequester, TypeOK
<1>10. QED
  BY <1>2, <1>3, <1>4, <1>5, <1>6, <1>7, <1>8, <1>9 DEF Next, Step

\* The canonical alias names the channel of the command in its room.
LEMMA PutNames ==
  ASSUME TypeOK, NEW t \in Threads, PutCanonical(t)
  PROVE  canonical'[th[t].room] = th[t].channel
BY ThreadType DEF PutCanonical, Calls, At, TypeOK

\* A new room is about to be named; the others are still, or have got their name.
LEMMA NamedStep ==
  ASSUME MaxFaults = 0
  PROVE  IInv /\ NamedInv /\ [Next]_vars => NamedOrNaming'
<1> SUFFICES ASSUME IInv, NamedInv, [Next]_vars, NEW c \in Channels, alias'[c] # None
             PROVE  \/ canonical'[alias'[c]] = c
                    \/ \E t \in Threads : th'[t].pc \in Naming /\ th'[t].channel = c
  BY DEF NamedOrNaming
<1>1. TypeOK
  BY DEF IInv
<1>2. CASE alias'[c] = alias[c]
  <2>1. alias[c] \in Rooms
    BY <1>1, <1>2 DEF TypeOK
  <2>2. CASE canonical[alias[c]] = c
    BY <1>2, <2>1, <2>2, CanonicalStays, ConstantsFit
  <2>3. ASSUME NEW t \in Threads, th[t].pc \in Naming, th[t].channel = c
        PROVE  \/ canonical'[alias'[c]] = c
               \/ th'[t].pc \in Naming /\ th'[t].channel = c
    <3>1. CASE th'[t] = th[t]
      BY <2>3, <3>1
    <3>2. CASE th'[t] = [th[t] EXCEPT !.pc = "put_canonical"]
      BY <1>1, <2>3, <3>2, ThreadType DEF ThreadRecord, Naming
    <3>3. CASE PutCanonical(t)
      <4>1. alias[c] = th[t].room
        BY <2>3 DEF NamedInv, NewRoomsAreBound
      <4>2. QED
        BY <1>1, <1>2, <2>3, <3>3, <4>1, PutNames
    <3>4. QED
      BY <2>3, <3>1, <3>2, <3>3, NamingGoesOn
  <2>4. QED
    BY <1>2, <2>2, <2>3 DEF NamedInv, NamedOrNaming
<1>3. CASE alias'[c] # alias[c]
  <2>1. PICK t \in Threads :
          /\ CreateRoom(t) \/ DeleteAlias(t)
          /\ \A d \in Channels \ {th[t].channel} : alias'[d] = alias[d]
    BY <1>1, <1>3, WhoBinds
  <2>2. th[t].channel = c
    BY <1>3, <2>1
  <2>3. CreateRoom(t)
    BY <1>1, <2>1, <2>2 DEF DeleteAlias, TypeOK
  <2>4. th'[t] # Idle
    <3>1. PICK r \in Rooms : Answered(t, [th[t] EXCEPT !.pc = "invite_requester", !.room = r])
      BY <2>3 DEF CreateRoom
    <3> DEFINE next == [th[t] EXCEPT !.pc = "invite_requester", !.room = r]
    <3>2. next.pc = "invite_requester"
      BY <1>1, ThreadType DEF ThreadRecord
    <3>3. Answered(t, next)
      BY <3>1
    <3> HIDE DEF next
    <3>4. th'[t] = next
      BY <1>1, <3>3, NoFaults DEF TypeOK
    <3>5. QED
      BY <3>2, <3>4 DEF Idle
  <2>5. th'[t].pc = "invite_requester" /\ th'[t].channel = th[t].channel
    BY <1>1, <2>3, <2>4, CreateStep
  <2>6. QED
    BY <2>2, <2>5 DEF Naming
<1>4. QED
  BY <1>2, <1>3

\* A command finds the room named, or has named it.
LEMMA BridgingNamedStep ==
  ASSUME OneTransaction, MaxFaults = 0
  PROVE  IInv /\ NamedInv /\ [Next]_vars => BridgingRoomsAreNamed'
<1> DEFINE Later == UserPcs \cup {"check_requester", "invite_again", "report_bridged"}
<1> SUFFICES ASSUME IInv, NamedInv, [Next]_vars, NEW t \in Threads,
                    th'[t].op = "bridge", th'[t].pc \in Later
             PROVE  canonical'[th'[t].room] = th'[t].channel
  BY DEF BridgingRoomsAreNamed
<1>1. TypeOK
  BY DEF IInv
<1>2. ASSUME th[t].op = "bridge", th[t].pc \in Later,
             th'[t].room = th[t].room, th'[t].channel = th[t].channel
      PROVE  canonical'[th'[t].room] = th'[t].channel
  <2>1. canonical[th[t].room] = th[t].channel
    BY <1>2 DEF NamedInv, BridgingRoomsAreNamed
  <2>2. th[t].room \in Rooms /\ th[t].channel \in Channels
    BY <1>1, <1>2, ThreadType DEF UserPcs
  <2>3. QED
    BY <1>2, <2>1, <2>2, CanonicalStays, ConstantsFit
<1>3. CASE th'[t] = th[t]
  BY <1>2, <1>3
<1>4. CASE Request(t)
  <2>1. /\ th[t].pc = "idle" /\ t \in TransactionThreads
        /\ th'[t].channel \in Channels
        /\ th'[t].room = alias[th'[t].channel]
        /\ th'[t].room # None
    BY <1>1, <1>4, RequestOp DEF UserPcs
  <2>2. canonical[alias[th'[t].channel]] = th'[t].channel
    <3>1. ASSUME NEW u \in Threads, th[u].pc \in Naming
          PROVE  FALSE
      <4>1. u \in TransactionThreads
        BY <3>1 DEF NamedInv, CommandsAreTransactions, Naming, CreatePcs
      <4>2. QED
        BY <2>1, <3>1, <4>1 DEF OneTransaction, Naming
    <3>2. QED
      BY <2>1, <3>1 DEF NamedInv, NamedOrNaming
  <2>3. th'[t].room \in Rooms
    BY <1>1, <2>1 DEF TypeOK
  <2>4. QED
    BY <2>1, <2>2, <2>3, CanonicalStays, ConstantsFit
<1>5. CASE Proceeds(t)
  <2>1. /\ th[t].op = "bridge"
        /\ th[t].pc \in Later \/ th[t].pc = "put_canonical"
        /\ th'[t].room = th[t].room /\ th'[t].channel = th[t].channel
        /\ th[t].pc = "put_canonical" => th'[t].pc = "find_user"
    <3>1. th[t].pc \in Later \/ th[t].pc = "put_canonical"
      BY <1>5 DEF Proceeds, UserPcs
    <3>2. th[t].pc \notin {"create", "read_canonical"}
      BY <3>1 DEF UserPcs
    <3>3. th'[t].op = th[t].op /\ th'[t].room = th[t].room /\ th'[t].channel = th[t].channel
      BY <1>5, <3>2 DEF Proceeds
    <3>4. th[t].pc = "put_canonical" => th'[t].pc = "find_user"
      BY <1>5 DEF Proceeds
    <3>5. QED
      BY <3>1, <3>3, <3>4
  <2>2. CASE th[t].pc = "put_canonical"
    <3>1. ~InviteRequester(t)
      BY <2>2 DEF InviteRequester, Calls, At
    <3>2. PutCanonical(t)
      BY <2>1, <2>2, <3>1, NamingGoesOn DEF Naming
    <3>3. QED
      BY <1>1, <2>1, <3>2, PutNames
  <2>3. QED
    BY <1>2, <2>1, <2>2
<1>6. th'[t] # Idle
  BY DEF Idle
<1>7. QED
  BY <1>1, <1>3, <1>4, <1>5, <1>6, ThreadCases

\* A channel is reported with a room that is named after it.
LEMMA TwoWayStep == IInv /\ NamedInv /\ [Next]_vars => ReportedBridgeIsTwoWay'
<1> SUFFICES ASSUME IInv, NamedInv, [Next]_vars, NEW b \in bridged'
             PROVE  canonical'[b[2]] = b[1]
  BY DEF ReportedBridgeIsTwoWay
<1>1. TypeOK
  BY DEF IInv
<1>2. CASE b \in bridged
  <2>1. canonical[b[2]] = b[1] /\ b[2] \in Rooms /\ b[1] \in Channels
    BY <1>1, <1>2 DEF NamedInv, ReportedBridgeIsTwoWay, TypeOK
  <2>2. QED
    BY <2>1, CanonicalStays, ConstantsFit
<1>3. ASSUME NEW t \in Threads, ReportBridged(t), b \notin bridged
      PROVE  canonical'[b[2]] = b[1]
  <2>1. b = <<th[t].channel, th[t].room>> /\ th[t].pc = "report_bridged" /\ UNCHANGED canonical
    BY <1>3 DEF ReportBridged, Calls, At, hsVars
  <2>2. canonical[th[t].room] = th[t].channel
    BY <2>1 DEF NamedInv, CommandsAreTransactions, BridgingRoomsAreNamed
  <2>3. QED
    BY <2>1, <2>2
<1>4. ASSUME NEW t \in Threads, Request(t) \/ Step(t) \/ CallFails(t), ~ReportBridged(t)
      PROVE  UNCHANGED bridged
  BY <1>4 DEF Step, Bridging, JoiningUsers, Unbridging, Forwarding, Request, CheckRequester,
     InviteAgain, CreateRoom, InviteRequester, PutCanonical, FindUser, RegisterUser,
     CheckJoined, InviteUser, JoinUser, Snapshot, CheckAliases, DeleteAlias, Forget,
     ReportUnbridged, SendToRoom, ReadCanonical, PostInChannel, Refused, CallFails,
     BridgeCommand, UnbridgeCommand, Webhook, RoomMessage, reportVars
<1>5. Environment \/ UNCHANGED vars => UNCHANGED bridged
  BY DEF Environment, UserJoins, UserLeaves, UserAddsAlias, UserRemovesAlias, Crash, vars, reportVars
<1>6. QED
  BY <1>2, <1>3, <1>4, <1>5 DEF Next

\* If commands are handled one at a time and no call fails, then with any number of messages from
\* Rocket.Chat at the same time: a channel that was reported as bridged forwards in both
\* directions, because its room names it.  (With one fault it need not: FailedBridgeIsNotBridged.)
THEOREM ReportedBridgesAreTwoWay ==
  ASSUME OneTransaction, MaxFaults = 0
  PROVE  Spec => []ReportedBridgeIsTwoWay
<1>1. Init => NamedInv
  BY DEF Init, NamedInv, CommandsAreTransactions, NobodyInUnmadeRooms, NamedOrNaming,
     NewRoomsAreBound, BridgingRoomsAreNamed, ReportedBridgeIsTwoWay, NoMembers, Idle, Naming,
     CreatePcs, UnbridgePcs, Users
<1>2. IInv /\ NamedInv /\ [Next]_vars => NamedInv'
  BY CommandsStep, UnmadeStep, NamedStep, BoundStep, BridgingNamedStep, TwoWayStep DEF NamedInv
<1>3. NamedInv => ReportedBridgeIsTwoWay
  BY DEF NamedInv
<1>4. QED
  BY <1>1, <1>2, <1>3, Inductive, PTL DEF Spec

=============================================================================
