----------------------------- MODULE MessageFlow ------------------------------
(***************************************************************************)
(* The messages of one bridged channel, in both directions.  The           *)
(* homeserver pushes what is written in the room in transactions, one at a *)
(* time and until it gets an answer; Dispatcher handles the events of a    *)
(* transaction in order, drops the rest after an error, and answers OK in  *)
(* any case.  Transaction ids are ignored, so a transaction that is pushed *)
(* again is handled again, perhaps while the first attempt still runs.     *)
(* Rocket.Chat posts every message of the channel to the webhook, also     *)
(* those that the application service has posted itself: such an echo is   *)
(* recognised by its author having sent something from Matrix shortly      *)
(* before, which is stored after the message was posted.  A message with   *)
(* files comes to the room as one event per file.                          *)
(* The room, the channel and their members are those of ChannelBridge once *)
(* the channel is bridged; everybody who writes in the room is logged in.  *)
(***************************************************************************)

EXTENDS Integers, FiniteSetsExt, Sequences

CONSTANTS
  Humans,              \* Matrix users with an account on Rocket.Chat
  MatrixMessages,      \* messages that humans write in the room
  RcMessages,          \* messages that are written in the channel
  Notices,             \* emotes, locations and notices: not posted in the channel
  Untyped,             \* files whose event has no info with a mime type
  Parts,               \* the events that a copy of a message consists of: 1 for a text, for
                       \* a message with the text of an upload one for each of its attachments
  Author,              \* the human who writes a message, None: a user of Rocket.Chat only
  None,
  TransactionThreads,  \* threads that handle transactions of the homeserver
  WebhookThreads,      \* threads that handle what Rocket.Chat posts
  Threshold,           \* RESEND_THRESHOLD_IN_SECONDS
  MaxBatch,            \* bound on the events of a transaction
  MaxWritten,          \* bound on the messages of humans in the room
  MaxPosts,            \* bound on the messages in the channel
  MaxTime,             \* bound on the clock, in seconds
  MaxFaults            \* bound on failed calls, lost answers, timeouts and crashes

Messages == MatrixMessages \cup RcMessages

ASSUME MessageFlowFits ==
  /\ None \notin Humans \cup TransactionThreads
  /\ MatrixMessages \cap RcMessages = {}
  /\ Notices \cup Untyped \subseteq MatrixMessages
  /\ Notices \cap Untyped = {}
  /\ Parts \in [Messages -> Nat]
  /\ Author \in [Messages -> Humans \cup {None}]
  /\ \A m \in MatrixMessages : Author[m] \in Humans
  /\ Threshold \in Nat
  /\ MaxBatch \in Nat \ {0}
  /\ MaxWritten \in Nat
  /\ MaxPosts \in Nat
  /\ MaxTime \in Nat /\ Threshold < MaxTime
  /\ MaxFaults \in Nat

VARIABLES
  room,      \* what was sent in the room, by its human or as part of a copy by a virtual user
  pushed,    \* number of events of the room that the homeserver is done with
  open,      \* the open transaction: its last event and the thread it was last pushed to
  channel,   \* what was posted in the channel, when, and whether that is stored
  webhooks,  \* posts of the channel whose webhook is under way
  lastSent,  \* last_message_sent of every human
  th,        \* what the threads for transactions are doing
  hook,      \* the post that a thread for webhooks is forwarding and its next part
  copied,    \* posts that were found to be sendable: by then stored or not, and how old
  repeats,   \* transactions that were pushed again
  now,       \* the clock
  faults     \* faults so far

matrix == <<room, pushed, open>>
rocketchat == <<channel, webhooks>>
vars == <<matrix, rocketchat, lastSent, th, hook, copied, repeats, now, faults>>

NoTransaction == [last |-> 0, thread |-> None]

Idle == [pc |-> "idle", next |-> 0, last |-> 0, post |-> 0]

NoHook == [post |-> 0, part |-> 1]

Written(log) == {log[i].msg : i \in DOMAIN log}

Threads == TransactionThreads \cup WebhookThreads

-----------------------------------------------------------------------------

Fault ==
  /\ faults < MaxFaults
  /\ faults' = faults + 1

\* Mutant: the copies that virtual users send are not told apart.
NextEventOfAnybody(i, last) == i

\* Mutant: an event is passed over.
NextEventButOne(i, last) ==
  LET human == {j \in i + 1..last : room[j].sender # None} IN
  IF human = {} THEN last + 1 ELSE Min(human)

\* MessageHandler::process and Forwarder::process pass over what a virtual user has sent,
\* which touches nothing: the next event is the next one by a human.
NextEvent(i, last) ==
  LET human == {j \in i..last : room[j].sender # None} IN
  IF human = {} THEN last + 1 ELSE Min(human)

\* The thread is done with its transaction, handled or not.
Ended(t) == th[t].pc = "handle" /\ th[t].next > th[t].last

Handling(t) == th[t].pc = "handle" /\ th[t].next <= th[t].last

\* Mutant: the index of the next event is one too far.
DropTooMuch(t) ==
  th' = [th EXCEPT ![t].pc = "handle", ![t].next = th[t].last + 2, ![t].post = 0]

\* Dispatcher::process returns at the first error.
DropRest(t) ==
  th' = [th EXCEPT ![t].pc = "handle", ![t].next = th[t].last + 1, ![t].post = 0]

-----------------------------------------------------------------------------
(***************************************************************************)
(* What users write, and time                                              *)
(***************************************************************************)

WriteInRoom(m) ==
  /\ m \in MatrixMessages \ Written(room)
  /\ Cardinality(MatrixMessages \cap Written(room)) < MaxWritten
  /\ room' = Append(room, [msg |-> m, sender |-> Author[m], part |-> 0])
  /\ UNCHANGED <<pushed, open, rocketchat, lastSent, th, hook, copied, repeats, now, faults>>

\* Rocket.Chat shows a message and calls the webhook.
PostInChannel(m) ==
  /\ Len(channel) < MaxPosts
  /\ channel' = Append(channel, [msg |-> m, at |-> now, stored |-> FALSE])
  /\ webhooks' = webhooks \cup {Len(channel) + 1}

WriteInChannel(m) ==
  /\ m \in RcMessages \ Written(channel)
  /\ PostInChannel(m)
  /\ UNCHANGED <<matrix, lastSent, th, hook, copied, repeats, now, faults>>

Tick ==
  /\ now < MaxTime
  /\ now' = now + 1
  /\ UNCHANGED <<matrix, rocketchat, lastSent, th, hook, copied, repeats, faults>>

-----------------------------------------------------------------------------
(***************************************************************************)
(* Transactions                                                            *)
(***************************************************************************)

PushTo(t, last) ==
  /\ th[t].pc = "idle"
  /\ th' = [th EXCEPT ![t] = [Idle EXCEPT !.pc = "handle", !.last = last,
                                          !.next = NextEvent(pushed + 1, last)]]
  /\ open' = [last |-> last, thread |-> t]

Push(t) ==
  /\ open = NoTransaction
  /\ \E n \in 1..MaxBatch : pushed + n <= Len(room) /\ PushTo(t, pushed + n)
  /\ UNCHANGED <<room, pushed, rocketchat, lastSent, hook, copied, repeats, now, faults>>

\* The last attempt ended without an answer, or the homeserver does not wait any longer.
PushAgain(t) ==
  /\ open # NoTransaction
  /\ \/ th[open.thread].pc = "idle" /\ UNCHANGED faults
     \/ th[open.thread].pc # "idle" /\ Fault
  /\ PushTo(t, open.last)
  /\ repeats' = repeats + 1
  /\ UNCHANGED <<room, pushed, rocketchat, lastSent, hook, copied, now>>

\* Mutant: the answer does not wait for the events to be handled.
AnswerAtOnce(t) ==
  /\ th[t].pc = "handle"
  /\ \/ /\ open.thread = t
        /\ pushed' = open.last
        /\ open' = NoTransaction
        /\ UNCHANGED th
     \/ /\ open.thread # t
        /\ Ended(t)
        /\ th' = [th EXCEPT ![t] = Idle]
        /\ UNCHANGED <<pushed, open>>
  /\ UNCHANGED <<room, rocketchat, lastSent, hook, copied, repeats, now, faults>>

\* Transactions::handle answers OK, whatever became of the events.
Answer(t) ==
  /\ Ended(t)
  /\ th' = [th EXCEPT ![t] = Idle]
  /\ \/ /\ open.thread = t
        /\ pushed' = open.last
        /\ open' = NoTransaction
        /\ UNCHANGED faults
     \/ /\ open.thread # t
        /\ UNCHANGED <<pushed, open, faults>>
     \/ Fault /\ UNCHANGED <<pushed, open>>
  /\ UNCHANGED <<room, rocketchat, lastSent, hook, copied, repeats, now>>

\* The event that is next.
Current(t) == room[th[t].next].msg

\* Mutant: a post whose answer does not arrive is repeated.
ForwardWithRetry(t) ==
  /\ Handling(t)
  /\ Current(t) \notin Notices \cup Untyped
  /\ PostInChannel(Current(t))
  /\ \/ /\ th' = [th EXCEPT ![t].pc = "store", ![t].post = Len(channel) + 1]
        /\ UNCHANGED faults
     \/ Fault /\ UNCHANGED th
  /\ UNCHANGED <<matrix, lastSent, hook, copied, repeats, now>>

\* Forwarder::process up to the answer of chat_post_message or rooms_upload.
ForwardToChannel(t) ==
  /\ Handling(t)
  /\ Current(t) \notin Notices \cup Untyped
  /\ PostInChannel(Current(t))
  /\ \/ /\ th' = [th EXCEPT ![t].pc = "store", ![t].post = Len(channel) + 1]
        /\ UNCHANGED faults
     \/ DropRest(t) /\ Fault
  /\ UNCHANGED <<matrix, lastSent, hook, copied, repeats, now>>

\* An emote, a location or a notice counts as sent, although it is not.
ForwardNothing(t) ==
  /\ Handling(t)
  /\ Current(t) \in Notices
  /\ th' = [th EXCEPT ![t].pc = "store"]
  /\ UNCHANGED <<matrix, rocketchat, lastSent, hook, copied, repeats, now, faults>>

\* MissingMimeType
RefuseFile(t) ==
  /\ Handling(t)
  /\ Current(t) \in Untyped
  /\ DropRest(t)
  /\ UNCHANGED <<matrix, rocketchat, lastSent, hook, copied, repeats, now, faults>>

\* set_last_message_sent
Store(t) ==
  LET s == th[t] IN
  /\ s.pc = "store"
  /\ lastSent' = [lastSent EXCEPT ![Author[room[s.next].msg]] = now]
  /\ channel' = [i \in DOMAIN channel |->
                   IF i = s.post THEN [channel[i] EXCEPT !.stored = TRUE] ELSE channel[i]]
  /\ th' = [th EXCEPT ![t] = [s EXCEPT !.pc = "handle", !.post = 0,
                                   !.next = NextEvent(s.next + 1, s.last)]]
  /\ UNCHANGED <<matrix, webhooks, hook, copied, repeats, now, faults>>

\* A call or the database fails: the message may not be posted, or posted and not stored.
EventFails(t) ==
  /\ Handling(t) \/ th[t].pc = "store"
  /\ DropRest(t)
  /\ Fault
  /\ UNCHANGED <<matrix, rocketchat, lastSent, hook, copied, repeats, now>>

-----------------------------------------------------------------------------
(***************************************************************************)
(* Webhooks                                                                *)
(***************************************************************************)

\* Mutant: a message exactly Threshold seconds later is not taken for an echo.
SendableFromThreshold(m) == Author[m] # None => now - lastSent[Author[m]] >= Threshold

\* Forwarder::is_sendable_message
Sendable(m) == Author[m] # None => now - lastSent[Author[m]] > Threshold

\* RocketchatToken, Rocketchat::handle and the beginning of Forwarder::send.
Webhook(t, i) ==
  /\ hook[t] = NoHook
  /\ i \in webhooks
  /\ webhooks' = webhooks \ {i}
  /\ \/ /\ Sendable(channel[i].msg)
        /\ hook' = [hook EXCEPT ![t] = [post |-> i, part |-> 1]]
        /\ copied' = copied \cup
             {[post |-> i, stored |-> channel[i].stored, age |-> now - channel[i].at]}
     \/ ~Sendable(channel[i].msg) /\ UNCHANGED <<hook, copied>>
  /\ UNCHANGED <<matrix, channel, lastSent, th, repeats, now, faults>>

\* Rocket.Chat is answered after the last part.
AfterPart(h) ==
  IF h.part < Parts[channel[h.post].msg] THEN [h EXCEPT !.part = h.part + 1] ELSE NoHook

\* Mutant: a file that cannot be uploaded or sent is passed over.
SendUnlessItFails(t) ==
  LET h == hook[t]  m == channel[h.post].msg IN
  /\ h.post # 0
  /\ Parts[m] # 0
  /\ hook' = [hook EXCEPT ![t] = AfterPart(h)]
  /\ \/ /\ room' = Append(room, [msg |-> m, sender |-> None, part |-> h.part])
        /\ UNCHANGED faults
     \/ Fault /\ UNCHANGED room
  /\ UNCHANGED <<pushed, open, rocketchat, lastSent, th, copied, repeats, now>>

\* The rest of Forwarder::send and forward_file: the virtual user sends a text, or the files
\* one after another when attachments has read them all.
SendToRoom(t) ==
  LET h == hook[t]  m == channel[h.post].msg IN
  /\ h.post # 0
  /\ Parts[m] # 0
  /\ room' = Append(room, [msg |-> m, sender |-> None, part |-> h.part])
  /\ hook' = [hook EXCEPT ![t] = AfterPart(h)]
  /\ UNCHANGED <<pushed, open, rocketchat, lastSent, th, copied, repeats, now, faults>>

\* A message with the text of an upload has no attachments.
SendNothing(t) ==
  /\ hook[t].post # 0
  /\ Parts[channel[hook[t].post].msg] = 0
  /\ hook' = [hook EXCEPT ![t] = NoHook]
  /\ UNCHANGED <<matrix, rocketchat, lastSent, th, copied, repeats, now, faults>>

\* A call fails; Rocket.Chat is answered OK.
WebhookFails(t) ==
  /\ hook[t].post # 0
  /\ hook' = [hook EXCEPT ![t] = NoHook]
  /\ Fault
  /\ UNCHANGED <<matrix, rocketchat, lastSent, th, copied, repeats, now>>

\* The process is killed and started again.
Crash ==
  /\ th' = [t \in TransactionThreads |-> Idle]
  /\ hook' = [t \in WebhookThreads |-> NoHook]
  /\ Fault
  /\ UNCHANGED <<matrix, rocketchat, lastSent, copied, repeats, now>>

-----------------------------------------------------------------------------

\* Nobody has sent anything for longer than the threshold.
Init ==
  /\ room = <<>>
  /\ pushed = 0
  /\ open = NoTransaction
  /\ channel = <<>>
  /\ webhooks = {}
  /\ lastSent = [h \in Humans |-> 0]
  /\ th = [t \in TransactionThreads |-> Idle]
  /\ hook = [t \in WebhookThreads |-> NoHook]
  /\ copied = {}
  /\ repeats = 0
  /\ now = Threshold + 1
  /\ faults = 0

Write(m) == WriteInRoom(m) \/ WriteInChannel(m)

\* A step of a transaction that the homeserver or its handler takes unless something fails.
Transaction(t) ==
  \/ Push(t) \/ PushAgain(t)
  \/ ForwardToChannel(t) \/ ForwardNothing(t) \/ RefuseFile(t) \/ Store(t)
  \/ Answer(t)

Hook(t) == (\E i \in webhooks : Webhook(t, i)) \/ SendToRoom(t) \/ SendNothing(t)

Next ==
  \/ \E m \in Messages : Write(m)
  \/ Tick
  \/ \E t \in TransactionThreads : Transaction(t) \/ EventFails(t)
  \/ \E t \in WebhookThreads : Hook(t) \/ WebhookFails(t)
  \/ Crash

Spec == Init /\ [][Next]_vars

-----------------------------------------------------------------------------
(***************************************************************************)
(* Properties                                                              *)
(***************************************************************************)

Entry == [msg : Messages, sender : Humans \cup {None}, part : Nat]
Post == [msg : Messages, at : 0..MaxTime, stored : BOOLEAN]

\* The type of every variable.
TypeOK ==
  /\ room \in Seq(Entry)
  /\ pushed \in 0..Len(room)
  /\ open \in [last : 0..Len(room), thread : TransactionThreads \cup {None}]
  /\ channel \in Seq(Post)
  /\ webhooks \subseteq DOMAIN channel
  /\ lastSent \in [Humans -> 0..MaxTime]
  /\ th \in [TransactionThreads ->
               [pc : {"idle", "handle", "store"}, next : 0..Len(room) + 1,
                last : 0..Len(room), post : 0..Len(channel)]]
  /\ hook \in [WebhookThreads -> [post : 0..Len(channel), part : Nat]]
  /\ copied \subseteq [post : DOMAIN channel, stored : BOOLEAN, age : 0..MaxTime]
  /\ repeats \in Nat
  /\ now \in 0..MaxTime
  /\ faults \in 0..MaxFaults

FromHumans == {i \in DOMAIN room : room[i].sender # None}

Posts(m) == {i \in DOMAIN channel : channel[i].msg = m}
Copies(m, p) == {i \in DOMAIN room : room[i] = [msg |-> m, sender |-> None, part |-> p]}

\* Messages do not go round in circles: what was written in the channel is never posted there
\* again, and the room gets at most one copy of each post, and of each of its files ("to avoid
\* loops").
NoLoop ==
  /\ \A m \in RcMessages : Cardinality(Posts(m)) <= 1
  /\ \A i \in DOMAIN room :
       room[i].sender = None =>
         Cardinality(Copies(room[i].msg, room[i].part)) <= Cardinality(Posts(room[i].msg))

\* A message of the room is posted at most once for every time its transaction is pushed: no
\* failure inside a handler makes it appear twice.
OncePerPush == \A m \in MatrixMessages : Cardinality(Posts(m)) <= 1 + repeats

\* Unless a transaction is pushed again, the channel has the messages of the room in the order
\* in which they were written, although events are lost with their transaction.
InOrder ==
  repeats = 0 =>
    \A j \in DOMAIN channel : \A i \in 1..j - 1 : \A k, l \in FromHumans :
      channel[i].msg = room[k].msg /\ channel[j].msg = room[l].msg => k < l

\* The echo of a message comes back to the room only if last_message_sent was not stored yet
\* when the webhook was handled, or if that was more than RESEND_THRESHOLD_IN_SECONDS after the
\* message had been posted.
OnlyLateEchoes ==
  \A c \in copied :
    channel[c.post].msg \in RcMessages \/ ~c.stored \/ c.age > Threshold

\* An event that the homeserver is done with has been posted in the channel, unless something
\* failed: no transaction is answered early, and no event in it is passed over except for those
\* that are never posted and those after a file without a mime type.
AnsweredIsPosted ==
  faults = 0 =>
    \A i \in FromHumans \cap 1..pushed :
      \/ room[i].msg \in Notices
      \/ \E j \in 1..i : room[j].msg \in Untyped
      \/ Posts(room[i].msg) # {}

\* The files of a message come to the room in their order and without a gap, whatever fails; when
\* nothing fails, what was found to be sendable is complete in the end.
CopiesAreWhole ==
  /\ \A i \in DOMAIN room :
       room[i].part > 1 => \E j \in Copies(room[i].msg, room[i].part - 1) : j < i
  /\ faults = 0 =>
       \A c \in copied :
         \/ \E t \in WebhookThreads : hook[t].post = c.post
         \/ LET m == channel[c.post].msg IN \A p \in 1..Parts[m] : Copies(m, p) # {}

=============================================================================
