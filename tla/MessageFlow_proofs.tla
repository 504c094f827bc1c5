-------------------------- MODULE MessageFlow_proofs --------------------------
(***************************************************************************)
(* Theorems about MessageFlow: the types, which echoes come back, that the *)
(* files of a message stay together, that the messages of the room are     *)
(* posted in their order and, unless something fails, all of them, once    *)
(* for each push, and that no message goes round in a loop.                *)
(***************************************************************************)

EXTENDS MessageFlow, Counting, SequenceTheorems

-----------------------------------------------------------------------------
(***************************************************************************)
(* The inductive invariant                                                 *)
(***************************************************************************)

ThreadRecord ==
  [pc : {"idle", "handle", "store"}, next : Nat, last : Nat, post : Nat]

\* A busy thread is at an event of a human, or done; what it has posted is that event.
ThreadFits(s, log, posts) ==
  /\ s.pc = "idle" => s = Idle
  /\ s.pc = "handle" => s.post = 0
  /\ s.pc = "store" => s.next <= s.last
  /\ s.last <= Len(log)
  /\ s.post <= Len(posts)
  /\ s.pc # "idle" => /\ 1 <= s.next /\ s.next <= s.last + 1
                      /\ s.next <= s.last => log[s.next].sender # None
  /\ s.post # 0 => posts[s.post].msg = log[s.next].msg

\* The types, and what is written in the room.
DataFits ==
  /\ room \in Seq(Entry)
  /\ \A i \in FromHumans :
       room[i].msg \in MatrixMessages /\ room[i].sender = Author[room[i].msg]
  /\ pushed \in 0..Len(room)
  /\ channel \in Seq(Post)
  /\ webhooks \subseteq DOMAIN channel
  /\ lastSent \in [Humans -> 0..MaxTime]
  /\ copied \subseteq [post : DOMAIN channel, stored : BOOLEAN, age : 0..MaxTime]
  /\ repeats \in Nat
  /\ now \in 0..MaxTime
  /\ faults \in 0..MaxFaults

ThreadsFit ==
  /\ th \in [TransactionThreads -> ThreadRecord]
  /\ \A t \in TransactionThreads : ThreadFits(th[t], room, channel)

OpenFits ==
  \/ open = NoTransaction
  \/ open \in [last : pushed + 1..Len(room), thread : TransactionThreads]

\* A part of a copy of m is in the room.
HasPart(log, m, p) ==
  \E i \in 1..Len(log) : log[i] = [msg |-> m, sender |-> None, part |-> p]

\* The parts of a post that were sent before the next one.
HookFits(h, log, posts) ==
  /\ h \in [post : 0..Len(posts), part : Nat \ {0}]
  /\ h.post = 0 => h = NoHook
  /\ h.post # 0 => /\ h.part = 1 \/ h.part <= Parts[posts[h.post].msg]
                   /\ \A p \in 1..h.part - 1 : HasPart(log, posts[h.post].msg, p)

HooksFit ==
  /\ hook = [t \in WebhookThreads |-> hook[t]]
  /\ \A t \in WebhookThreads : HookFits(hook[t], room, channel)

NoGap(log) ==
  \A i \in 1..Len(log) :
    log[i].part > 1 =>
      \E j \in 1..i - 1 :
        log[j] = [msg |-> log[i].msg, sender |-> None, part |-> log[i].part - 1]

\* What was found to be sendable is complete or under way.
CopiesFit ==
  /\ NoGap(room)
  /\ faults = 0 =>
       \A c \in copied :
         \/ \E t \in WebhookThreads : hook[t].post = c.post
         \/ \A p \in 1..Parts[channel[c.post].msg] : HasPart(room, channel[c.post].msg, p)

Types == DataFits /\ ThreadsFit /\ OpenFits

\* Who has a stored post has sent something since.
ClocksFit ==
  /\ \A h \in Humans : lastSent[h] <= now
  /\ \A i \in DOMAIN channel :
       /\ channel[i].at <= now
       /\ channel[i].stored => /\ channel[i].msg \in MatrixMessages
                               /\ channel[i].at <= lastSent[Author[channel[i].msg]]

\* The last event that the open transaction has reached, or the last one that was pushed.
Reached ==
  IF open = NoTransaction THEN pushed
  ELSE LET s == th[open.thread] IN
       CASE s.pc = "idle" -> open.last
         [] s.pc = "handle" -> s.next - 1
         [] s.pc = "store" -> s.next

\* Entry i of the room is a human's.
ByHuman(log, i) == log[i].sender # None

\* Of the entries up to n everything was posted that should be, and of the others nothing.
AllPosted(n, log, posts) ==
  \A k \in 1..n :
    ByHuman(log, k) => \/ log[k].msg \in Notices
                       \/ \E j \in 1..k : log[j].msg \in Untyped
                       \/ \E i \in 1..Len(posts) : posts[i].msg = log[k].msg

NonePosted(n, log, posts) ==
  \A i \in 1..Len(posts), k \in 1..Len(log) :
    ByHuman(log, k) /\ posts[i].msg = log[k].msg => k <= n

Ordered(log, posts) ==
  \A i, j \in 1..Len(posts), k, l \in 1..Len(log) :
    /\ i < j
    /\ ByHuman(log, k) /\ posts[i].msg = log[k].msg
    /\ ByHuman(log, l) /\ posts[j].msg = log[l].msg
    => k < l

\* Nobody writes a message twice, and nothing of the room is posted before it is written.
WrittenOnce ==
  /\ \A k, l \in 1..Len(room) :
       ByHuman(room, k) /\ ByHuman(room, l) /\ room[k].msg = room[l].msg => k = l
  /\ \A i \in 1..Len(channel) :
       channel[i].msg \in MatrixMessages =>
         \E k \in 1..Len(room) : ByHuman(room, k) /\ room[k].msg = channel[i].msg

\* The open transaction is handled by nobody or by the thread it was last pushed to.
OneThread ==
  /\ \A t \in TransactionThreads : th[t].pc # "idle" => open.thread = t
  /\ open # NoTransaction /\ th[open.thread].pc # "idle" =>
       /\ th[open.thread].last = open.last
       /\ pushed < th[open.thread].next

\* A thread handles the open transaction.
Busy == open # NoTransaction => th[open.thread].pc # "idle"

OrderFits ==
  /\ WrittenOnce
  /\ repeats = 0 => /\ OneThread
                    /\ NonePosted(Reached, room, channel)
                    /\ Ordered(room, channel)
  /\ faults = 0 => /\ repeats = 0
                   /\ Busy
                   /\ AllPosted(Reached, room, channel)

IInv ==
  /\ Types
  /\ HooksFit
  /\ ClocksFit
  /\ OrderFits
  /\ OnlyLateEchoes
  /\ CopiesFit

-----------------------------------------------------------------------------
(***************************************************************************)
(* Helpers                                                                 *)
(***************************************************************************)

\* The least of some numbers,
LEMMA LeastOfSome ==
  ASSUME NEW S \in SUBSET Nat, S # {}
  PROVE  Min(S) \in S /\ \A n \in S : Min(S) <= n
BY LeastNumber DEF Min

\* and the next event of a human in a transaction.
LEMMA NextEventFits ==
  ASSUME DataFits, NEW i \in Nat \ {0}, NEW last \in 0..Len(room), i <= last + 1
  PROVE  /\ NextEvent(i, last) \in i..last + 1
         /\ NextEvent(i, last) <= last => NextEvent(i, last) \in FromHumans
         /\ \A j \in FromHumans : i <= j => j >= NextEvent(i, last) \/ j > last
<1> DEFINE human == {j \in i..last : room[j].sender # None}
<1>1. NextEvent(i, last) = IF human = {} THEN last + 1 ELSE Min(human)
  BY DEF NextEvent
<1>2. room \in Seq(Entry)
  BY DEF DataFits
<1>3. FromHumans = {j \in 1..Len(room) : room[j].sender # None}
  BY <1>2 DEF FromHumans
<1>4. CASE human = {}
  <2>1. \A j \in FromHumans : i <= j => j > last
    BY <1>3, <1>4
  <2>2. QED
    BY <1>1, <1>4, <2>1
<1>5. CASE human # {}
  <2>1. Min(human) \in human /\ \A j \in human : Min(human) <= j
    <3>1. human \in SUBSET Nat
      OBVIOUS
    <3> HIDE DEF human
    <3>2. QED
      BY <1>5, <3>1, LeastOfSome
  <2>2. \A j \in human : j \in FromHumans
    BY <1>3
  <2>3. \A j \in FromHumans : i <= j => j \in human \/ j > last
    BY <1>3
  <2>4. \A j \in FromHumans : j \in Nat
    BY <1>3
  <2> HIDE DEF human
  <2>5. NextEvent(i, last) = Min(human)
    BY <1>1, <1>5
  <2>6. Min(human) \in i..last
    BY <2>1 DEF human
  <2>7. QED
    BY <2>1, <2>2, <2>3, <2>4, <2>5, <2>6
<1>6. QED
  BY <1>4, <1>5

\* What is sent in the room,
LEMMA RoomGrows ==
  ASSUME DataFits, NEW e \in Entry, room' = Append(room, e)
  PROVE  /\ room' \in Seq(Entry)
         /\ Len(room') = Len(room) + 1
         /\ DOMAIN room' = 1..Len(room) + 1
         /\ \A i \in 1..Len(room) : room'[i] = room[i]
         /\ room'[Len(room) + 1] = e
         /\ FromHumans' = FromHumans \cup (IF e.sender = None THEN {} ELSE {Len(room) + 1})
<1>1. room \in Seq(Entry) /\ Len(room) \in Nat
  BY DEF DataFits
<1>2. /\ room' \in Seq(Entry)
      /\ Len(room') = Len(room) + 1
      /\ DOMAIN room' = 1..Len(room) + 1
      /\ \A i \in 1..Len(room) : room'[i] = room[i]
      /\ room'[Len(room) + 1] = e
  BY <1>1
<1>3. FromHumans' = {i \in 1..Len(room) + 1 : room'[i].sender # None}
  BY <1>2 DEF FromHumans
<1>4. FromHumans = {i \in 1..Len(room) : room[i].sender # None}
  BY <1>1 DEF FromHumans
<1>5. QED
  BY <1>1, <1>2, <1>3, <1>4

\* and what is posted in the channel.
LEMMA ChannelGrows ==
  ASSUME DataFits, NEW m \in Messages, PostInChannel(m)
  PROVE  /\ channel' \in Seq(Post)
         /\ Len(channel') = Len(channel) + 1
         /\ DOMAIN channel' = 1..Len(channel) + 1
         /\ \A i \in 1..Len(channel) : channel'[i] = channel[i]
         /\ channel'[Len(channel) + 1] = [msg |-> m, at |-> now, stored |-> FALSE]
         /\ webhooks' \subseteq DOMAIN channel'
<1> DEFINE e == [msg |-> m, at |-> now, stored |-> FALSE]
<1>1. channel \in Seq(Post) /\ Len(channel) \in Nat /\ webhooks \subseteq 1..Len(channel)
  BY DEF DataFits
<1>2. e \in Post
  BY DEF DataFits, Post
<1>3. channel' = Append(channel, e) /\ webhooks' = webhooks \cup {Len(channel) + 1}
  BY DEF PostInChannel
<1>4. SUFFICES /\ channel' \in Seq(Post)
               /\ Len(channel') = Len(channel) + 1
               /\ DOMAIN channel' = 1..Len(channel) + 1
               /\ \A i \in 1..Len(channel) : channel'[i] = channel[i]
               /\ channel'[Len(channel) + 1] = e
               /\ webhooks' \subseteq DOMAIN channel'
  OBVIOUS
<1> HIDE DEF e
<1>5. /\ channel' \in Seq(Post)
      /\ Len(channel') = Len(channel) + 1
      /\ \A i \in 1..Len(channel) : channel'[i] = channel[i]
      /\ channel'[Len(channel) + 1] = e
  BY <1>1, <1>2, <1>3, AppendProperties
<1>6. DOMAIN channel' = 1..Len(channel) + 1
  BY <1>1, <1>5
<1>7. webhooks' \subseteq DOMAIN channel'
  <2>1. ASSUME NEW i \in webhooks'
        PROVE  i \in 1..Len(channel) + 1
    <3>1. i \in 1..Len(channel) \/ i = Len(channel) + 1
      BY <1>1, <1>3, <2>1
    <3>2. QED
      BY <1>1, <3>1
  <2>2. QED
    BY <1>6, <2>1, Zenon
<1>8. QED
  BY <1>5, <1>6, <1>7

-----------------------------------------------------------------------------
(***************************************************************************)
(* The types                                                               *)
(***************************************************************************)

\* The room and the channel only grow.
Grows ==
  /\ Len(room) <= Len(room')
  /\ \A i \in 1..Len(room) : room'[i] = room[i]
  /\ Len(channel) <= Len(channel')
  /\ \A i \in 1..Len(channel) : channel'[i].msg = channel[i].msg

LEMMA Lengths ==
  ASSUME DataFits
  PROVE  /\ Len(room) \in Nat /\ DOMAIN room = 1..Len(room)
         /\ Len(channel) \in Nat /\ DOMAIN channel = 1..Len(channel)
         /\ \A i \in 1..Len(room) : room[i] \in Entry
         /\ \A i \in 1..Len(channel) : channel[i] \in Post
         /\ FromHumans \subseteq 1..Len(room)
BY DEF DataFits, FromHumans

\* What a thread knows stays true,
LEMMA ThreadStays ==
  ASSUME DataFits, Grows, NEW s \in ThreadRecord, ThreadFits(s, room, channel), DataFits'
  PROVE  ThreadFits(s, room', channel')
<1>1. Len(room) \in Nat /\ Len(room') \in Nat /\ Len(channel) \in Nat /\ Len(channel') \in Nat
  BY Lengths DEF DataFits
<1>2. s.last \in Nat /\ s.next \in Nat /\ s.post \in Nat
  BY DEF ThreadRecord
<1>3. s.pc # "idle" /\ s.next <= s.last => room'[s.next] = room[s.next]
  BY <1>1, <1>2 DEF ThreadFits, Grows
<1>4. s.post # 0 => /\ channel'[s.post].msg = channel[s.post].msg
                    /\ room'[s.next] = room[s.next]
  <2>1. ASSUME s.post # 0
        PROVE  s.pc = "store"
    BY <2>1 DEF ThreadFits, ThreadRecord, Idle
  <2>2. QED
    BY <1>1, <1>2, <1>3, <2>1 DEF ThreadFits, Grows
<1>5. QED
  BY <1>1, <1>2, <1>3, <1>4 DEF ThreadFits, Grows

\* also when one thread takes a step,
LEMMA ThreadSteps ==
  ASSUME Types, Grows, DataFits', NEW t \in TransactionThreads, NEW s \in ThreadRecord,
         ThreadFits(s, room', channel'), th' = [th EXCEPT ![t] = s]
  PROVE  ThreadsFit'
<1>1. th \in [TransactionThreads -> ThreadRecord]
  BY DEF Types, ThreadsFit
<1>2. th' \in [TransactionThreads -> ThreadRecord]
  BY <1>1
<1>3. ASSUME NEW u \in TransactionThreads
      PROVE  ThreadFits(th'[u], room', channel')
  <2>1. CASE u = t
    BY <1>1, <2>1
  <2>2. CASE u # t
    BY <1>1, <2>2, ThreadStays DEF Types, ThreadsFit
  <2>3. QED
    BY <2>1, <2>2
<1>4. QED
  BY <1>2, <1>3 DEF ThreadsFit

\* and so does the open transaction.
LEMMA ThreadsStay ==
  ASSUME Types, Grows, DataFits', UNCHANGED th
  PROVE  ThreadsFit'
BY ThreadStays DEF Types, ThreadsFit

LEMMA OpenStays ==
  ASSUME Types, Grows, DataFits', UNCHANGED <<pushed, open>>
  PROVE  OpenFits'
BY Lengths DEF Types, DataFits, OpenFits, Grows, NoTransaction

\* Nothing grows in a step that changes neither room nor channel.
LEMMA NothingGrows ==
  ASSUME DataFits, UNCHANGED <<room, channel>>
  PROVE  Grows
BY Lengths DEF Grows

LEMMA EntryOfCopy ==
  ASSUME NEW m \in Messages, NEW p \in Nat
  PROVE  [msg |-> m, sender |-> None, part |-> p] \in Entry
BY DEF Entry

\* What is left of DataFits when a message was sent in the room,
LEMMA DataWithEntry ==
  ASSUME DataFits, NEW e \in Entry, room' = Append(room, e),
         e.sender # None => e.msg \in MatrixMessages /\ e.sender = Author[e.msg],
         UNCHANGED <<pushed, channel, webhooks, lastSent, copied, repeats, now>>,
         faults' \in 0..MaxFaults
  PROVE  DataFits' /\ Grows
<1>1. /\ room' \in Seq(Entry)
      /\ Len(room') = Len(room) + 1
      /\ \A i \in 1..Len(room) : room'[i] = room[i]
      /\ room'[Len(room) + 1] = e
      /\ FromHumans' = FromHumans \cup (IF e.sender = None THEN {} ELSE {Len(room) + 1})
  BY RoomGrows
<1>2. \A i \in FromHumans' :
        room'[i].msg \in MatrixMessages /\ room'[i].sender = Author[room'[i].msg]
  BY <1>1, Lengths DEF DataFits
<1>3. pushed' \in 0..Len(room')
  BY <1>1, Lengths DEF DataFits
<1>4. Grows
  BY <1>1, Lengths DEF Grows
<1>5. QED
  BY <1>1, <1>2, <1>3, <1>4 DEF DataFits

\* and when one was posted in the channel.
LEMMA DataWithPost ==
  ASSUME DataFits, NEW m \in Messages, PostInChannel(m),
         UNCHANGED <<room, pushed, lastSent, copied, repeats, now>>,
         faults' \in 0..MaxFaults
  PROVE  DataFits' /\ Grows
<1>1. /\ channel' \in Seq(Post)
      /\ Len(channel') = Len(channel) + 1
      /\ DOMAIN channel' = 1..Len(channel) + 1
      /\ \A i \in 1..Len(channel) : channel'[i] = channel[i]
      /\ webhooks' \subseteq DOMAIN channel'
  BY ChannelGrows
<1>2. FromHumans' = FromHumans
  BY DEF FromHumans
<1>3. DOMAIN channel \subseteq DOMAIN channel'
  BY <1>1, Lengths
<1>4. copied' \subseteq [post : DOMAIN channel', stored : BOOLEAN, age : 0..MaxTime]
  BY <1>3 DEF DataFits
<1>5. Grows
  BY <1>1, Lengths DEF Grows
<1>6. QED
  BY <1>1, <1>2, <1>4, <1>5 DEF DataFits

\* The other variables, with a fault or without.
LEMMA DataWithout ==
  ASSUME DataFits, UNCHANGED <<room, channel, lastSent>>,
         pushed' \in 0..Len(room), webhooks' \subseteq webhooks,
         copied' \subseteq [post : DOMAIN channel, stored : BOOLEAN, age : 0..MaxTime],
         repeats' \in Nat, now' \in 0..MaxTime, faults' \in 0..MaxFaults
  PROVE  DataFits' /\ Grows
<1>1. FromHumans' = FromHumans
  BY DEF FromHumans
<1>2. QED
  BY <1>1, NothingGrows DEF DataFits

LEMMA FaultFits ==
  ASSUME DataFits, Fault
  PROVE  faults' \in 0..MaxFaults /\ faults' # 0
BY MessageFlowFits DEF DataFits, Fault

-----------------------------------------------------------------------------

\* Every step keeps the types and lets room and channel grow.
TypesStep == Types' /\ Grows

LEMMA WriteTypes ==
  ASSUME Types, NEW m \in Messages, Write(m)
  PROVE  TypesStep
<1>1. CASE WriteInRoom(m)
  <2> DEFINE e == [msg |-> m, sender |-> Author[m], part |-> 0]
  <2>1. m \in MatrixMessages /\ room' = Append(room, e)
    BY <1>1 DEF WriteInRoom
  <2>2. e \in Entry
    BY <2>1, MessageFlowFits DEF Entry
  <2>3. e.sender # None => e.msg \in MatrixMessages /\ e.sender = Author[e.msg]
    BY <2>1
  <2>4. UNCHANGED <<pushed, open, th, channel, webhooks, lastSent, copied, repeats, now, faults>>
    BY <1>1 DEF WriteInRoom, rocketchat
  <2> HIDE DEF e
  <2>5. DataFits' /\ Grows
    BY <2>1, <2>2, <2>3, <2>4, DataWithEntry DEF Types, DataFits
  <2>6. QED
    BY <2>4, <2>5, ThreadsStay, OpenStays DEF Types, TypesStep
<1>2. CASE WriteInChannel(m)
  <2>1. /\ PostInChannel(m)
        /\ UNCHANGED <<room, pushed, open, th, lastSent, copied, repeats, now, faults>>
    BY <1>2 DEF WriteInChannel, matrix
  <2>2. DataFits' /\ Grows
    BY <2>1, DataWithPost DEF Types, DataFits
  <2>3. QED
    BY <2>1, <2>2, ThreadsStay, OpenStays DEF Types, TypesStep
<1>3. QED
  BY <1>1, <1>2 DEF Write

LEMMA TickTypes ==
  ASSUME Types, Tick
  PROVE  TypesStep
<1>1. UNCHANGED <<room, pushed, open, channel, webhooks, lastSent, th, copied, repeats, faults>>
  BY DEF Tick, matrix, rocketchat
<1>2. now' \in 0..MaxTime
  BY MessageFlowFits DEF Tick, Types, DataFits
<1>3. DataFits' /\ Grows
  BY <1>1, <1>2, DataWithout DEF Types, DataFits
<1>4. QED
  BY <1>1, <1>3, ThreadsStay, OpenStays DEF Types, TypesStep

\* A thread gets the transaction that ends with event last.
LEMMA PushToFits ==
  ASSUME Types, NEW t \in TransactionThreads, NEW last \in pushed + 1..Len(room),
         PushTo(t, last), DataFits', Grows, UNCHANGED <<room, channel, pushed>>
  PROVE  /\ ThreadsFit' /\ OpenFits'
         /\ th'[t].pc = "handle" /\ th'[t].last = last
         /\ th'[t].next = NextEvent(pushed + 1, last)
<1> DEFINE s == [Idle EXCEPT !.pc = "handle", !.last = last,
                             !.next = NextEvent(pushed + 1, last)]
<1>1. th' = [th EXCEPT ![t] = s] /\ open' = [last |-> last, thread |-> t]
  BY DEF PushTo
<1>2. pushed \in Nat /\ Len(room) \in Nat /\ last \in Nat
  BY Lengths DEF Types, DataFits
<1>3. /\ NextEvent(pushed + 1, last) \in pushed + 1..last + 1
      /\ NextEvent(pushed + 1, last) <= last => NextEvent(pushed + 1, last) \in FromHumans
  BY <1>2, NextEventFits DEF Types
<1>4. /\ s.pc = "handle" /\ s.post = 0 /\ s.last = last
      /\ s.next = NextEvent(pushed + 1, last)
      /\ s \in ThreadRecord
  <2>1. Idle \in ThreadRecord /\ Idle.post = 0
    BY DEF Idle, ThreadRecord
  <2>2. NextEvent(pushed + 1, last) \in Nat
    BY <1>2, <1>3
  <2>3. QED
    BY <1>2, <2>1, <2>2 DEF ThreadRecord
<1>5. ThreadFits(s, room', channel')
  <2>1. s.next <= s.last => room[s.next].sender # None
    BY <1>3, <1>4 DEF FromHumans
  <2>2. Len(channel') \in Nat /\ room' = room
    BY Lengths DEF Types
  <2> HIDE DEF s
  <2>3. QED
    BY <1>2, <1>3, <1>4, <2>1, <2>2 DEF ThreadFits
<1>6. open' \in [last : pushed' + 1..Len(room'), thread : TransactionThreads]
  BY <1>1
<1>7. th'[t] = s
  BY <1>1 DEF Types, ThreadsFit
<1> HIDE DEF s
<1>8. ThreadsFit'
  BY <1>1, <1>4, <1>5, ThreadSteps
<1>9. QED
  BY <1>4, <1>6, <1>7, <1>8 DEF OpenFits

LEMMA PushTypes ==
  ASSUME Types, NEW t \in TransactionThreads, Push(t)
  PROVE  TypesStep
<1>1. PICK n \in 1..MaxBatch : pushed + n <= Len(room) /\ PushTo(t, pushed + n)
  BY DEF Push
<1>2. UNCHANGED <<room, pushed, channel, webhooks, lastSent, copied, repeats, now, faults>>
  BY DEF Push, rocketchat
<1>3. DataFits' /\ Grows
  BY <1>2, DataWithout DEF Types, DataFits
<1>4. pushed + n \in pushed + 1..Len(room)
  BY <1>1, MessageFlowFits, Lengths DEF Types, DataFits
<1>5. QED
  BY <1>1, <1>2, <1>3, <1>4, PushToFits DEF Types, TypesStep

LEMMA PushAgainTypes ==
  ASSUME Types, NEW t \in TransactionThreads, PushAgain(t)
  PROVE  TypesStep
<1>1. /\ UNCHANGED <<room, pushed, channel, webhooks, lastSent, copied, now>>
      /\ repeats' = repeats + 1
      /\ PushTo(t, open.last)
      /\ open # NoTransaction
      /\ UNCHANGED faults \/ Fault
  BY DEF PushAgain, rocketchat
<1>2. faults' \in 0..MaxFaults
  BY <1>1, FaultFits DEF Types, DataFits
<1>3. DataFits' /\ Grows
  BY <1>1, <1>2, DataWithout DEF Types, DataFits
<1>4. open.last \in pushed + 1..Len(room)
  BY <1>1 DEF Types, OpenFits
<1>5. QED
  BY <1>1, <1>3, <1>4, PushToFits DEF Types, TypesStep

\* The event at which a busy thread is.
LEMMA CurrentFits ==
  ASSUME Types, NEW t \in TransactionThreads, Handling(t) \/ th[t].pc = "store"
  PROVE  /\ th[t] \in ThreadRecord /\ ThreadFits(th[t], room, channel)
         /\ th[t].next \in 1..th[t].last /\ th[t].last <= Len(room)
         /\ th[t].next \in FromHumans
         /\ Current(t) \in MatrixMessages
<1>1. th[t] \in ThreadRecord /\ ThreadFits(th[t], room, channel)
  BY DEF Types, ThreadsFit
<1>2. th[t].next \in 1..th[t].last /\ th[t].last <= Len(room)
  BY <1>1 DEF ThreadRecord, ThreadFits, Handling
<1>3. th[t].next \in FromHumans
  BY <1>1, <1>2, Lengths DEF ThreadRecord, ThreadFits, Types, FromHumans, Handling
<1>4. QED
  BY <1>1, <1>2, <1>3 DEF Types, DataFits, Current

\* A thread that drops the rest is done.
LEMMA DropRestFits ==
  ASSUME Types, NEW t \in TransactionThreads, DropRest(t), DataFits', Grows, th[t].pc # "idle"
  PROVE  /\ ThreadsFit'
         /\ \A u \in TransactionThreads : u # t => th'[u] = th[u]
         /\ th'[t].pc = "handle" /\ th'[t].last = th[t].last
         /\ th'[t].next = th[t].last + 1
<1> DEFINE s == [th[t] EXCEPT !.pc = "handle", !.next = th[t].last + 1, !.post = 0]
<1>1. th[t] \in ThreadRecord /\ ThreadFits(th[t], room, channel)
  BY DEF Types, ThreadsFit
<1>2. th' = [th EXCEPT ![t] = s]
  BY DEF DropRest
<1>3. /\ s \in ThreadRecord
      /\ s.pc = "handle" /\ s.post = 0 /\ s.next = th[t].last + 1 /\ s.last = th[t].last
  <2>1. \A r \in ThreadRecord, n \in Nat :
          LET q == [r EXCEPT !.pc = "handle", !.next = n, !.post = 0] IN
          /\ q \in ThreadRecord
          /\ q.pc = "handle" /\ q.post = 0 /\ q.next = n /\ q.last = r.last
    BY DEF ThreadRecord
  <2>2. th[t].last + 1 \in Nat
    BY <1>1 DEF ThreadRecord
  <2>3. QED
    BY <1>1, <2>1, <2>2, Zenon
<1>4. /\ th'[t] = s
      /\ \A u \in TransactionThreads : u # t => th'[u] = th[u]
  BY <1>2 DEF Types, ThreadsFit
<1> HIDE DEF s
<1>5. ThreadFits(s, room', channel')
  <2>1. th[t].last \in Nat /\ th[t].last <= Len(room)
    BY <1>1 DEF ThreadRecord, ThreadFits
  <2>2. Len(room) \in Nat /\ Len(room') \in Nat /\ Len(channel') \in Nat
    BY Lengths DEF Types, DataFits
  <2>3. QED
    BY <1>3, <2>1, <2>2 DEF ThreadFits, Grows
<1>6. QED
  BY <1>2, <1>3, <1>4, <1>5, ThreadSteps

LEMMA ForwardTypes ==
  ASSUME Types, NEW t \in TransactionThreads, ForwardToChannel(t)
  PROVE  TypesStep
<1>1. /\ Handling(t) /\ PostInChannel(Current(t))
      /\ UNCHANGED <<room, pushed, open, lastSent, copied, repeats, now>>
  BY DEF ForwardToChannel, matrix
<1>2. Current(t) \in MatrixMessages
  BY <1>1, CurrentFits
<1>3. faults' \in 0..MaxFaults
  BY FaultFits DEF ForwardToChannel, Types, DataFits
<1>4. DataFits' /\ Grows
  BY <1>1, <1>2, <1>3, DataWithPost DEF Types, Messages
<1>5. OpenFits'
  BY <1>1, <1>4, OpenStays
<1>6. CASE th' = [th EXCEPT ![t].pc = "store", ![t].post = Len(channel) + 1]
  <2> DEFINE s == [th[t] EXCEPT !.pc = "store", !.post = Len(channel) + 1]
  <2>1. th' = [th EXCEPT ![t] = s]
    BY <1>6
  <2>2. /\ th[t] \in ThreadRecord /\ ThreadFits(th[t], room, channel)
        /\ th[t].next \in 1..th[t].last /\ th[t].last <= Len(room)
        /\ th[t].next \in FromHumans
    BY <1>1, CurrentFits
  <2>3. Len(room) \in Nat /\ Len(channel) \in Nat
    BY Lengths DEF Types
  <2>4. /\ s \in ThreadRecord
        /\ s.pc = "store" /\ s.post = Len(channel) + 1
        /\ s.next = th[t].next /\ s.last = th[t].last
    <3>1. \A r \in ThreadRecord, p \in Nat :
            LET q == [r EXCEPT !.pc = "store", !.post = p] IN
            /\ q \in ThreadRecord
            /\ q.pc = "store" /\ q.post = p /\ q.next = r.next /\ q.last = r.last
      BY DEF ThreadRecord
    <3>2. Len(channel) + 1 \in Nat
      BY <2>3
    <3>3. QED
      BY <2>2, <3>1, <3>2, Zenon
  <2>5. /\ Len(channel') = Len(channel) + 1
        /\ channel'[Len(channel) + 1].msg = room[th[t].next].msg
    <3>1. Current(t) \in Messages /\ DataFits
      BY <1>2 DEF Messages, Types
    <3>2. /\ Len(channel') = Len(channel) + 1
          /\ channel'[Len(channel) + 1] = [msg |-> Current(t), at |-> now, stored |-> FALSE]
      BY <1>1, <3>1, ChannelGrows, Zenon
    <3>3. QED
      BY <3>2 DEF Current
  <2> HIDE DEF s
  <2>6. room[th[t].next].sender # None
    BY <2>2 DEF FromHumans
  <2>7. ThreadFits(s, room', channel')
    BY <1>1, <2>2, <2>3, <2>4, <2>5, <2>6 DEF ThreadFits, ThreadRecord
  <2>8. QED
    BY <1>4, <1>5, <2>1, <2>4, <2>7, ThreadSteps DEF Types, TypesStep
<1>7. CASE DropRest(t)
  BY <1>1, <1>4, <1>5, <1>7, DropRestFits DEF Types, TypesStep, Handling
<1>8. QED
  BY <1>6, <1>7 DEF ForwardToChannel

LEMMA ForwardNothingTypes ==
  ASSUME Types, NEW t \in TransactionThreads, ForwardNothing(t)
  PROVE  TypesStep
<1> DEFINE s == [th[t] EXCEPT !.pc = "store"]
<1>1. /\ Handling(t) /\ th' = [th EXCEPT ![t] = s]
      /\ UNCHANGED <<room, pushed, open, channel, webhooks, lastSent, copied, repeats, now, faults>>
  BY DEF ForwardNothing, matrix, rocketchat
<1>2. DataFits' /\ Grows
  BY <1>1, DataWithout DEF Types, DataFits
<1>3. /\ th[t] \in ThreadRecord /\ ThreadFits(th[t], room, channel)
      /\ th[t].next \in 1..th[t].last
  BY <1>1, CurrentFits
<1>4. /\ s \in ThreadRecord
      /\ s.pc = "store" /\ s.post = 0 /\ s.next = th[t].next /\ s.last = th[t].last
  BY <1>1, <1>3 DEF ThreadRecord, ThreadFits, Handling
<1> HIDE DEF s
<1>5. ThreadFits(s, room', channel')
  BY <1>1, <1>3, <1>4, Lengths DEF ThreadFits, ThreadRecord, Handling, Types
<1>6. QED
  BY <1>1, <1>2, <1>4, <1>5, ThreadSteps, OpenStays DEF Types, TypesStep

LEMMA RefuseTypes ==
  ASSUME Types, NEW t \in TransactionThreads, RefuseFile(t)
  PROVE  TypesStep
<1>1. /\ th[t].pc # "idle" /\ DropRest(t)
      /\ UNCHANGED <<room, pushed, open, channel, webhooks, lastSent, copied, repeats, now, faults>>
  BY DEF RefuseFile, matrix, rocketchat, Handling
<1>2. DataFits' /\ Grows
  BY <1>1, DataWithout DEF Types, DataFits
<1>3. QED
  BY <1>1, <1>2, DropRestFits, OpenStays DEF Types, TypesStep

LEMMA EventFailsTypes ==
  ASSUME Types, NEW t \in TransactionThreads, EventFails(t)
  PROVE  TypesStep
<1>1. /\ th[t].pc # "idle" /\ DropRest(t) /\ Fault
      /\ UNCHANGED <<room, pushed, open, channel, webhooks, lastSent, copied, repeats, now>>
  BY DEF EventFails, matrix, rocketchat, Handling
<1>2. DataFits' /\ Grows
  BY <1>1, FaultFits, DataWithout DEF Types, DataFits
<1>3. QED
  BY <1>1, <1>2, DropRestFits, OpenStays DEF Types, TypesStep

\* A stored post is the same but for that.
LEMMA StoredPosts ==
  ASSUME DataFits, NEW n \in Nat,
         channel' = [i \in DOMAIN channel |->
                       IF i = n THEN [channel[i] EXCEPT !.stored = TRUE] ELSE channel[i]]
  PROVE  /\ channel' \in Seq(Post)
         /\ Len(channel') = Len(channel)
         /\ DOMAIN channel' = DOMAIN channel
         /\ \A i \in 1..Len(channel) : /\ channel'[i].msg = channel[i].msg
                                       /\ channel'[i].at = channel[i].at
                                       /\ i # n => channel'[i] = channel[i]
<1>1. /\ Len(channel) \in Nat /\ DOMAIN channel = 1..Len(channel)
      /\ \A i \in 1..Len(channel) : channel[i] \in Post
  BY Lengths
<1>2. \A p \in Post : LET q == [p EXCEPT !.stored = TRUE] IN
                      q \in Post /\ q.msg = p.msg /\ q.at = p.at
  BY DEF Post
<1>3. \A i \in 1..Len(channel) :
        channel'[i] = IF i = n THEN [channel[i] EXCEPT !.stored = TRUE] ELSE channel[i]
  BY <1>1
<1>4. \A i \in 1..Len(channel) : /\ channel'[i] \in Post
                                 /\ channel'[i].msg = channel[i].msg
                                 /\ channel'[i].at = channel[i].at
                                 /\ i # n => channel'[i] = channel[i]
  <2>1. ASSUME NEW i \in 1..Len(channel), i = n
        PROVE  /\ channel'[i] \in Post
               /\ channel'[i].msg = channel[i].msg
               /\ channel'[i].at = channel[i].at
    BY <1>1, <1>2, <1>3, <2>1, Zenon
  <2>2. ASSUME NEW i \in 1..Len(channel), i # n
        PROVE  channel'[i] = channel[i]
    BY <1>3, <2>2, Zenon
  <2>3. QED
    BY <1>1, <2>1, <2>2, Zenon
<1>5. channel' = [i \in 1..Len(channel) |-> channel'[i]]
  BY <1>1
<1>6. channel' \in [1..Len(channel) -> Post]
  BY <1>4, <1>5, Zenon
<1>7. channel' \in Seq(Post) /\ Len(channel') = Len(channel)
  BY <1>1, <1>6
<1>8. QED
  BY <1>1, <1>4, <1>5, <1>7

LEMMA StoreTypes ==
  ASSUME Types, NEW t \in TransactionThreads, Store(t)
  PROVE  /\ TypesStep
         /\ \A u \in TransactionThreads : u # t => th'[u] = th[u]
         /\ th'[t].pc = "handle" /\ th'[t].last = th[t].last
         /\ th'[t].next = NextEvent(th[t].next + 1, th[t].last)
<1> DEFINE n == NextEvent(th[t].next + 1, th[t].last)
           s == [th[t] EXCEPT !.pc = "handle", !.post = 0, !.next = n]
<1>1. /\ th[t] \in ThreadRecord /\ ThreadFits(th[t], room, channel)
      /\ th[t].next \in 1..th[t].last /\ th[t].last <= Len(room)
      /\ th[t].next \in FromHumans
      /\ Current(t) \in MatrixMessages
  BY CurrentFits DEF Store
<1>2. /\ th' = [th EXCEPT ![t] = s]
      /\ lastSent' = [lastSent EXCEPT ![Author[Current(t)]] = now]
      /\ channel' = [i \in DOMAIN channel |->
                       IF i = th[t].post THEN [channel[i] EXCEPT !.stored = TRUE] ELSE channel[i]]
      /\ UNCHANGED <<room, pushed, open, webhooks, copied, repeats, now, faults>>
  BY DEF Store, matrix, Current
<1>3. /\ channel' \in Seq(Post)
      /\ Len(channel') = Len(channel)
      /\ DOMAIN channel' = DOMAIN channel
      /\ \A i \in 1..Len(channel) : channel'[i].msg = channel[i].msg
  BY <1>1, <1>2, StoredPosts DEF ThreadRecord, Types
<1>4. Grows
  BY <1>2, <1>3, Lengths DEF Grows, Types
<1>5. lastSent' \in [Humans -> 0..MaxTime]
  BY <1>2 DEF Types, DataFits
<1>6. FromHumans' = FromHumans
  BY <1>2 DEF FromHumans
<1>7. DataFits'
  BY <1>2, <1>3, <1>5, <1>6 DEF Types, DataFits
<1>8. Len(room) \in Nat /\ th[t].next \in Nat /\ th[t].last \in 0..Len(room)
  BY <1>1, Lengths DEF Types, ThreadRecord
<1>9. /\ n \in th[t].next + 1..th[t].last + 1
      /\ n <= th[t].last => n \in FromHumans
  <2>1. /\ th[t].next + 1 \in Nat \ {0}
        /\ th[t].next + 1 <= th[t].last + 1
    BY <1>1, <1>8
  <2>2. QED
    BY <1>8, <2>1, NextEventFits DEF Types
<1>10. /\ s \in ThreadRecord
       /\ s.pc = "handle" /\ s.post = 0 /\ s.next = n /\ s.last = th[t].last
  <2>1. \A r \in ThreadRecord, k \in Nat :
          LET q == [r EXCEPT !.pc = "handle", !.post = 0, !.next = k] IN
          /\ q \in ThreadRecord
          /\ q.pc = "handle" /\ q.post = 0 /\ q.next = k /\ q.last = r.last
    BY DEF ThreadRecord
  <2>2. n \in Nat
    BY <1>8, <1>9
  <2> HIDE DEF n
  <2>3. QED
    BY <1>1, <2>1, <2>2, Zenon
<1>11. /\ th'[t] = s
       /\ \A u \in TransactionThreads : u # t => th'[u] = th[u]
  BY <1>2 DEF Types, ThreadsFit
<1> HIDE DEF s, n
<1>12. ThreadFits(s, room', channel')
  <2>1. n <= th[t].last => room[n].sender # None
    BY <1>9 DEF FromHumans
  <2>2. Len(channel') \in Nat /\ room' = room
    BY <1>2, <1>3, Lengths DEF Types
  <2>3. QED
    BY <1>8, <1>9, <1>10, <2>1, <2>2 DEF ThreadFits
<1>13. QED
  BY <1>2, <1>4, <1>7, <1>10, <1>11, <1>12, ThreadSteps, OpenStays DEF Types, TypesStep, n

LEMMA IdleFits ==
  Idle \in ThreadRecord /\ \A log, posts : Len(log) \in Nat /\ Len(posts) \in Nat => ThreadFits(Idle, log, posts)
BY DEF Idle, ThreadRecord, ThreadFits

LEMMA AnswerTypes ==
  ASSUME Types, NEW t \in TransactionThreads, Answer(t)
  PROVE  TypesStep
<1>1. /\ th' = [th EXCEPT ![t] = Idle]
      /\ UNCHANGED <<room, channel, webhooks, lastSent, copied, repeats, now>>
      /\ \/ open.thread = t /\ pushed' = open.last /\ open' = NoTransaction /\ UNCHANGED faults
         \/ UNCHANGED <<pushed, open>> /\ (UNCHANGED faults \/ Fault)
  BY DEF Answer, rocketchat
<1>2. faults' \in 0..MaxFaults
  BY <1>1, FaultFits DEF Types, DataFits
<1>3. pushed' \in 0..Len(room)
  <2>1. open.thread = t => open.last \in pushed + 1..Len(room)
    BY MessageFlowFits DEF Types, OpenFits, NoTransaction
  <2>2. QED
    BY <1>1, <2>1, Lengths DEF Types, DataFits
<1>4. DataFits' /\ Grows
  BY <1>1, <1>2, <1>3, DataWithout DEF Types, DataFits
<1>5. OpenFits'
  BY <1>1, <1>4, OpenStays DEF OpenFits
<1>6. ThreadsFit'
  BY <1>1, <1>4, IdleFits, Lengths, ThreadSteps DEF Types, DataFits
<1>7. QED
  BY <1>4, <1>5, <1>6 DEF Types, TypesStep

-----------------------------------------------------------------------------
(***************************************************************************)
(* Webhooks                                                                *)
(***************************************************************************)

LEMMA PartStays ==
  ASSUME DataFits, DataFits', Grows, NEW m, NEW p, HasPart(room, m, p)
  PROVE  HasPart(room', m, p)
<1>1. Len(room) \in Nat /\ Len(room') \in Nat
  BY Lengths DEF DataFits
<1>2. QED
  BY <1>1 DEF HasPart, Grows

\* What a thread knows about its post stays true,
LEMMA HookStays ==
  ASSUME DataFits, DataFits', Grows, NEW h, HookFits(h, room, channel)
  PROVE  HookFits(h, room', channel')
<1>1. Len(channel) \in Nat /\ Len(channel') \in Nat /\ Len(channel) <= Len(channel')
  BY Lengths DEF DataFits, Grows
<1>2. h \in [post : 0..Len(channel'), part : Nat \ {0}]
  BY <1>1 DEF HookFits
<1>3. h.post # 0 => channel'[h.post].msg = channel[h.post].msg
  BY <1>1 DEF HookFits, Grows
<1>4. QED
  BY <1>2, <1>3, PartStays DEF HookFits

\* also when one thread takes a step.
LEMMA HooksStay ==
  ASSUME DataFits, DataFits', Grows, HooksFit, UNCHANGED hook
  PROVE  HooksFit'
<1>1. hook' = hook
  OBVIOUS
<1>2. QED
  BY <1>1, HookStays DEF HooksFit

LEMMA HookSteps ==
  ASSUME DataFits, DataFits', Grows, HooksFit, NEW t \in WebhookThreads, NEW h,
         HookFits(h, room', channel'), hook' = [hook EXCEPT ![t] = h]
  PROVE  HooksFit'
<1>1. hook' = [u \in WebhookThreads |-> hook'[u]]
  BY DEF HooksFit
<1>2. ASSUME NEW u \in WebhookThreads
      PROVE  HookFits(hook'[u], room', channel')
  <2>1. CASE u = t
    BY <2>1 DEF HooksFit
  <2>2. CASE u # t
    BY <2>2, HookStays DEF HooksFit
  <2>3. QED
    BY <2>1, <2>2
<1>3. QED
  BY <1>1, <1>2 DEF HooksFit

LEMMA NoHookFits ==
  \A log, posts : Len(posts) \in Nat => HookFits(NoHook, log, posts)
BY DEF HookFits, NoHook

LEMMA WebhookTypes ==
  ASSUME Types, ClocksFit, HooksFit, NEW t \in WebhookThreads, NEW i \in webhooks, Webhook(t, i)
  PROVE  TypesStep /\ HooksFit'
<1>1. /\ hook[t] = NoHook
      /\ webhooks' = webhooks \ {i}
      /\ UNCHANGED <<room, pushed, open, channel, lastSent, th, repeats, now, faults>>
      /\ \/ /\ hook' = [hook EXCEPT ![t] = [post |-> i, part |-> 1]]
            /\ copied' = copied \cup
                 {[post |-> i, stored |-> channel[i].stored, age |-> now - channel[i].at]}
         \/ UNCHANGED <<hook, copied>>
  BY DEF Webhook, matrix
<1>2. i \in 1..Len(channel) /\ channel[i] \in Post
  BY Lengths DEF Types, DataFits
<1>3. copied' \subseteq [post : DOMAIN channel, stored : BOOLEAN, age : 0..MaxTime]
  <2>1. channel[i].stored \in BOOLEAN /\ now - channel[i].at \in 0..MaxTime
    <3>1. channel[i].stored \in BOOLEAN /\ channel[i].at \in 0..MaxTime
      BY <1>2 DEF Post
    <3>2. channel[i].at <= now
      BY <1>2, Lengths DEF Types, ClocksFit
    <3>3. now \in 0..MaxTime /\ MaxTime \in Nat
      BY MessageFlowFits DEF Types, DataFits
    <3>4. QED
      BY <3>1, <3>2, <3>3
  <2>2. [post |-> i, stored |-> channel[i].stored, age |-> now - channel[i].at]
          \in [post : DOMAIN channel, stored : BOOLEAN, age : 0..MaxTime]
    BY <1>2, <2>1, Lengths DEF Types
  <2>3. QED
    BY <1>1, <2>2 DEF Types, DataFits
<1>4. DataFits' /\ Grows
  BY <1>1, <1>3, DataWithout DEF Types, DataFits
<1>5. Types'
  BY <1>1, <1>4, ThreadsStay, OpenStays DEF Types
<1>6. HooksFit'
  <2>1. CASE hook' = [hook EXCEPT ![t] = [post |-> i, part |-> 1]]
    <3> DEFINE h == [post |-> i, part |-> 1]
    <3>1. HookFits(h, room', channel')
      BY <1>1, <1>2, Lengths DEF HookFits, Types
    <3> HIDE DEF h
    <3>2. QED
      BY <1>4, <2>1, <3>1, HookSteps DEF Types, h
  <2>2. CASE UNCHANGED hook
    BY <1>4, <2>2, HooksStay DEF Types
  <2>3. QED
    BY <1>1, <2>1, <2>2
<1>7. QED
  BY <1>4, <1>5, <1>6 DEF TypesStep

\* What a thread for webhooks sends, and what is left for it.
LEMMA SendTypes ==
  ASSUME Types, HooksFit, NEW t \in WebhookThreads, SendToRoom(t)
  PROVE  /\ TypesStep /\ HooksFit'
         /\ hook[t].post \in 1..Len(channel)
         /\ hook[t].part \in 1..Parts[channel[hook[t].post].msg]
         /\ \A p \in 1..hook[t].part : HasPart(room', channel[hook[t].post].msg, p)
         /\ \A u \in WebhookThreads : u # t => hook'[u] = hook[u]
         /\ \/ hook'[t].post = hook[t].post
            \/ hook[t].part = Parts[channel[hook[t].post].msg]
<1> DEFINE h == hook[t]
           m == channel[h.post].msg
           e == [msg |-> m, sender |-> None, part |-> h.part]
<1>1. /\ h.post # 0
      /\ Parts[m] # 0
      /\ room' = Append(room, e)
      /\ hook' = [hook EXCEPT ![t] = AfterPart(h)]
      /\ UNCHANGED <<pushed, open, channel, webhooks, lastSent, th, copied, repeats, now, faults>>
  BY DEF SendToRoom, rocketchat
<1>2. /\ HookFits(h, room, channel)
      /\ h.post \in 1..Len(channel) /\ h.part \in Nat \ {0}
  BY <1>1, Lengths DEF HooksFit, HookFits, Types
<1>3. m \in Messages /\ Parts[m] \in Nat
  BY <1>2, Lengths, MessageFlowFits DEF Types, Post
<1>4. h.part \in 1..Parts[m] /\ \A p \in 1..h.part - 1 : HasPart(room, m, p)
  BY <1>1, <1>2, <1>3 DEF HookFits
<1>5. e \in Entry
  BY <1>2, <1>3, EntryOfCopy
<1>6. e.sender = None
  OBVIOUS
<1>7. DataFits' /\ Grows /\ room'[Len(room) + 1] = e /\ Len(room') = Len(room) + 1
  <2> HIDE DEF e
  <2>1. QED
    BY <1>1, <1>5, <1>6, DataWithEntry, RoomGrows DEF Types, DataFits
<1>8. \A p \in 1..h.part : HasPart(room', m, p)
  <2>1. HasPart(room', m, h.part)
    BY <1>7, Lengths DEF HasPart, Types
  <2>2. \A p \in 1..h.part - 1 : HasPart(room', m, p)
    BY <1>4, <1>7, PartStays DEF Types
  <2>3. QED
    BY <1>2, <2>1, <2>2
<1>9. /\ HookFits(AfterPart(h), room', channel')
      /\ AfterPart(h).post = h.post \/ h.part = Parts[m]
  <2>1. CASE h.part < Parts[m]
    <3>1. AfterPart(h) = [h EXCEPT !.part = h.part + 1]
      BY <2>1 DEF AfterPart
    <3>2. \A g \in [post : 0..Len(channel), part : Nat \ {0}], p \in Nat \ {0} :
            LET q == [g EXCEPT !.part = p] IN
            /\ q \in [post : 0..Len(channel), part : Nat \ {0}]
            /\ q.post = g.post /\ q.part = p
      OBVIOUS
    <3>3. h.part + 1 \in Nat \ {0}
      BY <1>2
    <3>4. h \in [post : 0..Len(channel), part : Nat \ {0}]
      BY <1>2 DEF HookFits
    <3>5. /\ AfterPart(h) \in [post : 0..Len(channel), part : Nat \ {0}]
          /\ AfterPart(h).post = h.post /\ AfterPart(h).part = h.part + 1
      BY <3>1, <3>2, <3>3, <3>4, Zenon
    <3> DEFINE g == AfterPart(h)
    <3>6. /\ g \in [post : 0..Len(channel'), part : Nat \ {0}]
          /\ channel'[g.post].msg = m
          /\ g.post = h.post /\ g.part <= Parts[m] /\ g.part - 1 = h.part
      BY <1>1, <1>2, <1>3, <2>1, <3>5
    <3> HIDE DEF g, h, m
    <3>7. HookFits(g, room', channel')
      BY <1>1, <1>8, <3>6 DEF HookFits
    <3>8. QED
      BY <3>6, <3>7 DEF g
  <2>2. CASE ~(h.part < Parts[m])
    <3>1. AfterPart(h) = NoHook
      BY <2>2 DEF AfterPart
    <3>2. h.part = Parts[m]
      BY <1>2, <1>3, <1>4, <2>2
    <3>3. QED
      BY <1>1, <3>1, <3>2, NoHookFits, Lengths DEF Types
  <2>3. QED
    BY <2>1, <2>2
<1>10. hook'[t] = AfterPart(h) /\ \A u \in WebhookThreads : u # t => hook'[u] = hook[u]
  BY <1>1 DEF HooksFit
<1>11. HooksFit'
  BY <1>1, <1>7, <1>9, HookSteps DEF Types
<1>12. Types'
  BY <1>1, <1>7, ThreadsStay, OpenStays DEF Types
<1>13. QED
  BY <1>2, <1>4, <1>7, <1>8, <1>9, <1>10, <1>11, <1>12 DEF TypesStep

LEMMA SendNothingTypes ==
  ASSUME Types, HooksFit, NEW t \in WebhookThreads, SendNothing(t)
  PROVE  TypesStep /\ HooksFit'
<1>1. /\ hook' = [hook EXCEPT ![t] = NoHook]
      /\ UNCHANGED <<room, pushed, open, channel, webhooks, lastSent, th, copied, repeats, now, faults>>
  BY DEF SendNothing, matrix, rocketchat
<1>2. DataFits' /\ Grows
  BY <1>1, DataWithout DEF Types, DataFits
<1>3. HooksFit'
  BY <1>1, <1>2, NoHookFits, HookSteps, Lengths DEF Types
<1>4. QED
  BY <1>1, <1>2, <1>3, ThreadsStay, OpenStays DEF Types, TypesStep

LEMMA WebhookFailsTypes ==
  ASSUME Types, HooksFit, NEW t \in WebhookThreads, WebhookFails(t)
  PROVE  TypesStep /\ HooksFit'
<1>1. /\ hook' = [hook EXCEPT ![t] = NoHook]
      /\ UNCHANGED <<room, pushed, open, channel, webhooks, lastSent, th, copied, repeats, now>>
      /\ Fault
  BY DEF WebhookFails, matrix, rocketchat
<1>2. DataFits' /\ Grows
  BY <1>1, FaultFits, DataWithout DEF Types, DataFits
<1>3. HooksFit'
  BY <1>1, <1>2, NoHookFits, HookSteps, Lengths DEF Types
<1>4. QED
  BY <1>1, <1>2, <1>3, ThreadsStay, OpenStays DEF Types, TypesStep

LEMMA CrashTypes ==
  ASSUME Types, HooksFit, Crash
  PROVE  TypesStep /\ HooksFit'
<1>1. /\ th' = [t \in TransactionThreads |-> Idle]
      /\ hook' = [t \in WebhookThreads |-> NoHook]
      /\ UNCHANGED <<room, pushed, open, channel, webhooks, lastSent, copied, repeats, now>>
      /\ Fault
  BY DEF Crash, matrix, rocketchat
<1>2. DataFits' /\ Grows
  BY <1>1, FaultFits, DataWithout DEF Types, DataFits
<1>3. ThreadsFit'
  BY <1>1, <1>2, IdleFits, Lengths DEF ThreadsFit, DataFits
<1>4. HooksFit'
  BY <1>1, <1>2, NoHookFits, Lengths DEF HooksFit, DataFits
<1>5. QED
  BY <1>1, <1>2, <1>3, <1>4, OpenStays DEF Types, TypesStep

-----------------------------------------------------------------------------
(***************************************************************************)
(* Types, hooks, clocks and copies in every step                           *)
(***************************************************************************)

LEMMA StepTypes ==
  ASSUME Types, HooksFit, ClocksFit, [Next]_vars
  PROVE  TypesStep /\ HooksFit'
<1>1. ASSUME TypesStep, UNCHANGED hook
      PROVE  TypesStep /\ HooksFit'
  BY <1>1, HooksStay DEF TypesStep, Types
<1>2. ASSUME NEW m \in Messages, Write(m)
      PROVE  TypesStep /\ HooksFit'
  BY <1>1, <1>2, WriteTypes DEF Write, WriteInRoom, WriteInChannel
<1>3. CASE Tick
  BY <1>1, <1>3, TickTypes DEF Tick
<1>4. ASSUME NEW t \in TransactionThreads, Transaction(t) \/ EventFails(t)
      PROVE  TypesStep /\ HooksFit'
  <2>1. CASE Push(t)
    BY <1>1, <2>1, PushTypes DEF Push
  <2>2. CASE PushAgain(t)
    BY <1>1, <2>2, PushAgainTypes DEF PushAgain
  <2>3. CASE ForwardToChannel(t)
    BY <1>1, <2>3, ForwardTypes DEF ForwardToChannel
  <2>4. CASE ForwardNothing(t)
    BY <1>1, <2>4, ForwardNothingTypes DEF ForwardNothing
  <2>5. CASE RefuseFile(t)
    BY <1>1, <2>5, RefuseTypes DEF RefuseFile
  <2>6. CASE Store(t)
    BY <1>1, <2>6, StoreTypes DEF Store
  <2>7. CASE Answer(t)
    BY <1>1, <2>7, AnswerTypes DEF Answer
  <2>8. CASE EventFails(t)
    BY <1>1, <2>8, EventFailsTypes DEF EventFails
  <2>9. QED
    BY <1>4, <2>1, <2>2, <2>3, <2>4, <2>5, <2>6, <2>7, <2>8 DEF Transaction
<1>5. ASSUME NEW t \in WebhookThreads, Hook(t) \/ WebhookFails(t)
      PROVE  TypesStep /\ HooksFit'
  BY <1>5, WebhookTypes, SendTypes, SendNothingTypes, WebhookFailsTypes DEF Hook
<1>6. CASE Crash
  BY <1>6, CrashTypes
<1>7. CASE UNCHANGED vars
  <2>1. UNCHANGED <<room, pushed, open, channel, webhooks, lastSent, th, hook, copied, repeats, now, faults>>
    BY <1>7 DEF vars, matrix, rocketchat
  <2>2. DataFits' /\ Grows
    BY <2>1, DataWithout DEF Types, DataFits
  <2>3. QED
    BY <1>1, <2>1, <2>2, ThreadsStay, OpenStays DEF Types, TypesStep
<1>8. QED
  BY <1>2, <1>3, <1>4, <1>5, <1>6, <1>7 DEF Next

\* The steps that change what ClocksFit is about.
LEMMA ClockSteps ==
  ASSUME [Next]_vars
  PROVE  \/ UNCHANGED <<channel, lastSent, now>>
         \/ Tick
         \/ \E m \in Messages : PostInChannel(m) /\ UNCHANGED <<lastSent, now>>
         \/ \E t \in TransactionThreads : ForwardToChannel(t) \/ Store(t)
<1>1. ASSUME NEW m \in Messages, Write(m)
      PROVE  \/ UNCHANGED <<channel, lastSent, now>>
             \/ PostInChannel(m) /\ UNCHANGED <<lastSent, now>>
  BY <1>1 DEF Write, WriteInRoom, WriteInChannel, rocketchat
<1>2. ASSUME NEW t \in TransactionThreads, Transaction(t) \/ EventFails(t)
      PROVE  \/ UNCHANGED <<channel, lastSent, now>>
             \/ ForwardToChannel(t) \/ Store(t)
  BY <1>2 DEF Transaction, Push, PushAgain, ForwardNothing, RefuseFile, Answer, EventFails, rocketchat
<1>3. ASSUME NEW t \in WebhookThreads, Hook(t) \/ WebhookFails(t)
      PROVE  UNCHANGED <<channel, lastSent, now>>
  BY <1>3 DEF Hook, Webhook, SendToRoom, SendNothing, WebhookFails, rocketchat
<1>4. Crash \/ UNCHANGED vars => UNCHANGED <<channel, lastSent, now>>
  BY DEF Crash, vars, rocketchat
<1>5. QED
  BY <1>1, <1>2, <1>3, <1>4 DEF Next

LEMMA ClocksStep ==
  ASSUME Types, HooksFit, ClocksFit, [Next]_vars
  PROVE  ClocksFit'
<1>1. TypesStep
  BY StepTypes
<1>2. /\ now \in Nat /\ now' \in Nat
      /\ \A h \in Humans : lastSent[h] \in Nat /\ lastSent'[h] \in Nat
  BY <1>1, MessageFlowFits DEF TypesStep, Types, DataFits
<1>3. /\ Len(channel) \in Nat /\ DOMAIN channel = 1..Len(channel)
      /\ \A i \in 1..Len(channel) : channel[i] \in Post /\ channel[i].at \in Nat
      /\ \A m \in MatrixMessages : Author[m] \in Humans
  BY Lengths, MessageFlowFits DEF Types, Post
<1>4. ASSUME NEW m \in Messages, PostInChannel(m), UNCHANGED <<lastSent, now>>
      PROVE  ClocksFit'
  <2> DEFINE e == [msg |-> m, at |-> now, stored |-> FALSE]
  <2>1. /\ DOMAIN channel' = 1..Len(channel) + 1
        /\ \A i \in 1..Len(channel) : channel'[i] = channel[i]
        /\ channel'[Len(channel) + 1] = e
    BY <1>4, ChannelGrows DEF Types
  <2>2. e.at = now /\ ~e.stored
    OBVIOUS
  <2> HIDE DEF e
  <2>3. QED
    BY <1>2, <1>3, <1>4, <2>1, <2>2 DEF ClocksFit
<1>5. ASSUME NEW t \in TransactionThreads, ForwardToChannel(t)
      PROVE  ClocksFit'
  <2>1. Current(t) \in Messages
    BY <1>5, CurrentFits DEF ForwardToChannel, Messages
  <2>2. PostInChannel(Current(t)) /\ UNCHANGED <<lastSent, now>>
    BY <1>5 DEF ForwardToChannel
  <2>3. QED
    BY <1>4, <2>1, <2>2
<1>6. ASSUME NEW t \in TransactionThreads, Store(t)
      PROVE  ClocksFit'
  <2>1. /\ th[t] \in ThreadRecord /\ ThreadFits(th[t], room, channel)
        /\ Current(t) \in MatrixMessages
    BY <1>6, CurrentFits DEF Store
  <2>2. /\ lastSent' = [lastSent EXCEPT ![Author[Current(t)]] = now]
        /\ now' = now
        /\ channel' = [i \in DOMAIN channel |->
                         IF i = th[t].post THEN [channel[i] EXCEPT !.stored = TRUE] ELSE channel[i]]
    BY <1>6 DEF Store, Current
  <2>3. /\ DOMAIN channel' = 1..Len(channel)
        /\ \A i \in 1..Len(channel) : /\ channel'[i].msg = channel[i].msg
                                      /\ channel'[i].at = channel[i].at
                                      /\ i # th[t].post => channel'[i] = channel[i]
    BY <1>3, <2>1, <2>2, StoredPosts DEF Types, ThreadRecord
  <2>4. \A h \in Humans : /\ lastSent[h] <= lastSent'[h]
                          /\ lastSent'[h] <= now
                          /\ h = Author[Current(t)] => lastSent'[h] = now
    BY <1>2, <2>2 DEF ClocksFit, Types, DataFits
  <2>5. ASSUME NEW i \in 1..Len(channel), channel'[i].stored
        PROVE  /\ channel'[i].msg \in MatrixMessages
               /\ channel'[i].at <= lastSent'[Author[channel'[i].msg]]
    <3>1. CASE i = th[t].post
      <4>1. channel[i].msg = Current(t)
        BY <1>3, <2>1, <3>1 DEF ThreadFits, Current
      <4>2. channel[i].at <= now /\ lastSent'[Author[Current(t)]] = now
        BY <1>3, <2>1, <2>4 DEF ClocksFit
      <4>3. QED
        BY <2>1, <2>3, <4>1, <4>2
    <3>2. CASE i # th[t].post
      <4>1. channel'[i] = channel[i]
        BY <2>3, <3>2
      <4>2. /\ channel[i].msg \in MatrixMessages
            /\ channel[i].at <= lastSent[Author[channel[i].msg]]
        BY <1>3, <2>5, <4>1 DEF ClocksFit
      <4>3. Author[channel[i].msg] \in Humans
        BY <1>3, <4>2
      <4>4. QED
        BY <1>2, <1>3, <2>4, <4>1, <4>2, <4>3
    <3>3. QED
      BY <3>1, <3>2
  <2>6. QED
    BY <1>3, <2>2, <2>3, <2>4, <2>5 DEF ClocksFit
<1>7. CASE Tick
  BY <1>2, <1>3, <1>7 DEF Tick, ClocksFit, rocketchat
<1>8. CASE UNCHANGED <<channel, lastSent, now>>
  BY <1>8 DEF ClocksFit
<1>9. QED
  BY <1>4, <1>5, <1>6, <1>7, <1>8, ClockSteps

\* The steps that find a post sendable, send a part or touch a hook.
LEMMA CopySteps ==
  ASSUME [Next]_vars
  PROVE  \/ UNCHANGED <<copied, hook>> /\ (UNCHANGED faults \/ Fault)
         \/ \E t \in WebhookThreads, i \in webhooks : Webhook(t, i)
         \/ \E t \in WebhookThreads : SendToRoom(t) \/ SendNothing(t)
         \/ UNCHANGED copied /\ Fault
<1>1. ASSUME NEW m \in Messages, Write(m)
      PROVE  UNCHANGED <<copied, hook, faults>>
  BY <1>1 DEF Write, WriteInRoom, WriteInChannel
<1>2. ASSUME NEW t \in TransactionThreads, Transaction(t) \/ EventFails(t)
      PROVE  UNCHANGED <<copied, hook>> /\ (UNCHANGED faults \/ Fault)
  BY <1>2 DEF Transaction, Push, PushAgain, ForwardToChannel, ForwardNothing, RefuseFile, Store,
              Answer, EventFails
<1>3. ASSUME NEW t \in WebhookThreads, Hook(t) \/ WebhookFails(t)
      PROVE  \/ \E i \in webhooks : Webhook(t, i)
             \/ SendToRoom(t) \/ SendNothing(t)
             \/ UNCHANGED copied /\ Fault
  BY <1>3 DEF Hook, WebhookFails
<1>4. Crash => UNCHANGED copied /\ Fault
  BY DEF Crash
<1>5. Tick \/ UNCHANGED vars => UNCHANGED <<copied, hook, faults>>
  BY DEF Tick, vars
<1>6. QED
  BY <1>1, <1>2, <1>3, <1>4, <1>5 DEF Next

LEMMA EchoesStep ==
  ASSUME Types, HooksFit, ClocksFit, OnlyLateEchoes, [Next]_vars
  PROVE  OnlyLateEchoes'
<1>1. TypesStep
  BY StepTypes
<1>2. /\ Len(channel) \in Nat /\ DOMAIN channel = 1..Len(channel)
      /\ \A i \in 1..Len(channel) : channel[i] \in Post
  BY Lengths DEF Types
<1>3. \A c \in copied : channel'[c.post].msg = channel[c.post].msg
  BY <1>1, <1>2 DEF TypesStep, Grows, Types, DataFits
<1>4. CASE UNCHANGED copied
  BY <1>3, <1>4 DEF OnlyLateEchoes
<1>5. ASSUME NEW t \in WebhookThreads, NEW i \in webhooks, Webhook(t, i), copied' # copied
      PROVE  OnlyLateEchoes'
  <2> DEFINE c == [post |-> i, stored |-> channel[i].stored, age |-> now - channel[i].at]
  <2>1. Sendable(channel[i].msg) /\ copied' = copied \cup {c} /\ channel' = channel
    BY <1>5 DEF Webhook
  <2>2. i \in 1..Len(channel)
    BY <1>2 DEF Types, DataFits
  <2>3. channel[i].stored => now - channel[i].at > Threshold
    <3>1. SUFFICES ASSUME channel[i].stored
                   PROVE  now - channel[i].at > Threshold
      OBVIOUS
    <3>2. /\ channel[i].msg \in MatrixMessages
          /\ channel[i].at <= lastSent[Author[channel[i].msg]]
      BY <1>2, <2>2, <3>1 DEF ClocksFit
    <3>3. Author[channel[i].msg] \in Humans /\ Author[channel[i].msg] # None
      BY <3>2, MessageFlowFits
    <3>4. /\ now \in Nat /\ channel[i].at \in Nat /\ Threshold \in Nat
          /\ lastSent[Author[channel[i].msg]] \in Nat
      BY <1>2, <2>2, <3>3, MessageFlowFits DEF Types, DataFits, Post
    <3>5. now - lastSent[Author[channel[i].msg]] > Threshold
      BY <2>1, <3>3 DEF Sendable
    <3>6. QED
      BY <3>2, <3>4, <3>5
  <2>4. c.post = i /\ c.stored = channel[i].stored /\ c.age = now - channel[i].at
    OBVIOUS
  <2>5. channel[c.post].msg \in RcMessages \/ ~c.stored \/ c.age > Threshold
    BY <2>3, <2>4
  <2> HIDE DEF c
  <2>6. QED
    BY <2>1, <2>5 DEF OnlyLateEchoes
<1>6. QED
  BY <1>4, <1>5, CopySteps DEF SendToRoom, SendNothing

LEMMA RoomSteps ==
  ASSUME [Next]_vars
  PROVE  \/ UNCHANGED room
         \/ \E m \in Messages : WriteInRoom(m)
         \/ \E t \in WebhookThreads : SendToRoom(t)
<1>1. ASSUME NEW m \in Messages, Write(m)
      PROVE  UNCHANGED room \/ WriteInRoom(m)
  BY <1>1 DEF Write, WriteInChannel, matrix
<1>2. ASSUME NEW t \in TransactionThreads, Transaction(t) \/ EventFails(t)
      PROVE  UNCHANGED room
  BY <1>2 DEF Transaction, Push, PushAgain, ForwardToChannel, ForwardNothing, RefuseFile, Store,
              Answer, EventFails, matrix
<1>3. ASSUME NEW t \in WebhookThreads, Hook(t) \/ WebhookFails(t)
      PROVE  UNCHANGED room \/ SendToRoom(t)
  BY <1>3 DEF Hook, Webhook, SendNothing, WebhookFails, matrix
<1>4. Tick \/ Crash \/ UNCHANGED vars => UNCHANGED room
  BY DEF Tick, Crash, vars, matrix
<1>5. QED
  BY <1>1, <1>2, <1>3, <1>4 DEF Next

LEMMA NoGapStep ==
  ASSUME Types, HooksFit, ClocksFit, NoGap(room), [Next]_vars
  PROVE  NoGap(room')
<1>1. Len(room) \in Nat /\ \A i \in 1..Len(room) : room[i] \in Entry /\ room[i].part \in Nat
  BY Lengths DEF Types, Entry
\* An entry that follows the part before it.
<1>2. ASSUME NEW e \in Entry, room' = Append(room, e),
             e.part > 1 =>
               \E j \in 1..Len(room) :
                 room[j] = [msg |-> e.msg, sender |-> None, part |-> e.part - 1]
      PROVE  NoGap(room')
  <2>1. /\ Len(room') = Len(room) + 1
        /\ \A i \in 1..Len(room) : room'[i] = room[i]
        /\ room'[Len(room) + 1] = e
    BY <1>2, RoomGrows DEF Types
  <2>2. ASSUME NEW i \in 1..Len(room'), room'[i].part > 1
        PROVE  \E j \in 1..i - 1 :
                 room'[j] = [msg |-> room'[i].msg, sender |-> None, part |-> room'[i].part - 1]
    <3>1. CASE i = Len(room) + 1
      BY <1>1, <1>2, <2>1, <2>2, <3>1
    <3>2. CASE i \in 1..Len(room)
      <4>1. PICK j \in 1..i - 1 :
              room[j] = [msg |-> room[i].msg, sender |-> None, part |-> room[i].part - 1]
        BY <2>1, <2>2, <3>2 DEF NoGap
      <4>2. j \in 1..Len(room)
        BY <1>1, <3>2
      <4>3. room'[j] = room[j] /\ room'[i] = room[i]
        BY <2>1, <3>2, <4>2
      <4>4. QED
        BY <4>1, <4>3
    <3>3. QED
      BY <1>1, <2>1, <3>1, <3>2
  <2>3. QED
    BY <2>2 DEF NoGap
<1>3. ASSUME NEW m \in Messages, WriteInRoom(m)
      PROVE  NoGap(room')
  <2> DEFINE e == [msg |-> m, sender |-> Author[m], part |-> 0]
  <2>1. room' = Append(room, e) /\ m \in MatrixMessages
    BY <1>3 DEF WriteInRoom
  <2>2. e \in Entry
    BY <2>1, MessageFlowFits DEF Entry
  <2>3. ~(e.part > 1)
    OBVIOUS
  <2> HIDE DEF e
  <2>4. QED
    BY <1>2, <2>1, <2>2, <2>3
<1>4. ASSUME NEW t \in WebhookThreads, SendToRoom(t)
      PROVE  NoGap(room')
  <2> DEFINE m == channel[hook[t].post].msg
             e == [msg |-> m, sender |-> None, part |-> hook[t].part]
  <2>1. room' = Append(room, e) /\ hook[t].post # 0
    BY <1>4 DEF SendToRoom
  <2>2. HookFits(hook[t], room, channel)
    BY DEF HooksFit
  <2>3. /\ hook[t].part \in Nat \ {0}
        /\ \A p \in 1..hook[t].part - 1 : HasPart(room, m, p)
    BY <2>1, <2>2 DEF HookFits
  <2>4. m \in Messages
    <3>1. hook[t].post \in 1..Len(channel)
      BY <2>1, <2>2, Lengths DEF HookFits, Types
    <3>2. channel[hook[t].post] \in Post
      BY <3>1, Lengths DEF Types
    <3>3. QED
      BY <3>2 DEF Post
  <2>5. e \in Entry
    BY <2>3, <2>4, EntryOfCopy
  <2>6. e.msg = m /\ e.part = hook[t].part
    OBVIOUS
  <2>7. e.part > 1 => HasPart(room, e.msg, e.part - 1)
    <3> HIDE DEF e, m
    <3>1. QED
      BY <2>3, <2>6
  <2> HIDE DEF e, m
  <2>8. QED
    BY <1>2, <2>1, <2>5, <2>7 DEF HasPart
<1>5. CASE UNCHANGED room
  BY <1>5
<1>6. QED
  BY <1>3, <1>4, <1>5, RoomSteps

LEMMA CopiesStep ==
  ASSUME Types, HooksFit, ClocksFit, CopiesFit, [Next]_vars
  PROVE  CopiesFit'
<1> DEFINE Complete(c) ==
             \A p \in 1..Parts[channel[c.post].msg] : HasPart(room, channel[c.post].msg, p)
           Done(c) == (\E t \in WebhookThreads : hook[t].post = c.post) \/ Complete(c)
<1>1. TypesStep /\ NoGap(room')
  BY StepTypes, NoGapStep DEF CopiesFit
<1>2. DataFits /\ DataFits' /\ Grows
  BY <1>1 DEF TypesStep, Types
<1>3. faults \in Nat /\ Len(channel) \in Nat /\ DOMAIN channel = 1..Len(channel)
  BY Lengths, MessageFlowFits DEF Types, DataFits
<1>4. \A c \in copied : channel'[c.post].msg = channel[c.post].msg
  BY <1>2, <1>3 DEF Grows, DataFits
\* Parts stay in the room.
<1>5. ASSUME NEW c \in copied, Complete(c)
      PROVE  \A p \in 1..Parts[channel'[c.post].msg] : HasPart(room', channel'[c.post].msg, p)
  BY <1>2, <1>4, <1>5, PartStays
<1>6. faults = 0 => \A c \in copied : Done(c)
  BY DEF CopiesFit
<1> HIDE DEF Complete
<1>7. CASE UNCHANGED <<copied, hook>> /\ (UNCHANGED faults \/ Fault)
  <2>1. faults' = 0 => faults = 0
    BY <1>3, <1>7 DEF Fault
  <2>2. QED
    BY <1>1, <1>5, <1>6, <1>7, <2>1 DEF CopiesFit
<1>8. ASSUME NEW t \in WebhookThreads, NEW i \in webhooks, Webhook(t, i)
      PROVE  CopiesFit'
  <2>1. /\ hook[t] = NoHook /\ faults' = faults
        /\ \/ /\ hook' = [hook EXCEPT ![t] = [post |-> i, part |-> 1]]
              /\ copied' = copied \cup
                   {[post |-> i, stored |-> channel[i].stored, age |-> now - channel[i].at]}
           \/ UNCHANGED <<hook, copied>>
    BY <1>8 DEF Webhook
  <2>2. CASE UNCHANGED <<hook, copied>>
    BY <1>1, <1>5, <1>6, <2>1, <2>2 DEF CopiesFit
  <2>3. CASE ~UNCHANGED <<hook, copied>>
    <3>1. hook'[t].post = i /\ \A u \in WebhookThreads : u # t => hook'[u] = hook[u]
      BY <2>1, <2>3 DEF HooksFit
    <3>2. i # 0
      BY <1>3 DEF Types, DataFits
    <3>3. ASSUME NEW c \in copied, NEW u \in WebhookThreads, hook[u].post = c.post
          PROVE  \E v \in WebhookThreads : hook'[v].post = c.post
      <4>1. c.post # 0
        BY <1>2, <1>3 DEF DataFits
      <4>2. u # t
        BY <2>1, <3>3, <4>1 DEF NoHook
      <4>3. QED
        BY <3>1, <3>3, <4>2
    <3>4. \A c \in copied' : c \in copied \/ c.post = i
      BY <2>1, <2>3
    <3>5. QED
      BY <1>1, <1>5, <1>6, <2>1, <3>1, <3>3, <3>4 DEF CopiesFit
  <2>4. QED
    BY <2>2, <2>3
<1>9. ASSUME NEW t \in WebhookThreads, SendToRoom(t)
      PROVE  CopiesFit'
  <2>1. UNCHANGED <<copied, channel, faults>>
    BY <1>9 DEF SendToRoom, rocketchat
  <2>2. /\ hook[t].part \in 1..Parts[channel[hook[t].post].msg]
        /\ \A p \in 1..hook[t].part : HasPart(room', channel[hook[t].post].msg, p)
        /\ \A u \in WebhookThreads : u # t => hook'[u] = hook[u]
        /\ \/ hook'[t].post = hook[t].post
           \/ hook[t].part = Parts[channel[hook[t].post].msg]
    BY <1>9, SendTypes
  <2>3. ASSUME NEW c \in copied, NEW u \in WebhookThreads, hook[u].post = c.post
        PROVE  \/ \E v \in WebhookThreads : hook'[v].post = c.post
               \/ \A p \in 1..Parts[channel[c.post].msg] : HasPart(room', channel[c.post].msg, p)
    <3>1. CASE u # t
      BY <2>2, <2>3, <3>1
    <3>2. CASE u = t
      BY <2>2, <2>3, <3>2
    <3>3. QED
      BY <3>1, <3>2
  <2>4. QED
    BY <1>1, <1>5, <1>6, <2>1, <2>3 DEF CopiesFit
<1>10. ASSUME NEW t \in WebhookThreads, SendNothing(t)
       PROVE  CopiesFit'
  <2>1. /\ hook' = [hook EXCEPT ![t] = NoHook]
        /\ Parts[channel[hook[t].post].msg] = 0
        /\ UNCHANGED <<copied, channel, faults, room>>
    BY <1>10 DEF SendNothing, rocketchat, matrix
  <2>2. \A u \in WebhookThreads : u # t => hook'[u] = hook[u]
    BY <2>1 DEF HooksFit
  <2>3. ASSUME NEW c \in copied, NEW u \in WebhookThreads, hook[u].post = c.post
        PROVE  \/ \E v \in WebhookThreads : hook'[v].post = c.post
               \/ \A p \in 1..Parts[channel[c.post].msg] : HasPart(room', channel[c.post].msg, p)
    <3>1. CASE u # t
      BY <2>2, <2>3, <3>1
    <3>2. CASE u = t
      <4>1. Parts[channel[c.post].msg] = 0
        BY <2>1, <2>3, <3>2
      <4>2. QED
        BY <4>1
    <3>3. QED
      BY <3>1, <3>2
  <2>4. QED
    BY <1>1, <1>5, <1>6, <2>1, <2>3 DEF CopiesFit
<1>11. CASE UNCHANGED copied /\ Fault
  <2>1. faults' # 0
    BY <1>3, <1>11 DEF Fault
  <2>2. QED
    BY <1>1, <2>1 DEF CopiesFit
<1>12. QED
  BY <1>7, <1>8, <1>9, <1>10, <1>11, CopySteps

-----------------------------------------------------------------------------
(***************************************************************************)
(* The order of the messages of the room                                   *)
(***************************************************************************)

\* The steps that post something,
LEMMA ChannelSteps ==
  ASSUME [Next]_vars
  PROVE  \/ UNCHANGED channel
         \/ \E m \in RcMessages : WriteInChannel(m) /\ PostInChannel(m)
         \/ \E t \in TransactionThreads : ForwardToChannel(t) \/ Store(t)
<1>1. ASSUME NEW m \in Messages, Write(m)
      PROVE  \/ UNCHANGED channel
             \/ m \in RcMessages /\ WriteInChannel(m) /\ PostInChannel(m)
  BY <1>1 DEF Write, WriteInRoom, WriteInChannel, rocketchat
<1>2. ASSUME NEW t \in TransactionThreads, Transaction(t) \/ EventFails(t)
      PROVE  UNCHANGED channel \/ ForwardToChannel(t) \/ Store(t)
  BY <1>2 DEF Transaction, Push, PushAgain, ForwardNothing, RefuseFile, Answer, EventFails, rocketchat
<1>3. ASSUME NEW t \in WebhookThreads, Hook(t) \/ WebhookFails(t)
      PROVE  UNCHANGED channel
  BY <1>3 DEF Hook, Webhook, SendToRoom, SendNothing, WebhookFails, rocketchat
<1>4. Tick \/ Crash \/ UNCHANGED vars => UNCHANGED channel
  BY DEF Tick, Crash, vars, rocketchat
<1>5. QED
  BY <1>1, <1>2, <1>3, <1>4 DEF Next

\* and those of the transactions.
LEMMA TransactionSteps ==
  ASSUME [Next]_vars
  PROVE  \/ UNCHANGED <<pushed, open, th, repeats>> /\ (UNCHANGED faults \/ Fault)
         \/ \E t \in TransactionThreads : Transaction(t) \/ EventFails(t)
         \/ Crash
<1>1. ASSUME NEW m \in Messages, Write(m)
      PROVE  UNCHANGED <<pushed, open, th, repeats, faults>>
  BY <1>1 DEF Write, WriteInRoom, WriteInChannel, matrix
<1>2. ASSUME NEW t \in WebhookThreads, Hook(t) \/ WebhookFails(t)
      PROVE  UNCHANGED <<pushed, open, th, repeats>> /\ (UNCHANGED faults \/ Fault)
  BY <1>2 DEF Hook, Webhook, SendToRoom, SendNothing, WebhookFails, matrix
<1>3. Tick \/ UNCHANGED vars => UNCHANGED <<pushed, open, th, repeats, faults>>
  BY DEF Tick, vars, matrix
<1>4. QED
  BY <1>1, <1>2, <1>3 DEF Next

\* What a human writes is new.
NewEntry ==
  \A k \in 1..Len(room') :
    ByHuman(room', k) /\ k \notin 1..Len(room) =>
      /\ k = Len(room) + 1
      /\ \A l \in 1..Len(room) : room[l].msg # room'[k].msg

LEMMA EntryIsNew ==
  ASSUME Types, [Next]_vars
  PROVE  NewEntry
<1>1. Len(room) \in Nat /\ DOMAIN room = 1..Len(room)
  BY Lengths DEF Types
<1>2. CASE UNCHANGED room
  BY <1>2 DEF NewEntry
<1>3. ASSUME NEW m \in Messages, WriteInRoom(m)
      PROVE  NewEntry
  <2> DEFINE e == [msg |-> m, sender |-> Author[m], part |-> 0]
  <2>1. room' = Append(room, e) /\ m \in MatrixMessages /\ m \notin Written(room)
    BY <1>3 DEF WriteInRoom
  <2>2. e \in Entry
    BY <2>1, MessageFlowFits DEF Entry
  <2>3. e.msg = m
    OBVIOUS
  <2> HIDE DEF e
  <2>4. Len(room') = Len(room) + 1 /\ room'[Len(room) + 1] = e
    BY <2>1, <2>2, RoomGrows DEF Types
  <2>5. \A l \in 1..Len(room) : room[l].msg # m
    BY <1>1, <2>1 DEF Written
  <2>6. QED
    BY <1>1, <2>3, <2>4, <2>5 DEF NewEntry
<1>4. ASSUME NEW t \in WebhookThreads, SendToRoom(t)
      PROVE  NewEntry
  <2> DEFINE m == channel[hook[t].post].msg
             e == [msg |-> m, sender |-> None, part |-> hook[t].part]
  <2>1. room' = Append(room, e)
    BY <1>4 DEF SendToRoom
  <2>2. room \in Seq(Entry)
    BY DEF Types, DataFits
  <2>3. e.sender = None
    OBVIOUS
  <2> HIDE DEF e
  <2>4. Len(room') = Len(room) + 1 /\ room'[Len(room) + 1] = e
    BY <2>1, <2>2
  <2>5. QED
    BY <1>1, <2>3, <2>4 DEF NewEntry, ByHuman
<1>5. QED
  BY <1>2, <1>3, <1>4, RoomSteps

\* A message of the room and its post are both there before the step.
NoNewMatch ==
  \A i \in 1..Len(channel'), k \in 1..Len(room') :
    ByHuman(room', k) /\ channel'[i].msg = room'[k].msg =>
      /\ i \in 1..Len(channel) /\ channel[i].msg = channel'[i].msg
      /\ k \in 1..Len(room) /\ room[k] = room'[k]

\* The post of a step that forwards an event of the room.
ForwardsCurrent(t) ==
  /\ Len(channel') = Len(channel) + 1
  /\ channel'[Len(channel) + 1].msg = Current(t)
  /\ UNCHANGED room

LEMMA ForwardPosts ==
  ASSUME Types, NEW t \in TransactionThreads, ForwardToChannel(t)
  PROVE  ForwardsCurrent(t)
<1>1. PostInChannel(Current(t)) /\ UNCHANGED room
  BY DEF ForwardToChannel, matrix
<1>2. Current(t) \in Messages
  BY CurrentFits DEF ForwardToChannel, Messages
<1>3. /\ Len(channel') = Len(channel) + 1
      /\ channel'[Len(channel) + 1] = [msg |-> Current(t), at |-> now, stored |-> FALSE]
  BY <1>1, <1>2, ChannelGrows, Zenon DEF Types
<1>4. QED
  BY <1>1, <1>3 DEF ForwardsCurrent

\* What was written in the channel is in the channel only.
LEMMA NothingElsePosted ==
  ASSUME Types, TypesStep, WrittenOnce, [Next]_vars
  PROVE  \/ NoNewMatch
         \/ \E t \in TransactionThreads : ForwardToChannel(t)
<1>1. NewEntry /\ Grows
  BY EntryIsNew DEF TypesStep
<1>2. /\ Len(room) \in Nat /\ Len(room') \in Nat /\ Len(channel) \in Nat /\ Len(channel') \in Nat
      /\ \A k \in 1..Len(room') : ByHuman(room', k) => room'[k].msg \in MatrixMessages
  <2>1. DataFits /\ DataFits'
    BY DEF Types, TypesStep
  <2>2. Len(room) \in Nat /\ Len(room') \in Nat /\ Len(channel) \in Nat /\ Len(channel') \in Nat
    BY <2>1, Lengths DEF DataFits
  <2>3. FromHumans' = {k \in 1..Len(room') : ByHuman(room', k)}
    BY <2>1 DEF FromHumans, ByHuman, DataFits
  <2>4. \A k \in FromHumans' : room'[k].msg \in MatrixMessages
    BY <2>1 DEF DataFits
  <2>5. QED
    BY <2>2, <2>3, <2>4
\* A post that was there: its message was written before.
<1>3. ASSUME NEW i \in 1..Len(channel), NEW k \in 1..Len(room'),
             ByHuman(room', k), channel'[i].msg = room'[k].msg
      PROVE  k \in 1..Len(room)
  <2>1. channel[i].msg = room'[k].msg /\ channel[i].msg \in MatrixMessages
    BY <1>1, <1>2, <1>3 DEF Grows
  <2>2. PICK l \in 1..Len(room) : room[l].msg = channel[i].msg
    BY <2>1 DEF WrittenOnce
  <2>3. QED
    BY <1>1, <1>3, <2>1, <2>2 DEF NewEntry
<1>4. ASSUME Len(channel') = Len(channel)
      PROVE  NoNewMatch
  BY <1>1, <1>2, <1>3, <1>4 DEF NoNewMatch, Grows
<1>5. ASSUME NEW m \in RcMessages, PostInChannel(m)
      PROVE  NoNewMatch
  <2>1. m \in Messages /\ m \notin MatrixMessages
    BY MessageFlowFits DEF Messages
  <2>2. /\ Len(channel') = Len(channel) + 1
        /\ channel'[Len(channel) + 1] = [msg |-> m, at |-> now, stored |-> FALSE]
    BY <1>5, <2>1, ChannelGrows, Zenon DEF Types
  <2>3. channel'[Len(channel) + 1].msg = m
    BY <2>2
  <2>4. \A i \in 1..Len(channel'), k \in 1..Len(room') :
          ByHuman(room', k) /\ channel'[i].msg = room'[k].msg => i \in 1..Len(channel)
    BY <1>2, <2>1, <2>2, <2>3
  <2>5. QED
    BY <1>1, <1>2, <1>3, <2>4 DEF NoNewMatch, Grows
<1>6. ASSUME NEW t \in TransactionThreads, Store(t)
      PROVE  Len(channel') = Len(channel)
  <2>1. th[t].post \in Nat
    BY <1>6, CurrentFits DEF Store, ThreadRecord
  <2>2. channel' = [i \in DOMAIN channel |->
                     IF i = th[t].post THEN [channel[i] EXCEPT !.stored = TRUE] ELSE channel[i]]
    BY <1>6 DEF Store
  <2>3. QED
    BY <2>1, <2>2, StoredPosts DEF Types
<1>7. QED
  BY <1>4, <1>5, <1>6, ChannelSteps

LEMMA WrittenOnceStep ==
  ASSUME Types, TypesStep, WrittenOnce, [Next]_vars
  PROVE  WrittenOnce'
<1>1. NewEntry /\ Grows
  BY EntryIsNew DEF TypesStep
<1>2. Len(room) \in Nat /\ Len(room') \in Nat /\ Len(channel) \in Nat /\ Len(channel') \in Nat
  BY Lengths DEF Types, TypesStep, DataFits
<1>3. \A k \in 1..Len(room) : ByHuman(room', k) <=> ByHuman(room, k)
  BY <1>1 DEF Grows, ByHuman
<1>4. ASSUME NEW k \in 1..Len(room'), NEW l \in 1..Len(room'),
             ByHuman(room', k), ByHuman(room', l), room'[k].msg = room'[l].msg
      PROVE  k = l
  <2>1. CASE k \in 1..Len(room) /\ l \in 1..Len(room)
    BY <1>1, <1>3, <1>4, <2>1 DEF WrittenOnce, Grows
  <2>2. CASE k \notin 1..Len(room) /\ l \in 1..Len(room)
    BY <1>1, <1>4, <2>2 DEF NewEntry, Grows
  <2>3. CASE k \in 1..Len(room) /\ l \notin 1..Len(room)
    BY <1>1, <1>4, <2>3 DEF NewEntry, Grows
  <2>4. CASE k \notin 1..Len(room) /\ l \notin 1..Len(room)
    BY <1>1, <1>4, <2>4 DEF NewEntry
  <2>5. QED
    BY <2>1, <2>2, <2>3, <2>4
\* A post of the room that was there or is of the current event.
<1>5. ASSUME NEW i \in 1..Len(channel), channel'[i].msg \in MatrixMessages
      PROVE  \E k \in 1..Len(room') : ByHuman(room', k) /\ room'[k].msg = channel'[i].msg
  <2>1. PICK k \in 1..Len(room) : ByHuman(room, k) /\ room[k].msg = channel[i].msg
    BY <1>1, <1>5 DEF WrittenOnce, Grows
  <2>2. k \in 1..Len(room')
    BY <1>1, <1>2 DEF Grows
  <2>3. QED
    BY <1>1, <1>3, <2>1, <2>2 DEF Grows
<1>6. ASSUME NEW i \in 1..Len(channel'), i \notin 1..Len(channel), channel'[i].msg \in MatrixMessages
      PROVE  \E k \in 1..Len(room') : ByHuman(room', k) /\ room'[k].msg = channel'[i].msg
  <2>1. ASSUME NEW m \in RcMessages, PostInChannel(m)
        PROVE  FALSE
    <3>1. m \in Messages /\ m \notin MatrixMessages
      BY MessageFlowFits DEF Messages
    <3>2. /\ Len(channel') = Len(channel) + 1
          /\ channel'[Len(channel) + 1] = [msg |-> m, at |-> now, stored |-> FALSE]
      BY <2>1, <3>1, ChannelGrows, Zenon DEF Types
    <3>3. QED
      BY <1>2, <1>6, <3>1, <3>2
  <2>2. ASSUME NEW t \in TransactionThreads, ForwardToChannel(t)
        PROVE  \E k \in 1..Len(room') : ByHuman(room', k) /\ room'[k].msg = channel'[i].msg
    <3>1. ForwardsCurrent(t) /\ th[t].next \in FromHumans
      BY <2>2, ForwardPosts, CurrentFits DEF ForwardToChannel
    <3>2. th[t].next \in 1..Len(room) /\ ByHuman(room, th[t].next)
      BY <3>1, Lengths DEF Types, FromHumans, ByHuman
    <3>3. i = Len(channel) + 1
      BY <1>2, <1>6, <3>1 DEF ForwardsCurrent
    <3>4. QED
      BY <3>1, <3>2, <3>3 DEF ForwardsCurrent, Current, ByHuman
  <2>3. ASSUME NEW t \in TransactionThreads, Store(t)
        PROVE  FALSE
    <3>1. th[t].post \in Nat
      BY <2>3, CurrentFits DEF Store, ThreadRecord
    <3>2. channel' = [j \in DOMAIN channel |->
                       IF j = th[t].post THEN [channel[j] EXCEPT !.stored = TRUE] ELSE channel[j]]
      BY <2>3 DEF Store
    <3>3. Len(channel') = Len(channel)
      BY <3>1, <3>2, StoredPosts DEF Types
    <3>4. QED
      BY <1>6, <3>3
  <2>4. QED
    BY <1>6, <2>1, <2>2, <2>3, ChannelSteps
<1>7. QED
  BY <1>4, <1>5, <1>6 DEF WrittenOnce

LEMMA ReachedFits ==
  ASSUME Types
  PROVE  Reached \in 0..Len(room)
<1>1. pushed \in 0..Len(room) /\ Len(room) \in Nat
  BY Lengths DEF Types, DataFits
<1>2. CASE open = NoTransaction
  BY <1>1, <1>2 DEF Reached
<1>3. CASE open # NoTransaction
  <2> DEFINE s == th[open.thread]
  <2>1. open.last \in pushed + 1..Len(room) /\ open.thread \in TransactionThreads
    BY <1>3 DEF Types, OpenFits
  <2>2. s \in ThreadRecord /\ ThreadFits(s, room, channel)
    BY <2>1 DEF Types, ThreadsFit
  <2>3. Reached = CASE s.pc = "idle" -> open.last
                    [] s.pc = "handle" -> s.next - 1
                    [] s.pc = "store" -> s.next
    BY <1>3 DEF Reached
  <2>4. s.pc \in {"idle", "handle", "store"} /\ s.next \in Nat /\ s.last \in Nat
    BY <2>2 DEF ThreadRecord
  <2>5. /\ s.last <= Len(room)
        /\ s.pc # "idle" => 1 <= s.next /\ s.next <= s.last + 1
        /\ s.pc = "store" => s.next <= s.last
    BY <2>2 DEF ThreadFits
  <2> HIDE DEF s
  <2>6. CASE s.pc = "idle"
    BY <1>1, <2>1, <2>3, <2>6
  <2>7. CASE s.pc = "handle"
    <3>1. Reached = s.next - 1
      BY <2>3, <2>7
    <3>2. QED
      BY <1>1, <2>4, <2>5, <2>7, <3>1
  <2>8. CASE s.pc = "store"
    <3>1. Reached = s.next
      BY <2>3, <2>8
    <3>2. QED
      BY <1>1, <2>4, <2>5, <2>8, <3>1
  <2>9. QED
    BY <2>4, <2>6, <2>7, <2>8
<1>4. QED
  BY <1>2, <1>3

LEMMA ReachedInRoom ==
  Types => Reached \in 0..Len(room)
BY ReachedFits

LEMMA ReachedFitsNext ==
  Types' => (Reached \in 0..Len(room))'
BY ReachedInRoom, PTL

\* An entry that need not be posted.
Skipped(k) ==
  ByHuman(room, k) => \/ room[k].msg \in Notices
                      \/ \E j \in 1..k : room[j].msg \in Untyped

\* A step that reaches only what need not be posted.
OrderKept ==
  /\ repeats' = 0 => repeats = 0 /\ OneThread' /\ Reached <= Reached'
  /\ faults' = 0 => /\ faults = 0 /\ repeats' = 0
                    /\ Busy'
                    /\ \A k \in Reached + 1..Reached' : k <= Len(room) /\ Skipped(k)

\* If nothing of the room is posted either, the order stays what it was.
LEMMA OrderStays ==
  ASSUME Types, TypesStep, OrderFits, WrittenOnce', NoNewMatch, OrderKept
  PROVE  OrderFits'
<1>1. Reached \in 0..Len(room) /\ Reached' \in 0..Len(room')
  BY ReachedFits, ReachedFitsNext DEF TypesStep
<1>2. /\ Len(room) \in Nat /\ Len(room') \in Nat /\ Len(channel) \in Nat /\ Len(channel') \in Nat
      /\ Grows
  BY Lengths DEF Types, TypesStep, DataFits
<1>3. repeats' = 0 => NonePosted(Reached', room', channel')
  <2>1. SUFFICES ASSUME repeats' = 0
                 PROVE  NonePosted(Reached', room', channel')
    OBVIOUS
  <2>2. NonePosted(Reached, room, channel) /\ Reached <= Reached'
    BY <2>1 DEF OrderFits, OrderKept
  <2>3. ASSUME NEW i \in 1..Len(channel'), NEW k \in 1..Len(room'),
               ByHuman(room', k), channel'[i].msg = room'[k].msg
        PROVE  k <= Reached'
    <3>1. /\ i \in 1..Len(channel) /\ channel[i].msg = channel'[i].msg
          /\ k \in 1..Len(room) /\ room[k] = room'[k]
      BY <2>3 DEF NoNewMatch
    <3>2. k <= Reached
      BY <2>2, <2>3, <3>1 DEF NonePosted, ByHuman
    <3>3. QED
      BY <1>1, <1>2, <2>2, <3>2
  <2>4. QED
    BY <2>3 DEF NonePosted
<1>4. repeats' = 0 => Ordered(room', channel')
  <2>1. SUFFICES ASSUME repeats' = 0
                 PROVE  Ordered(room', channel')
    OBVIOUS
  <2>2. Ordered(room, channel)
    BY <2>1 DEF OrderFits, OrderKept
  <2>3. ASSUME NEW i \in 1..Len(channel'), NEW j \in 1..Len(channel'),
               NEW k \in 1..Len(room'), NEW l \in 1..Len(room'), i < j,
               ByHuman(room', k), channel'[i].msg = room'[k].msg,
               ByHuman(room', l), channel'[j].msg = room'[l].msg
        PROVE  k < l
    <3>1. /\ i \in 1..Len(channel) /\ channel[i].msg = channel'[i].msg
          /\ k \in 1..Len(room) /\ room[k] = room'[k]
      BY <2>3 DEF NoNewMatch
    <3>2. /\ j \in 1..Len(channel) /\ channel[j].msg = channel'[j].msg
          /\ l \in 1..Len(room) /\ room[l] = room'[l]
      BY <2>3 DEF NoNewMatch
    <3>3. ByHuman(room, k) /\ ByHuman(room, l)
      BY <2>3, <3>1, <3>2 DEF ByHuman
    <3>4. QED
      BY <2>2, <2>3, <3>1, <3>2, <3>3 DEF Ordered
  <2>4. QED
    BY <2>3 DEF Ordered
<1>5. faults' = 0 => AllPosted(Reached', room', channel')
  <2>1. SUFFICES ASSUME faults' = 0, NEW k \in 1..Reached', ByHuman(room', k)
                 PROVE  \/ room'[k].msg \in Notices
                        \/ \E j \in 1..k : room'[j].msg \in Untyped
                        \/ \E i \in 1..Len(channel') : channel'[i].msg = room'[k].msg
    BY DEF AllPosted
  <2>2. k \in 1..Len(room)
    <3>1. k \in Nat /\ 1 <= k /\ k <= Reached'
      BY <1>1, <1>2
    <3>2. k <= Reached \/ k \in Reached + 1..Reached'
      BY <1>1, <1>2, <3>1
    <3>3. k <= Len(room)
      BY <1>1, <1>2, <2>1, <3>1, <3>2 DEF OrderKept
    <3>4. QED
      BY <1>2, <3>1, <3>3
  <2>3. ByHuman(room, k) /\ \A j \in 1..k : room'[j] = room[j]
    BY <1>2, <2>1, <2>2 DEF Grows, ByHuman
  <2>4. CASE k <= Reached
    <3>1. AllPosted(Reached, room, channel)
      BY <2>1 DEF OrderFits, OrderKept
    <3>2. \/ room[k].msg \in Notices
          \/ \E j \in 1..k : room[j].msg \in Untyped
          \/ \E i \in 1..Len(channel) : channel[i].msg = room[k].msg
      BY <1>1, <2>2, <2>3, <2>4, <3>1 DEF AllPosted
    <3>3. \A i \in 1..Len(channel) : i \in 1..Len(channel') /\ channel'[i].msg = channel[i].msg
      BY <1>2 DEF Grows
    <3>4. QED
      BY <2>2, <2>3, <3>2, <3>3
  <2>5. CASE ~(k <= Reached)
    <3>1. k \in Reached + 1..Reached'
      BY <1>1, <1>2, <2>1, <2>5
    <3>2. Skipped(k)
      BY <2>1, <3>1 DEF OrderKept
    <3>3. QED
      BY <2>2, <2>3, <3>2 DEF Skipped
  <2>6. QED
    BY <2>4, <2>5
<1>6. QED
  BY <1>3, <1>4, <1>5 DEF OrderFits, OrderKept

\* In the thread of the open transaction, Reached is what the thread has reached.
LEMMA ReachedByThread ==
  ASSUME NEW t, open # NoTransaction, open.thread = t
  PROVE  /\ th[t].pc = "idle" => Reached = open.last
         /\ th[t].pc = "handle" => Reached = th[t].next - 1
         /\ th[t].pc = "store" => Reached = th[t].next
BY DEF Reached

\* A busy thread has the open transaction unless one was pushed again.
LEMMA BusyThread ==
  ASSUME Types, OneThread, NEW t \in TransactionThreads, th[t].pc # "idle"
  PROVE  /\ open # NoTransaction /\ open.thread = t /\ th[t].last = open.last
         /\ pushed < th[t].next
         /\ \A u \in TransactionThreads : u # t => th[u].pc = "idle"
<1>1. open.thread = t /\ \A u \in TransactionThreads : u # t => th[u].pc = "idle"
  BY DEF OneThread
<1>2. open # NoTransaction
  BY <1>1, MessageFlowFits DEF NoTransaction
<1>3. QED
  BY <1>1, <1>2 DEF OneThread

LEMMA FaultCounts ==
  ASSUME Types
  PROVE  /\ faults \in Nat /\ repeats \in Nat
         /\ Fault => faults' # 0
         /\ faults' = 0 /\ (UNCHANGED faults \/ Fault) => faults = 0
BY MessageFlowFits DEF Types, DataFits, Fault

\* What is written, the channel, webhooks and time leave the transactions alone.
LEMMA OthersKeepOrder ==
  ASSUME Types, OrderFits, UNCHANGED <<pushed, open, th, repeats>>, UNCHANGED faults \/ Fault
  PROVE  OrderKept
<1>1. Reached' = Reached /\ (OneThread' <=> OneThread) /\ (Busy' <=> Busy)
  BY DEF Reached, OneThread, Busy
<1>2. Reached \in Nat
  BY ReachedFits, Lengths DEF Types
<1>3. repeats' = 0 => repeats = 0 /\ OneThread
  BY DEF OrderFits
<1>4. faults' = 0 => faults = 0 /\ repeats' = 0 /\ Busy
  BY FaultCounts DEF OrderFits
<1>5. Reached <= Reached' /\ \A k \in Reached + 1..Reached' : FALSE
  BY <1>1, <1>2
<1>6. QED
  BY <1>1, <1>3, <1>4, <1>5 DEF OrderKept

\* The events that NextEvent passes over are no events of humans.
LEMMA PassedOver ==
  ASSUME Types, NEW i \in Nat \ {0}, NEW last \in 0..Len(room), i <= last + 1
  PROVE  /\ NextEvent(i, last) \in i..last + 1
         /\ \A k \in i..NextEvent(i, last) - 1 : k <= Len(room) /\ Skipped(k)
<1>1. Len(room) \in Nat /\ DOMAIN room = 1..Len(room)
  BY Lengths DEF Types
<1>2. /\ NextEvent(i, last) \in i..last + 1
      /\ \A j \in FromHumans : i <= j => j >= NextEvent(i, last) \/ j > last
  BY NextEventFits DEF Types
<1>3. ASSUME NEW k \in i..NextEvent(i, last) - 1
      PROVE  k <= Len(room) /\ ~ByHuman(room, k)
  <2>1. k \in Nat /\ k <= last /\ k <= Len(room) /\ i <= k /\ k < NextEvent(i, last)
    BY <1>1, <1>2
  <2>2. k \notin FromHumans
    BY <1>1, <1>2, <2>1
  <2>3. k \in DOMAIN room
    BY <1>1, <2>1
  <2>4. QED
    BY <2>1, <2>2, <2>3 DEF FromHumans, ByHuman
<1>4. QED
  BY <1>2, <1>3 DEF Skipped

LEMMA PushKeepsOrder ==
  ASSUME Types, TypesStep, OrderFits, NEW t \in TransactionThreads, Push(t)
  PROVE  OrderKept
<1>1. PICK n \in 1..MaxBatch : pushed + n <= Len(room) /\ PushTo(t, pushed + n)
  BY DEF Push
<1>2. /\ open = NoTransaction
      /\ UNCHANGED <<room, pushed, channel, repeats, faults>>
  BY DEF Push, rocketchat
<1>3. pushed \in Nat /\ Len(room) \in Nat /\ n \in Nat /\ n # 0 /\ pushed + n \in 0..Len(room)
  BY <1>1, Lengths, MessageFlowFits DEF Types, DataFits
<1> DEFINE last == pushed + n
           next == NextEvent(pushed + 1, last)
<1>4. open' = [last |-> last, thread |-> t]
  BY <1>1 DEF PushTo
<1>5. th' = [th EXCEPT ![t] = [Idle EXCEPT !.pc = "handle", !.last = last, !.next = next]]
  BY <1>1 DEF PushTo
<1>6. /\ th'[t].pc = "handle" /\ th'[t].last = last /\ th'[t].next = next
      /\ \A u \in TransactionThreads : u # t => th'[u] = th[u]
  BY <1>5 DEF Types, ThreadsFit, Idle
<1>7. /\ next \in pushed + 1..last + 1
      /\ \A k \in pushed + 1..next - 1 : k <= Len(room) /\ Skipped(k)
  BY <1>3, PassedOver
<1> HIDE DEF last, next
<1>8. open'.last = last /\ open'.thread = t /\ open' # NoTransaction
  BY <1>4, MessageFlowFits DEF NoTransaction
<1>9. Reached = pushed /\ Reached' = next - 1
  BY <1>2, <1>6, <1>8 DEF Reached
<1>10. next \in Nat /\ pushed < next /\ pushed <= next - 1
  BY <1>3, <1>7 DEF last
<1>11. ASSUME repeats = 0
       PROVE  OneThread'
  <2>1. \A u \in TransactionThreads : th[u].pc = "idle"
    BY <1>2, <1>11, MessageFlowFits DEF OrderFits, OneThread, NoTransaction
  <2>2. \A u \in TransactionThreads : th'[u].pc # "idle" => u = t
    BY <1>6, <2>1
  <2>3. QED
    BY <1>2, <1>6, <1>8, <1>10, <2>2 DEF OneThread
<1>12. Busy'
  BY <1>6, <1>8 DEF Busy
<1>13. faults = 0 => repeats = 0
  BY DEF OrderFits
<1>14. QED
  BY <1>2, <1>7, <1>9, <1>10, <1>11, <1>12, <1>13 DEF OrderKept

LEMMA PushAgainKeepsOrder ==
  ASSUME Types, OrderFits, NEW t \in TransactionThreads, PushAgain(t)
  PROVE  OrderKept
<1>1. repeats' # 0
  BY FaultCounts DEF PushAgain
<1>2. ASSUME faults' = 0
      PROVE  FALSE
  <2>1. faults = 0 /\ th[open.thread].pc = "idle" /\ open # NoTransaction
    BY <1>2, FaultCounts DEF PushAgain
  <2>2. QED
    BY <2>1 DEF OrderFits, Busy
<1>3. QED
  BY <1>1, <1>2 DEF OrderKept

\* A thread goes on with its transaction.
GoesOn(t) ==
  /\ \A u \in TransactionThreads : u # t => th'[u] = th[u]
  /\ th'[t].pc # "idle" /\ th'[t].last = th[t].last /\ th[t].next <= th'[t].next
  /\ UNCHANGED <<pushed, open, repeats>>

LEMMA GoesOnInOneThread ==
  ASSUME Types, TypesStep, OneThread, NEW t \in TransactionThreads, th[t].pc # "idle", GoesOn(t)
  PROVE  OneThread' /\ Busy'
<1>1. /\ open # NoTransaction /\ open.thread = t /\ th[t].last = open.last /\ pushed < th[t].next
      /\ \A u \in TransactionThreads : u # t => th[u].pc = "idle"
  BY BusyThread
<1>2. th[t].next \in Nat /\ th'[t].next \in Nat /\ pushed \in Nat
  BY Lengths DEF Types, TypesStep, ThreadsFit, ThreadRecord, DataFits
<1>3. pushed' < th'[t].next
  BY <1>1, <1>2 DEF GoesOn
<1>4. QED
  BY <1>1, <1>3 DEF GoesOn, OneThread, Busy

\* It reaches only what need not be posted.
LEMMA GoesOnKeepsOrder ==
  ASSUME Types, TypesStep, OrderFits, NEW t \in TransactionThreads, th[t].pc # "idle", GoesOn(t),
         UNCHANGED faults \/ Fault,
         OneThread /\ Reached' \in Nat => Reached <= Reached',
         UNCHANGED faults /\ OneThread =>
           \A k \in Reached + 1..Reached' : k <= Len(room) /\ Skipped(k)
  PROVE  OrderKept
<1>1. repeats' = repeats
  BY DEF GoesOn
<1>2. repeats = 0 => OneThread
  BY DEF OrderFits
<1>3. faults' = 0 => faults = 0 /\ repeats = 0 /\ UNCHANGED faults
  BY FaultCounts DEF OrderFits
<1>4. OneThread => OneThread' /\ Busy'
  BY GoesOnInOneThread
<1>5. Reached' \in Nat
  <2>1. Reached' \in 0..Len(room') /\ Len(room') \in Nat
    BY ReachedFitsNext, Lengths DEF TypesStep, Types, DataFits
  <2>2. QED
    BY <2>1
<1>6. QED
  BY <1>1, <1>2, <1>3, <1>4, <1>5 DEF OrderKept

\* A transaction after the first error,
LEMMA DropRestGoesOn ==
  ASSUME Types, TypesStep, NEW t \in TransactionThreads, DropRest(t), th[t].pc # "idle",
         UNCHANGED <<pushed, open, repeats>>
  PROVE  /\ GoesOn(t)
         /\ th'[t].pc = "handle" /\ th'[t].next = th[t].last + 1
<1>1. /\ \A u \in TransactionThreads : u # t => th'[u] = th[u]
      /\ th'[t].pc = "handle" /\ th'[t].last = th[t].last
      /\ th'[t].next = th[t].last + 1
  BY DropRestFits DEF TypesStep, Types
<1>2. th[t] \in ThreadRecord /\ th[t].next <= th[t].last + 1
  BY DEF Types, ThreadsFit, ThreadFits
<1>3. QED
  BY <1>1, <1>2 DEF GoesOn

LEMMA EventFailsKeepsOrder ==
  ASSUME Types, TypesStep, OrderFits, NEW t \in TransactionThreads, EventFails(t)
  PROVE  OrderKept
<1>1. /\ Handling(t) \/ th[t].pc = "store"
      /\ DropRest(t) /\ Fault /\ UNCHANGED <<pushed, open, repeats>>
  BY DEF EventFails, matrix
<1>2. th[t].pc # "idle"
  BY <1>1 DEF Handling
<1>3. GoesOn(t) /\ th'[t].pc = "handle" /\ th'[t].next = th[t].last + 1
  BY <1>1, <1>2, DropRestGoesOn
<1>4. th[t] \in ThreadRecord /\ th[t].next \in 1..th[t].last
  BY <1>1, CurrentFits
<1>5. ASSUME OneThread
      PROVE  Reached <= Reached'
  <2>1. open # NoTransaction /\ open.thread = t
    BY <1>2, <1>5, BusyThread
  <2>2. Reached = th[t].next - 1 \/ Reached = th[t].next
    BY <1>1, <2>1, ReachedByThread DEF Handling
  <2>3. open' = open /\ th'[t].pc = "handle"
    BY <1>1, <1>3
  <2>4. Reached' = th'[t].next - 1
    BY <2>1, <2>3 DEF Reached
  <2>5. QED
    BY <1>3, <1>4, <2>2, <2>4 DEF ThreadRecord
<1>6. ~UNCHANGED faults
  BY <1>1 DEF Types, DataFits, Fault
<1>7. QED
  BY <1>1, <1>2, <1>3, <1>5, <1>6, GoesOnKeepsOrder

\* and after a file without a mime type.
LEMMA RefuseKeepsOrder ==
  ASSUME Types, TypesStep, OrderFits, NEW t \in TransactionThreads, RefuseFile(t)
  PROVE  OrderKept
<1>1. /\ Handling(t) /\ Current(t) \in Untyped
      /\ DropRest(t) /\ UNCHANGED <<pushed, open, repeats, faults>>
  BY DEF RefuseFile, matrix
<1>2. th[t].pc = "handle"
  BY <1>1 DEF Handling
<1>3. GoesOn(t) /\ th'[t].pc = "handle" /\ th'[t].next = th[t].last + 1
  BY <1>1, <1>2, DropRestGoesOn
<1>4. /\ th[t] \in ThreadRecord /\ th[t].next \in 1..th[t].last
      /\ th[t].last <= Len(room) /\ Len(room) \in Nat
  BY <1>1, CurrentFits, Lengths DEF Types
<1>5. ASSUME OneThread
      PROVE  Reached = th[t].next - 1 /\ Reached' = th[t].last
  <2>1. open # NoTransaction /\ open.thread = t
    BY <1>2, <1>5, BusyThread
  <2>2. open' = open /\ th'[t].pc = "handle"
    BY <1>1, <1>3
  <2>3. Reached' = th'[t].next - 1
    BY <2>1, <2>2 DEF Reached
  <2>4. Reached = th[t].next - 1
    BY <1>2, <2>1, ReachedByThread
  <2>5. th'[t].next = th[t].last + 1 /\ th[t].last \in Nat
    BY <1>3, <1>4 DEF ThreadRecord
  <2>6. QED
    BY <2>3, <2>4, <2>5
<1>6. ASSUME OneThread
      PROVE  Reached <= Reached'
  BY <1>4, <1>5, <1>6 DEF ThreadRecord
<1>7. ASSUME OneThread, NEW k \in Reached + 1..Reached'
      PROVE  k <= Len(room) /\ Skipped(k)
  <2>1. k \in Nat /\ th[t].next <= k /\ k <= th[t].last
    BY <1>4, <1>5, <1>7 DEF ThreadRecord
  <2>2. th[t].next \in 1..k /\ room[th[t].next].msg \in Untyped
    BY <1>1, <1>4, <2>1 DEF Current, ThreadRecord
  <2>3. k <= Len(room)
    BY <1>4, <2>1 DEF ThreadRecord
  <2>4. QED
    BY <2>2, <2>3 DEF Skipped
<1>8. QED
  BY <1>1, <1>2, <1>3, <1>6, <1>7, GoesOnKeepsOrder

LEMMA ForwardNothingKeepsOrder ==
  ASSUME Types, TypesStep, OrderFits, NEW t \in TransactionThreads, ForwardNothing(t)
  PROVE  OrderKept
<1>1. /\ Handling(t) /\ Current(t) \in Notices
      /\ th' = [th EXCEPT ![t].pc = "store"] /\ UNCHANGED <<pushed, open, repeats, faults>>
  BY DEF ForwardNothing, matrix
<1>2. th[t].pc = "handle"
  BY <1>1 DEF Handling
<1>3. /\ th[t] \in ThreadRecord /\ th[t].next \in 1..th[t].last
      /\ th[t].last <= Len(room) /\ Len(room) \in Nat
  BY <1>1, CurrentFits, Lengths DEF Types
<1>4. /\ th'[t] = [th[t] EXCEPT !.pc = "store"]
      /\ \A u \in TransactionThreads : u # t => th'[u] = th[u]
  BY <1>1 DEF Types, ThreadsFit
<1>5. th'[t].pc = "store" /\ th'[t].next = th[t].next /\ th'[t].last = th[t].last
  BY <1>3, <1>4 DEF ThreadRecord
<1>6. GoesOn(t)
  BY <1>1, <1>3, <1>4, <1>5 DEF GoesOn, ThreadRecord
<1>7. ASSUME OneThread
      PROVE  Reached = th[t].next - 1 /\ Reached' = th[t].next
  <2>1. open # NoTransaction /\ open.thread = t
    BY <1>2, <1>7, BusyThread
  <2>2. QED
    BY <1>1, <1>2, <1>5, <2>1, ReachedByThread DEF Reached
<1>8. ASSUME OneThread
      PROVE  Reached <= Reached'
  BY <1>3, <1>7, <1>8 DEF ThreadRecord
<1>9. ASSUME OneThread, NEW k \in Reached + 1..Reached'
      PROVE  k <= Len(room) /\ Skipped(k)
  <2>1. k = th[t].next
    BY <1>3, <1>7, <1>9 DEF ThreadRecord
  <2>2. QED
    BY <1>1, <1>3, <2>1 DEF Skipped, Current, ThreadRecord
<1>10. QED
  BY <1>1, <1>2, <1>6, <1>8, <1>9, GoesOnKeepsOrder

LEMMA StoreKeepsOrder ==
  ASSUME Types, TypesStep, OrderFits, NEW t \in TransactionThreads, Store(t)
  PROVE  OrderKept
<1> DEFINE next == NextEvent(th[t].next + 1, th[t].last)
<1>1. th[t].pc = "store" /\ UNCHANGED <<pushed, open, repeats, faults>>
  BY DEF Store, matrix
<1>2. /\ th[t] \in ThreadRecord /\ th[t].next \in 1..th[t].last
      /\ th[t].last <= Len(room) /\ Len(room) \in Nat
  BY <1>1, CurrentFits, Lengths DEF Types
<1>3. /\ \A u \in TransactionThreads : u # t => th'[u] = th[u]
      /\ th'[t].pc = "handle" /\ th'[t].last = th[t].last /\ th'[t].next = next
  BY StoreTypes
<1>4. /\ next \in th[t].next + 1..th[t].last + 1
      /\ \A k \in th[t].next + 1..next - 1 : k <= Len(room) /\ Skipped(k)
  <2>1. /\ th[t].next + 1 \in Nat \ {0} /\ th[t].last \in 0..Len(room)
        /\ th[t].next + 1 <= th[t].last + 1
    BY <1>2 DEF ThreadRecord
  <2>2. QED
    BY <2>1, PassedOver
<1> HIDE DEF next
<1>5. GoesOn(t)
  BY <1>1, <1>2, <1>3, <1>4 DEF GoesOn, ThreadRecord
<1>6. ASSUME OneThread
      PROVE  Reached = th[t].next /\ Reached' = next - 1
  <2>1. open # NoTransaction /\ open.thread = t
    BY <1>1, <1>6, BusyThread
  <2>2. QED
    BY <1>1, <1>3, <2>1, ReachedByThread DEF Reached
<1>7. ASSUME OneThread
      PROVE  Reached <= Reached'
  BY <1>2, <1>4, <1>6, <1>7 DEF ThreadRecord
<1>8. ASSUME OneThread, NEW k \in Reached + 1..Reached'
      PROVE  k <= Len(room) /\ Skipped(k)
  BY <1>4, <1>6, <1>8
<1>9. QED
  BY <1>1, <1>5, <1>7, <1>8, GoesOnKeepsOrder

LEMMA AnswerKeepsOrder ==
  ASSUME Types, TypesStep, OrderFits, NEW t \in TransactionThreads, Answer(t)
  PROVE  OrderKept
<1>1. /\ th[t].pc = "handle" /\ th[t].next > th[t].last
      /\ th' = [th EXCEPT ![t] = Idle] /\ UNCHANGED repeats
  BY DEF Answer, Ended
<1>2. /\ th'[t].pc = "idle"
      /\ \A u \in TransactionThreads : u # t => th'[u] = th[u]
  BY <1>1 DEF Types, ThreadsFit, Idle
<1>3. UNCHANGED faults \/ Fault
  BY DEF Answer
<1>4. th[t] \in ThreadRecord /\ th[t].next <= th[t].last + 1
  BY <1>1 DEF Types, ThreadsFit, ThreadFits
\* Unless it was pushed again, the transaction is the open one.
<1>5. ASSUME OneThread
      PROVE  /\ OneThread'
             /\ Reached' = Reached /\ Reached \in Nat
             /\ UNCHANGED faults => Busy'
  <2>1. /\ open # NoTransaction /\ open.thread = t /\ th[t].last = open.last
        /\ \A u \in TransactionThreads : u # t => th[u].pc = "idle"
    BY <1>1, <1>5, BusyThread
  <2>2. \A u \in TransactionThreads : th'[u].pc = "idle"
    BY <1>2, <2>1
  <2>3. Reached = th[t].next - 1
    BY <1>1, <2>1, ReachedByThread
  <2>4. Reached = open.last
    BY <1>1, <1>4, <2>1, <2>3 DEF ThreadRecord
  <2>5. Reached \in Nat
    BY <1>4, <2>1, <2>4 DEF ThreadRecord
  <2>6. CASE pushed' = open.last /\ open' = NoTransaction
    BY <2>2, <2>4, <2>5, <2>6 DEF OneThread, Reached, Busy
  <2>7. CASE Fault /\ UNCHANGED <<pushed, open>>
    <3>1. Reached' = open.last
      BY <1>2, <2>1, <2>7 DEF Reached
    <3>2. ~UNCHANGED faults
      BY <2>7 DEF Types, DataFits, Fault
    <3>3. OneThread'
      BY <1>2, <2>1, <2>2, <2>7 DEF OneThread
    <3>4. QED
      BY <2>4, <2>5, <3>1, <3>2, <3>3
  <2>8. QED
    BY <2>1, <2>6, <2>7 DEF Answer
<1>6. repeats = 0 => OneThread
  BY DEF OrderFits
<1>7. faults' = 0 => faults = 0 /\ repeats = 0 /\ UNCHANGED faults
  BY <1>3, FaultCounts DEF OrderFits
<1>8. OneThread => Reached <= Reached' /\ \A k \in Reached + 1..Reached' : FALSE
  BY <1>5
<1>9. QED
  BY <1>1, <1>5, <1>6, <1>7, <1>8 DEF OrderKept

LEMMA CrashKeepsOrder ==
  ASSUME Types, TypesStep, OrderFits, Crash
  PROVE  OrderKept
<1>1. /\ th' = [t \in TransactionThreads |-> Idle]
      /\ Fault /\ UNCHANGED <<pushed, open, repeats>>
  BY DEF Crash, matrix
<1>2. \A t \in TransactionThreads : th'[t].pc = "idle"
  BY <1>1 DEF Idle
<1>3. faults' # 0
  BY <1>1, FaultCounts
<1>4. ASSUME repeats = 0
      PROVE  OneThread' /\ Reached <= Reached'
  <2>1. OneThread
    BY <1>4 DEF OrderFits
  <2>2. Reached \in Nat
    BY ReachedFits, Lengths DEF Types
  <2>3. CASE open = NoTransaction
    <3>1. Reached' = Reached
      BY <1>1, <2>3 DEF Reached
    <3>2. OneThread'
      BY <1>1, <1>2, <2>3 DEF OneThread
    <3>3. QED
      BY <2>2, <3>1, <3>2
  <2>4. CASE open # NoTransaction
    <3> DEFINE u == open.thread
    <3>1. u \in TransactionThreads /\ open.last \in Nat
      BY <2>4, Lengths DEF Types, OpenFits, DataFits
    <3>2. th[u] \in ThreadRecord /\ ThreadFits(th[u], room, channel)
      BY <3>1 DEF Types, ThreadsFit
    <3>3. Reached' = open.last
      BY <1>1, <1>2, <2>4, <3>1 DEF Reached
    <3>4. OneThread'
      BY <1>1, <1>2, <2>4, <3>1 DEF OneThread
    <3>5. th[u].pc # "idle" => th[u].last = open.last
      BY <2>1, <2>4 DEF OneThread
    <3>6. /\ th[u].pc = "idle" => Reached = open.last
          /\ th[u].pc = "handle" => Reached = th[u].next - 1
          /\ th[u].pc = "store" => Reached = th[u].next
      BY <2>4, ReachedByThread
    <3> HIDE DEF u
    <3>7. Reached <= open.last
      BY <2>2, <3>1, <3>2, <3>5, <3>6 DEF ThreadFits, ThreadRecord
    <3>8. QED
      BY <3>3, <3>4, <3>7
  <2>5. QED
    BY <2>3, <2>4
<1>5. QED
  BY <1>1, <1>3, <1>4 DEF OrderKept

\* A post of the current event comes after all others of the room.
LEMMA ForwardKeepsOrder ==
  ASSUME Types, TypesStep, OrderFits, WrittenOnce',
         NEW t \in TransactionThreads, ForwardToChannel(t)
  PROVE  OrderFits'
<1> DEFINE n == th[t].next
<1>1. /\ Handling(t) /\ UNCHANGED <<room, pushed, open, repeats>>
      /\ \/ /\ th' = [th EXCEPT ![t].pc = "store", ![t].post = Len(channel) + 1]
            /\ UNCHANGED faults
         \/ DropRest(t) /\ Fault
  BY DEF ForwardToChannel, matrix
<1>2. th[t].pc = "handle"
  BY <1>1 DEF Handling
<1>3. /\ th[t] \in ThreadRecord /\ n \in 1..th[t].last
      /\ th[t].last <= Len(room) /\ Len(room) \in Nat /\ Len(channel) \in Nat
      /\ n \in FromHumans
  BY <1>1, CurrentFits, Lengths DEF Types
<1>4. n \in 1..Len(room) /\ th[t].last \in Nat /\ n \in Nat /\ ByHuman(room, n)
  <2>1. n \in 1..Len(room) /\ th[t].last \in Nat /\ n \in Nat
    BY <1>3 DEF ThreadRecord
  <2>2. QED
    BY <1>3, <2>1 DEF FromHumans, ByHuman
\* The thread goes on to n, or behind the last event.
<1>5. /\ GoesOn(t)
      /\ \/ /\ UNCHANGED faults
            /\ th'[t].pc = "store" /\ th'[t].next = n
         \/ /\ Fault
            /\ th'[t].pc = "handle" /\ th'[t].next = th[t].last + 1
  <2>1. ASSUME UNCHANGED faults,
               th' = [th EXCEPT ![t].pc = "store", ![t].post = Len(channel) + 1]
        PROVE  GoesOn(t) /\ th'[t].pc = "store" /\ th'[t].next = n
    <3>1. /\ th'[t] = [th[t] EXCEPT !.pc = "store", !.post = Len(channel) + 1]
          /\ \A u \in TransactionThreads : u # t => th'[u] = th[u]
      BY <2>1 DEF Types, ThreadsFit
    <3>2. th'[t].pc = "store" /\ th'[t].next = n /\ th'[t].last = th[t].last
      BY <1>3, <3>1 DEF ThreadRecord
    <3>3. QED
      BY <1>1, <1>4, <3>1, <3>2 DEF GoesOn
  <2>2. ASSUME DropRest(t)
        PROVE  GoesOn(t) /\ th'[t].pc = "handle" /\ th'[t].next = th[t].last + 1
    BY <1>1, <1>2, <2>2, DropRestGoesOn
  <2>3. QED
    BY <1>1, <2>1, <2>2
<1>6. /\ Len(channel') = Len(channel) + 1
      /\ channel'[Len(channel) + 1].msg = room[n].msg
      /\ UNCHANGED room
      /\ \A i \in 1..Len(channel) : channel'[i].msg = channel[i].msg
  BY ForwardPosts DEF ForwardsCurrent, Current, TypesStep, Grows
<1>7. \A i \in 1..Len(channel') : i \in 1..Len(channel) \/ i = Len(channel) + 1
  BY <1>3, <1>6
\* No other event has the message of the new post.
<1>8. \A k \in 1..Len(room) : ByHuman(room, k) /\ room[k].msg = room[n].msg => k = n
  BY <1>4 DEF OrderFits, WrittenOnce
<1> HIDE DEF n
<1>9. ASSUME repeats' = 0
      PROVE  /\ OneThread' /\ Busy'
             /\ Reached = n - 1 /\ NonePosted(Reached, room, channel)
             /\ Reached' \in Nat /\ n <= Reached'
             /\ UNCHANGED faults => Reached' = n
  <2>1. repeats = 0 /\ OneThread /\ NonePosted(Reached, room, channel)
    BY <1>1, <1>9 DEF OrderFits
  <2>2. OneThread' /\ Busy'
    BY <1>2, <1>5, <2>1, GoesOnInOneThread
  <2>3. open # NoTransaction /\ open.thread = t /\ open' = open
    BY <1>1, <1>2, <2>1, BusyThread
  <2>4. Reached = n - 1
    BY <1>2, <2>3, ReachedByThread DEF n
  <2>5. /\ th'[t].pc = "store" => Reached' = th'[t].next
        /\ th'[t].pc = "handle" => Reached' = th'[t].next - 1
    BY <2>3 DEF Reached
  <2>6. ~(UNCHANGED faults /\ Fault)
    BY DEF Types, DataFits, Fault
  <2>7. Reached' \in Nat /\ n <= Reached' /\ (UNCHANGED faults => Reached' = n)
    BY <1>3, <1>4, <1>5, <2>5, <2>6
  <2>8. QED
    BY <2>1, <2>2, <2>4, <2>7
<1>10. ASSUME repeats' = 0
       PROVE  NonePosted(Reached', room', channel') /\ Ordered(room', channel')
  <2>1. ASSUME NEW i \in 1..Len(channel'), NEW k \in 1..Len(room'),
               ByHuman(room', k), channel'[i].msg = room'[k].msg
        PROVE  /\ i \in 1..Len(channel) => channel[i].msg = room[k].msg /\ k <= n - 1
               /\ i = Len(channel) + 1 => k = n
    <3>1. k \in 1..Len(room) /\ ByHuman(room, k) /\ room'[k] = room[k]
      BY <1>6, <2>1
    <3>2. CASE i \in 1..Len(channel)
      <4>1. channel[i].msg = room[k].msg
        BY <1>6, <2>1, <3>1, <3>2
      <4>2. k <= n - 1
        BY <1>9, <1>10, <3>1, <3>2, <4>1 DEF NonePosted
      <4>3. QED
        BY <1>3, <3>2, <4>1, <4>2
    <3>3. CASE i = Len(channel) + 1
      <4>1. k = n
        BY <1>6, <1>8, <2>1, <3>1, <3>3
      <4>2. QED
        BY <1>3, <3>3, <4>1
    <3>4. QED
      BY <1>7, <3>2, <3>3
  <2>2. NonePosted(Reached', room', channel')
    <3>1. ASSUME NEW i \in 1..Len(channel'), NEW k \in 1..Len(room'),
                 ByHuman(room', k), channel'[i].msg = room'[k].msg
          PROVE  k <= Reached'
      <4>1. k <= n - 1 \/ k = n
        BY <1>7, <2>1, <3>1
      <4>2. k \in Nat
        BY <1>3, <1>6
      <4>3. QED
        BY <1>4, <1>9, <1>10, <4>1, <4>2
    <3>2. QED
      BY <3>1 DEF NonePosted
  <2>3. Ordered(room', channel')
    <3>1. Ordered(room, channel)
      BY <1>1, <1>10 DEF OrderFits
    <3>2. ASSUME NEW i \in 1..Len(channel'), NEW j \in 1..Len(channel'),
                 NEW k \in 1..Len(room'), NEW l \in 1..Len(room'), i < j,
                 ByHuman(room', k), channel'[i].msg = room'[k].msg,
                 ByHuman(room', l), channel'[j].msg = room'[l].msg
          PROVE  k < l
      <4>1. i \in 1..Len(channel)
        BY <1>3, <1>7, <3>2
      <4>2. k \in 1..Len(room) /\ l \in 1..Len(room) /\ ByHuman(room, k) /\ ByHuman(room, l)
        BY <1>6, <3>2
      <4>3. channel[i].msg = room[k].msg /\ k <= n - 1
        BY <2>1, <3>2, <4>1
      <4>4. CASE j \in 1..Len(channel)
        <5>1. channel[j].msg = room[l].msg
          BY <2>1, <3>2, <4>4
        <5>2. QED
          BY <3>1, <3>2, <4>1, <4>2, <4>3, <4>4, <5>1 DEF Ordered
      <4>5. CASE j = Len(channel) + 1
        <5>1. l = n
          BY <2>1, <3>2, <4>5
        <5>2. QED
          BY <1>4, <4>2, <4>3, <5>1
      <4>6. QED
        BY <1>7, <4>4, <4>5
    <3>3. QED
      BY <3>2 DEF Ordered
  <2>4. QED
    BY <2>2, <2>3
<1>11. ASSUME faults' = 0
       PROVE  repeats' = 0 /\ AllPosted(Reached', room', channel')
  <2>1. faults = 0 /\ UNCHANGED faults /\ repeats = 0 /\ AllPosted(Reached, room, channel)
    BY <1>5, <1>11, FaultCounts DEF OrderFits
  <2>2. repeats' = 0
    BY <1>1, <2>1
  <2>3. Reached = n - 1 /\ Reached' = n
    BY <1>9, <2>1, <2>2
  <2>4. ASSUME NEW k \in 1..n, ByHuman(room', k)
        PROVE  \/ room'[k].msg \in Notices
               \/ \E j \in 1..k : room'[j].msg \in Untyped
               \/ \E i \in 1..Len(channel') : channel'[i].msg = room'[k].msg
    <3>1. room' = room /\ ByHuman(room, k)
      BY <1>6, <2>4
    <3>2. CASE k \in 1..n - 1
      <4>1. \/ room[k].msg \in Notices
            \/ \E j \in 1..k : room[j].msg \in Untyped
            \/ \E i \in 1..Len(channel) : channel[i].msg = room[k].msg
        BY <2>1, <2>3, <3>1, <3>2 DEF AllPosted
      <4>2. \A i \in 1..Len(channel) : i \in 1..Len(channel') /\ channel'[i].msg = channel[i].msg
        BY <1>3, <1>6
      <4>3. QED
        BY <3>1, <4>1, <4>2
    <3>3. CASE k = n
      <4>1. Len(channel) + 1 \in 1..Len(channel')
        BY <1>3, <1>6
      <4>2. QED
        BY <1>6, <3>1, <3>3, <4>1
    <3>4. QED
      BY <1>4, <3>2, <3>3
  <2>5. QED
    BY <2>2, <2>3, <2>4 DEF AllPosted
<1>12. repeats' = 0 => OneThread' /\ Busy'
  BY <1>9
<1>13. QED
  BY <1>10, <1>11, <1>12 DEF OrderFits

\* So the order is kept by every step.
LEMMA OrderStep ==
  ASSUME Types, TypesStep, OrderFits, [Next]_vars
  PROVE  OrderFits'
<1>1. WrittenOnce'
  BY WrittenOnceStep DEF OrderFits
<1>2. CASE \E t \in TransactionThreads : ForwardToChannel(t)
  BY <1>1, <1>2, ForwardKeepsOrder
<1>3. CASE ~\E t \in TransactionThreads : ForwardToChannel(t)
  <2>1. NoNewMatch
    BY <1>3, NothingElsePosted DEF OrderFits
  <2>2. OrderKept
    <3>1. CASE UNCHANGED <<pushed, open, th, repeats>> /\ (UNCHANGED faults \/ Fault)
      BY <3>1, OthersKeepOrder
    <3>2. ASSUME NEW t \in TransactionThreads, Transaction(t) \/ EventFails(t)
          PROVE  OrderKept
      BY <1>3, <3>2, PushKeepsOrder, PushAgainKeepsOrder, ForwardNothingKeepsOrder,
         RefuseKeepsOrder, StoreKeepsOrder, AnswerKeepsOrder, EventFailsKeepsOrder
         DEF Transaction
    <3>3. CASE Crash
      BY <3>3, CrashKeepsOrder
    <3>4. QED
      BY <3>1, <3>2, <3>3, TransactionSteps
  <2>3. QED
    BY <1>1, <2>1, <2>2, OrderStays
<1>4. QED
  BY <1>2, <1>3

-----------------------------------------------------------------------------
(***************************************************************************)
(* The invariant, and what follows from it                                 *)
(***************************************************************************)

LEMMA InitTypes ==
  ASSUME Init
  PROVE  Types /\ HooksFit /\ ClocksFit
<1>1. room = <<>> /\ channel = <<>> /\ Len(room) = 0 /\ Len(channel) = 0
  BY DEF Init
<1>2. DataFits
  <2>1. Threshold + 1 \in 0..MaxTime /\ 0 \in 0..MaxTime /\ 0 \in 0..MaxFaults /\ 0 \in 0..0
    BY MessageFlowFits
  <2>2. FromHumans = {}
    BY <1>1 DEF FromHumans
  <2>3. lastSent \in [Humans -> 0..MaxTime]
    BY <2>1 DEF Init
  <2>4. room \in Seq(Entry) /\ channel \in Seq(Post)
    BY <1>1
  <2>5. /\ pushed \in 0..Len(room) /\ webhooks = {} /\ copied = {}
        /\ repeats \in Nat /\ now \in 0..MaxTime /\ faults \in 0..MaxFaults
    BY <1>1, <2>1 DEF Init
  <2>6. QED
    BY <2>2, <2>3, <2>4, <2>5 DEF DataFits
<1>3. Idle \in ThreadRecord /\ ThreadFits(Idle, room, channel)
  BY <1>1 DEF Idle, ThreadRecord, ThreadFits
<1>4. ThreadsFit
  <2>1. th = [t \in TransactionThreads |-> Idle]
    BY DEF Init
  <2>2. QED
    BY <1>3, <2>1 DEF ThreadsFit
<1>5. OpenFits
  BY DEF Init, OpenFits
<1>6. HooksFit
  <2>1. hook = [t \in WebhookThreads |-> NoHook]
    BY DEF Init
  <2>2. HookFits(NoHook, room, channel)
    BY <1>1 DEF HookFits, NoHook
  <2>3. QED
    BY <2>1, <2>2 DEF HooksFit
<1>7. ClocksFit
  <2>1. \A h \in Humans : lastSent[h] = 0
    BY DEF Init
  <2>2. now = Threshold + 1 /\ DOMAIN channel = {}
    BY <1>1 DEF Init
  <2>3. QED
    BY <2>1, <2>2, MessageFlowFits DEF ClocksFit
<1>8. QED
  BY <1>2, <1>4, <1>5, <1>6, <1>7 DEF Types

LEMMA IInvInit ==
  Init => IInv
<1> SUFFICES ASSUME Init
             PROVE  IInv
  OBVIOUS
<1>1. Types /\ HooksFit /\ ClocksFit
  BY InitTypes
<1>2. Len(room) = 0 /\ Len(channel) = 0
  BY DEF Init
<1>3. /\ open = NoTransaction /\ open.thread = None /\ pushed = 0
      /\ \A t \in TransactionThreads : th[t].pc = "idle"
      /\ faults = 0 /\ repeats = 0 /\ copied = {}
  BY DEF Init, NoTransaction, Idle
<1>4. Reached = 0
  BY <1>3 DEF Reached
<1>5. WrittenOnce /\ OneThread /\ Busy
  BY <1>2, <1>3 DEF WrittenOnce, OneThread, Busy
<1>6. /\ NonePosted(Reached, room, channel)
      /\ Ordered(room, channel)
      /\ AllPosted(Reached, room, channel)
  BY <1>2, <1>4 DEF NonePosted, Ordered, AllPosted
<1>7. OrderFits
  BY <1>3, <1>5, <1>6 DEF OrderFits
<1>8. OnlyLateEchoes /\ CopiesFit
  BY <1>2, <1>3 DEF OnlyLateEchoes, CopiesFit, NoGap
<1>9. QED
  BY <1>1, <1>7, <1>8 DEF IInv

LEMMA IInvStep ==
  IInv /\ [Next]_vars => IInv'
<1> SUFFICES ASSUME IInv, [Next]_vars
             PROVE  IInv'
  OBVIOUS
<1>1. Types /\ HooksFit /\ ClocksFit /\ OrderFits /\ OnlyLateEchoes /\ CopiesFit
  BY DEF IInv
<1>2. TypesStep /\ HooksFit'
  BY <1>1, StepTypes
<1>3. Types'
  BY <1>2 DEF TypesStep
<1>4. ClocksFit' /\ OnlyLateEchoes' /\ CopiesFit'
  BY <1>1, ClocksStep, EchoesStep, CopiesStep
<1>5. OrderFits'
  BY <1>1, <1>2, OrderStep
<1>6. QED
  BY <1>2, <1>3, <1>4, <1>5 DEF IInv

\* Types, clocks, the progress of the open transaction and of the webhooks, and what is posted and
\* copied up to there, fit together in every reachable state.
THEOREM Inductive == Spec => []IInv
BY IInvInit, IInvStep, PTL DEF Spec

\* Every variable keeps its type: a busy thread is at an event of its transaction, and the open
\* transaction at the end of the room at most.
THEOREM TypeCorrect == Spec => []TypeOK
<1>1. IInv => TypeOK
  <2> SUFFICES ASSUME IInv
               PROVE  TypeOK
    OBVIOUS
  <2>1. DataFits /\ ThreadsFit /\ OpenFits /\ HooksFit
    BY DEF IInv, Types
  <2>2. Len(room) \in Nat /\ Len(channel) \in Nat /\ pushed \in 0..Len(room)
    BY <2>1, Lengths DEF DataFits
  <2>3. open \in [last : 0..Len(room), thread : TransactionThreads \cup {None}]
    <3>1. pushed + 1..Len(room) \subseteq 0..Len(room) /\ 0 \in 0..Len(room)
      BY <2>2
    <3>2. QED
      BY <2>1, <3>1 DEF OpenFits, NoTransaction
  <2>4. th \in [TransactionThreads ->
                  [pc : {"idle", "handle", "store"}, next : 0..Len(room) + 1,
                   last : 0..Len(room), post : 0..Len(channel)]]
    <3>1. ASSUME NEW t \in TransactionThreads
          PROVE  /\ th[t].next \in 0..Len(room) + 1
                 /\ th[t].last \in 0..Len(room) /\ th[t].post \in 0..Len(channel)
      <4>1. /\ th[t].next \in Nat /\ th[t].last \in Nat /\ th[t].post \in Nat
            /\ ThreadFits(th[t], room, channel)
        BY <2>1 DEF ThreadsFit, ThreadRecord
      <4>2. th[t].pc = "idle" => th[t].next = 0
        BY <4>1 DEF ThreadFits, Idle
      <4>3. QED
        BY <2>2, <4>1, <4>2 DEF ThreadFits
    <3>2. ASSUME NEW t \in TransactionThreads
          PROVE  th[t] \in [pc : {"idle", "handle", "store"}, next : 0..Len(room) + 1,
                            last : 0..Len(room), post : 0..Len(channel)]
      BY <2>1, <3>1 DEF ThreadsFit, ThreadRecord
    <3>3. QED
      BY <2>1, <3>2 DEF ThreadsFit
  <2>5. hook \in [WebhookThreads -> [post : 0..Len(channel), part : Nat]]
    <3>1. \A t \in WebhookThreads : hook[t] \in [post : 0..Len(channel), part : Nat]
      BY <2>1 DEF HooksFit, HookFits
    <3>2. QED
      BY <2>1, <3>1 DEF HooksFit
  <2>6. QED
    BY <2>1, <2>3, <2>4, <2>5 DEF TypeOK, DataFits
<1>2. QED
  BY <1>1, Inductive, PTL

\* An echo that comes back to the room was not stored yet, or is older than
\* RESEND_THRESHOLD_IN_SECONDS: what Forwarder::is_sendable_message compares with, the time at
\* which the author sent something last, is never before the time of a stored post.
THEOREM EchoesAreLate == Spec => []OnlyLateEchoes
<1>1. IInv => OnlyLateEchoes
  BY DEF IInv
<1>2. QED
  BY <1>1, Inductive, PTL

\* Unless a transaction is pushed again, the channel has the messages of the room in their order,
\* whatever fails in Dispatcher::process.
THEOREM PostsAreInOrder == Spec => []InOrder
<1>1. IInv => InOrder
  <2> SUFFICES ASSUME IInv, repeats = 0,
                      NEW j \in DOMAIN channel, NEW i \in 1..j - 1,
                      NEW k \in FromHumans, NEW l \in FromHumans,
                      channel[i].msg = room[k].msg, channel[j].msg = room[l].msg
               PROVE  k < l
    BY DEF InOrder
  <2>1. DataFits /\ Ordered(room, channel)
    BY DEF IInv, Types, OrderFits
  <2>2. /\ j \in 1..Len(channel) /\ Len(channel) \in Nat
        /\ k \in 1..Len(room) /\ l \in 1..Len(room)
    BY <2>1, Lengths
  <2>3. i \in 1..Len(channel) /\ i < j
    BY <2>2
  <2>4. ByHuman(room, k) /\ ByHuman(room, l)
    BY DEF ByHuman, FromHumans
  <2>5. QED
    BY <2>1, <2>2, <2>3, <2>4 DEF Ordered
<1>2. QED
  BY <1>1, Inductive, PTL

\* Unless something fails, Transactions::handle answers only when every event of the transaction
\* was posted, but for those that are never posted and those after a file without a mime type.
THEOREM AnsweredEventsArePosted == Spec => []AnsweredIsPosted
<1>1. IInv => AnsweredIsPosted
  <2> SUFFICES ASSUME IInv, faults = 0, NEW k \in FromHumans \cap 1..pushed
               PROVE  \/ room[k].msg \in Notices
                      \/ \E j \in 1..k : room[j].msg \in Untyped
                      \/ Posts(room[k].msg) # {}
    BY DEF AnsweredIsPosted
  <2>1. Types /\ OneThread /\ Busy /\ AllPosted(Reached, room, channel)
    BY DEF IInv, OrderFits
  <2>2. pushed \in Nat /\ Len(channel) \in Nat /\ DOMAIN channel = 1..Len(channel)
    BY <2>1, Lengths DEF Types, DataFits
  <2>3. Reached \in Nat
    BY <2>1, ReachedFits, Lengths DEF Types
  <2>4. pushed <= Reached
    <3>1. CASE open = NoTransaction
      BY <2>2, <3>1 DEF Reached
    <3>2. CASE open # NoTransaction
      <4>1. open.thread \in TransactionThreads
        BY <2>1, <3>2 DEF Types, OpenFits
      <4>2. th[open.thread] \in ThreadRecord
        BY <2>1, <4>1 DEF Types, ThreadsFit
      <4>3. th[open.thread].pc # "idle" /\ pushed < th[open.thread].next
        BY <2>1, <3>2 DEF OneThread, Busy
      <4>4. Reached = th[open.thread].next - 1 \/ Reached = th[open.thread].next
        BY <3>2, <4>2, <4>3, ReachedByThread DEF ThreadRecord
      <4>5. QED
        BY <2>2, <4>2, <4>3, <4>4 DEF ThreadRecord
    <3>3. QED
      BY <3>1, <3>2
  <2>5. k \in 1..Reached /\ ByHuman(room, k)
    BY <2>2, <2>3, <2>4 DEF FromHumans, ByHuman
  <2>6. QED
    BY <2>1, <2>2, <2>5 DEF AllPosted, Posts
<1>2. QED
  BY <1>1, Inductive, PTL

\* The files of a message, which forward_file sends one by one, come in their order and without a
\* gap, and unless something fails all of them.
THEOREM FilesStayTogether == Spec => []CopiesAreWhole
<1>1. IInv => CopiesAreWhole
  <2> SUFFICES ASSUME IInv
               PROVE  CopiesAreWhole
    OBVIOUS
  <2>1. DataFits /\ CopiesFit
    BY DEF IInv, Types
  <2>2. DOMAIN room = 1..Len(room) /\ Len(room) \in Nat
    BY <2>1, Lengths
  <2>3. \A m, p : HasPart(room, m, p) => Copies(m, p) # {}
    BY <2>2 DEF HasPart, Copies
  <2>4. ASSUME NEW i \in DOMAIN room, room[i].part > 1
        PROVE  \E j \in Copies(room[i].msg, room[i].part - 1) : j < i
    <3>1. PICK j \in 1..i - 1 :
            room[j] = [msg |-> room[i].msg, sender |-> None, part |-> room[i].part - 1]
      BY <2>1, <2>2, <2>4 DEF CopiesFit, NoGap
    <3>2. j \in DOMAIN room /\ j < i
      BY <2>2, <2>4
    <3>3. QED
      BY <3>1, <3>2 DEF Copies
  <2>5. ASSUME faults = 0, NEW c \in copied
        PROVE  \/ \E t \in WebhookThreads : hook[t].post = c.post
               \/ \A p \in 1..Parts[channel[c.post].msg] : Copies(channel[c.post].msg, p) # {}
    BY <2>1, <2>3, <2>5 DEF CopiesFit
  <2>6. QED
    BY <2>4, <2>5 DEF CopiesAreWhole
<1>2. QED
  BY <1>1, Inductive, PTL

-----------------------------------------------------------------------------
(***************************************************************************)
(* Every event is posted at most once for each push: the posts of an       *)
(* event, the threads that have it before them and its first push are      *)
(* never more than the pushes there have been, or will have been.          *)
(***************************************************************************)

\* A thread has entry k before it.
ToPost(s, k) ==
  /\ k <= s.last
  /\ \/ s.pc = "handle" /\ s.next <= k
     \/ s.pc = "store" /\ s.next < k

\* The last event of the transactions so far.
PushedUpTo == IF open = NoTransaction THEN pushed ELSE open.last

PostsOf(k) == {i \in 1..Len(channel) : channel[i].msg = room[k].msg}
ThreadsBefore(k) == {t \in TransactionThreads : ToPost(th[t], k)}
FirstPush(k) == {x \in {0} : k > PushedUpTo}

PostsCounted ==
  \A k \in 1..Len(room) :
    ByHuman(room, k) =>
      AtMost(Together(PostsOf(k), ThreadsBefore(k), FirstPush(k)), 1 + repeats)

\* A step in which no thread gets an event.
NoMoreToPost ==
  /\ \A u \in TransactionThreads, k \in Nat : ToPost(th'[u], k) => ToPost(th[u], k)
  /\ PushedUpTo' = PushedUpTo
  /\ UNCHANGED repeats

LEMMA GoesOnPastEvents ==
  ASSUME NEW r \in ThreadRecord, NEW s \in ThreadRecord, r.pc # "idle",
         s.last = r.last, r.next <= s.next,
         r.pc = "store" /\ s.pc = "handle" => r.next < s.next,
         NEW k \in Nat, ToPost(s, k)
  PROVE  ToPost(r, k)
BY DEF ToPost, ThreadRecord

LEMMA ThreadsAreRecords ==
  ASSUME Types, TypesStep, NEW t \in TransactionThreads
  PROVE  th[t] \in ThreadRecord /\ th'[t] \in ThreadRecord
BY DEF Types, TypesStep, ThreadsFit

\* A thread that goes on or ends,
LEMMA ThreadGoesOn ==
  ASSUME Types, TypesStep, NEW t \in TransactionThreads,
         ForwardToChannel(t) \/ ForwardNothing(t) \/ RefuseFile(t) \/ Store(t) \/ EventFails(t)
  PROVE  /\ \A u \in TransactionThreads : u # t => th'[u] = th[u]
         /\ th[t].pc # "idle" /\ th'[t].last = th[t].last /\ th[t].next <= th'[t].next
         /\ th[t].pc = "store" /\ th'[t].pc = "handle" => th[t].next < th'[t].next
         /\ UNCHANGED <<pushed, open, repeats>>
         /\ ForwardToChannel(t) => \/ th'[t].pc = "store"
                                   \/ th[t].next < th'[t].next
<1>1. th[t] \in ThreadRecord /\ th'[t] \in ThreadRecord
  BY ThreadsAreRecords
<1>2. Handling(t) \/ th[t].pc = "store"
  BY DEF ForwardToChannel, ForwardNothing, RefuseFile, Store, EventFails
<1>3. th[t].next \in 1..th[t].last
  BY <1>2, CurrentFits
<1>4. th[t].pc # "idle" /\ th[t].next <= th[t].last /\ th[t].next \in Nat /\ th[t].last \in Nat
  BY <1>1, <1>2, <1>3 DEF Handling, ThreadRecord
<1>5. UNCHANGED <<pushed, open, repeats>>
  BY DEF ForwardToChannel, ForwardNothing, RefuseFile, Store, EventFails, matrix
<1>6. CASE DropRest(t)
  <2>1. /\ \A u \in TransactionThreads : u # t => th'[u] = th[u]
        /\ th'[t].last = th[t].last /\ th'[t].next = th[t].last + 1
    BY <1>4, <1>6, DropRestFits DEF TypesStep, Types
  <2>2. QED
    BY <1>4, <1>5, <2>1
<1>7. CASE th' = [th EXCEPT ![t].pc = "store"]
  <2>1. /\ \A u \in TransactionThreads : u # t => th'[u] = th[u]
        /\ th'[t] = [th[t] EXCEPT !.pc = "store"]
    BY <1>7 DEF Types, ThreadsFit
  <2>2. th'[t].pc = "store" /\ th'[t].last = th[t].last /\ th'[t].next = th[t].next
    BY <1>1, <2>1 DEF ThreadRecord
  <2>3. QED
    BY <1>4, <1>5, <2>1, <2>2
<1>8. CASE th' = [th EXCEPT ![t].pc = "store", ![t].post = Len(channel) + 1]
  <2>1. /\ \A u \in TransactionThreads : u # t => th'[u] = th[u]
        /\ th'[t] = [th[t] EXCEPT !.pc = "store", !.post = Len(channel) + 1]
    BY <1>8 DEF Types, ThreadsFit
  <2>2. th'[t].pc = "store" /\ th'[t].last = th[t].last /\ th'[t].next = th[t].next
    BY <1>1, <2>1 DEF ThreadRecord
  <2>3. QED
    BY <1>4, <1>5, <2>1, <2>2
<1>9. CASE Store(t)
  <2>1. /\ \A u \in TransactionThreads : u # t => th'[u] = th[u]
        /\ th'[t].pc = "handle" /\ th'[t].last = th[t].last
        /\ th'[t].next = NextEvent(th[t].next + 1, th[t].last)
    BY <1>9, StoreTypes
  <2>2. /\ th[t].next + 1 \in Nat \ {0} /\ th[t].last \in 0..Len(room)
        /\ th[t].next + 1 <= th[t].last + 1
    BY <1>2, <1>4, CurrentFits, Lengths DEF Types
  <2>3. NextEvent(th[t].next + 1, th[t].last) \in th[t].next + 1..th[t].last + 1
    BY <2>2, PassedOver
  <2>4. th[t].next < th'[t].next
    BY <1>4, <2>1, <2>3
  <2>5. th[t].next <= th'[t].next
    BY <1>1, <2>4 DEF ThreadRecord
  <2>6. QED
    BY <1>4, <1>5, <2>1, <2>4, <2>5
<1>10. QED
  BY <1>6, <1>7, <1>8, <1>9 DEF ForwardToChannel, ForwardNothing, RefuseFile, EventFails

LEMMA GoingOnPosts ==
  ASSUME Types, TypesStep, NEW t \in TransactionThreads,
         ForwardToChannel(t) \/ ForwardNothing(t) \/ RefuseFile(t) \/ Store(t) \/ EventFails(t)
  PROVE  NoMoreToPost
<1>1. /\ \A u \in TransactionThreads : u # t => th'[u] = th[u]
      /\ th[t].pc # "idle" /\ th'[t].last = th[t].last /\ th[t].next <= th'[t].next
      /\ th[t].pc = "store" /\ th'[t].pc = "handle" => th[t].next < th'[t].next
      /\ UNCHANGED <<pushed, open, repeats>>
  BY ThreadGoesOn
<1>2. th[t] \in ThreadRecord /\ th'[t] \in ThreadRecord
  BY ThreadsAreRecords
<1>3. \A k \in Nat : ToPost(th'[t], k) => ToPost(th[t], k)
  BY <1>1, <1>2, GoesOnPastEvents
<1>4. PushedUpTo' = PushedUpTo
  BY <1>1 DEF PushedUpTo
<1>5. QED
  BY <1>1, <1>3, <1>4 DEF NoMoreToPost

LEMMA AnswerPosts ==
  ASSUME Types, NEW t \in TransactionThreads, Answer(t)
  PROVE  NoMoreToPost
<1>1. th' = [th EXCEPT ![t] = Idle] /\ UNCHANGED repeats
  BY DEF Answer
<1>2. /\ \A u \in TransactionThreads : u # t => th'[u] = th[u]
      /\ \A k \in Nat : ~ToPost(th'[t], k)
  BY <1>1 DEF Types, ThreadsFit, Idle, ToPost
<1>3. PushedUpTo' = PushedUpTo
  <2>1. CASE open.thread = t /\ pushed' = open.last /\ open' = NoTransaction
    <3>1. open # NoTransaction
      BY <2>1, MessageFlowFits DEF NoTransaction
    <3>2. QED
      BY <2>1, <3>1 DEF PushedUpTo
  <2>2. CASE UNCHANGED <<pushed, open>>
    BY <2>2 DEF PushedUpTo
  <2>3. QED
    BY <2>1, <2>2 DEF Answer
<1>4. QED
  BY <1>1, <1>2, <1>3 DEF NoMoreToPost

LEMMA CrashPosts ==
  ASSUME Crash
  PROVE  NoMoreToPost
<1>1. th' = [t \in TransactionThreads |-> Idle] /\ UNCHANGED <<pushed, open, repeats>>
  BY DEF Crash, matrix
<1>2. \A u \in TransactionThreads, k \in Nat : ~ToPost(th'[u], k)
  BY <1>1 DEF Idle, ToPost
<1>3. QED
  BY <1>1, <1>2 DEF NoMoreToPost, PushedUpTo

\* and every step but a push.
LEMMA StepsWithoutPush ==
  ASSUME Types, TypesStep, [Next]_vars,
         \A t \in TransactionThreads : ~Push(t) /\ ~PushAgain(t)
  PROVE  NoMoreToPost
<1>1. CASE UNCHANGED <<pushed, open, th, repeats>>
  BY <1>1 DEF NoMoreToPost, PushedUpTo
<1>2. ASSUME NEW t \in TransactionThreads, Transaction(t) \/ EventFails(t)
      PROVE  NoMoreToPost
  BY <1>2, GoingOnPosts, AnswerPosts DEF Transaction
<1>3. QED
  BY <1>1, <1>2, CrashPosts, TransactionSteps

\* A push hands its events to a thread, which has them before it instead of the push,
LEMMA PushHandsOver ==
  ASSUME Types, TypesStep, NEW t \in TransactionThreads, Push(t), NEW k \in Nat
  PROVE  /\ ThreadsBefore(k)' \subseteq ThreadsBefore(k) \cup {t}
         /\ t \in ThreadsBefore(k)' => k > PushedUpTo /\ ~(k > PushedUpTo')
         /\ k > PushedUpTo' => k > PushedUpTo
         /\ repeats' = repeats
<1>1. PICK n \in 1..MaxBatch : pushed + n <= Len(room) /\ PushTo(t, pushed + n)
  BY DEF Push
<1>2. open = NoTransaction /\ UNCHANGED <<room, pushed, channel, repeats>>
  BY DEF Push, rocketchat
<1>3. pushed \in Nat /\ Len(room) \in Nat /\ n \in Nat /\ n # 0
  BY <1>1, Lengths, MessageFlowFits DEF Types, DataFits
<1> DEFINE last == pushed + n
<1>4. last \in pushed + 1..Len(room) /\ last \in Nat /\ pushed < last
  BY <1>1, <1>3
<1> HIDE DEF last
<1>5. PushTo(t, last)
  BY <1>1 DEF last
<1>6. th'[t].pc = "handle" /\ th'[t].last = last /\ th'[t].next = NextEvent(pushed + 1, last)
  BY <1>2, <1>4, <1>5, PushToFits DEF TypesStep, Types
<1>7. NextEvent(pushed + 1, last) \in pushed + 1..last + 1
  <2>1. pushed + 1 \in Nat \ {0} /\ last \in 0..Len(room) /\ pushed + 1 <= last + 1
    BY <1>3, <1>4
  <2>2. QED
    BY <2>1, PassedOver
<1>8. open' = [last |-> last, thread |-> t]
  BY <1>5 DEF PushTo
<1>9. PushedUpTo = pushed /\ PushedUpTo' = last
  <2>1. open' # NoTransaction /\ open'.last = last
    BY <1>3, <1>4, <1>8 DEF NoTransaction
  <2>2. QED
    BY <1>2, <2>1 DEF PushedUpTo
<1>10. \A u \in TransactionThreads : u # t => th'[u] = th[u]
  BY <1>5 DEF PushTo, Types, ThreadsFit
<1>11. ThreadsBefore(k)' \subseteq ThreadsBefore(k) \cup {t}
  BY <1>10 DEF ThreadsBefore
<1>12. t \in ThreadsBefore(k)' => pushed < k /\ k <= last
  BY <1>3, <1>4, <1>6, <1>7 DEF ThreadsBefore, ToPost
<1>13. QED
  BY <1>2, <1>3, <1>4, <1>9, <1>11, <1>12

\* also when it is repeated.
LEMMA PushAgainHandsOver ==
  ASSUME Types, TypesStep, NEW t \in TransactionThreads, PushAgain(t), NEW k \in Nat
  PROVE  /\ ThreadsBefore(k)' \subseteq ThreadsBefore(k) \cup {t}
         /\ PushedUpTo' = PushedUpTo
         /\ repeats' = repeats + 1
<1>1. /\ open # NoTransaction /\ PushTo(t, open.last)
      /\ pushed' = pushed /\ repeats' = repeats + 1
  BY DEF PushAgain
<1>2. open' = [last |-> open.last, thread |-> t]
  BY <1>1 DEF PushTo
<1>3. open' # NoTransaction /\ open'.last = open.last
  BY <1>2, MessageFlowFits DEF NoTransaction
<1>4. \A u \in TransactionThreads : u # t => th'[u] = th[u]
  BY <1>1 DEF PushTo, Types, ThreadsFit
<1>5. ThreadsBefore(k)' \subseteq ThreadsBefore(k) \cup {t}
  BY <1>4 DEF ThreadsBefore
<1>6. QED
  BY <1>1, <1>3, <1>5 DEF PushedUpTo

\* A thread that posts an event is past it.
LEMMA ForwardedIsPast ==
  ASSUME Types, TypesStep, NEW t \in TransactionThreads, ForwardToChannel(t)
  PROVE  /\ th[t].next \in 1..Len(room) /\ ByHuman(room, th[t].next)
         /\ \A k \in Nat : k = th[t].next => t \in ThreadsBefore(k) /\ t \notin ThreadsBefore(k)'
<1> DEFINE n == th[t].next
<1>1. Handling(t)
  BY DEF ForwardToChannel
<1>2. /\ n \in 1..th[t].last /\ th[t].last <= Len(room) /\ n \in FromHumans
      /\ th[t] \in ThreadRecord
  BY <1>1, CurrentFits
<1>3. n \in 1..Len(room) /\ ByHuman(room, n)
  <2>1. Len(room) \in Nat /\ FromHumans \subseteq 1..Len(room)
    BY Lengths DEF Types
  <2>2. QED
    BY <1>2, <2>1 DEF FromHumans, ByHuman
<1>4. n \in Nat /\ th[t].last \in Nat /\ n <= th[t].last
  BY <1>2 DEF ThreadRecord
<1>5. ToPost(th[t], n)
  BY <1>1, <1>4 DEF ToPost, Handling
<1>6. ~ToPost(th'[t], n)
  <2>1. \/ th'[t].pc = "store" /\ n <= th'[t].next
        \/ n < th'[t].next
    BY ThreadGoesOn
  <2>2. th'[t].next \in Nat
    BY ThreadsAreRecords DEF ThreadRecord
  <2> HIDE DEF n
  <2>3. QED
    BY <1>4, <2>1, <2>2 DEF ToPost
<1>7. QED
  BY <1>3, <1>5, <1>6 DEF ThreadsBefore

\* In a step without a push and without a post of the room nothing is added,
LEMMA CountedOtherwise ==
  ASSUME Types, TypesStep, [Next]_vars, NoNewMatch,
         NEW k \in 1..Len(room), ByHuman(room, k),
         AtMost(Together(PostsOf(k), ThreadsBefore(k), FirstPush(k)), 1 + repeats)
  PROVE  AtMost(Together(PostsOf(k)', ThreadsBefore(k)', FirstPush(k)'), 1 + repeats')
<1> DEFINE A == PostsOf(k)
           B == ThreadsBefore(k)
           C == FirstPush(k)
           D == PostsOf(k)'
           E == ThreadsBefore(k)'
           F == FirstPush(k)'
<1>1. k \in Nat /\ 1 + repeats \in Nat /\ repeats \in Nat
  BY Lengths DEF Types, DataFits
<1>2. D \subseteq A
  <2>1. room'[k] = room[k] /\ ByHuman(room', k) /\ k \in 1..Len(room')
    BY Lengths DEF TypesStep, Types, Grows, ByHuman, DataFits
  <2>2. \A i \in 1..Len(channel') :
          channel'[i].msg = room'[k].msg => i \in 1..Len(channel) /\ channel[i].msg = room[k].msg
    BY <2>1 DEF NoNewMatch
  <2>3. QED
    BY <2>2 DEF PostsOf
<1>3. CASE \A t \in TransactionThreads : ~Push(t) /\ ~PushAgain(t)
  <2>1. NoMoreToPost
    BY <1>3, StepsWithoutPush
  <2>2. E \subseteq B /\ F \subseteq C /\ repeats' = repeats
    BY <1>1, <2>1 DEF NoMoreToPost, ThreadsBefore, FirstPush
  <2> HIDE DEF A, B, C, D, E, F
  <2>3. AtMost(Together(A, B, C), 1 + repeats)
    BY DEF A, B, C
  <2>4. AtMost(Together(D, E, F), 1 + repeats)
    BY <1>1, <1>2, <2>2, <2>3, TogetherFewer
  <2>5. QED
    BY <2>2, <2>4 DEF D, E, F
<1>4. ASSUME NEW t \in TransactionThreads, Push(t)
      PROVE  AtMost(Together(D, E, F), 1 + repeats')
  <2>1. /\ E \subseteq B \cup {t} /\ repeats' = repeats
        /\ t \in E => k > PushedUpTo /\ ~(k > PushedUpTo')
        /\ k > PushedUpTo' => k > PushedUpTo
    BY <1>1, <1>4, PushHandsOver
  <2>2. F \subseteq C /\ (t \in E => 0 \in C /\ F \subseteq C \ {0})
    <3>1. C = {x \in {0} : k > PushedUpTo} /\ F = {x \in {0} : k > PushedUpTo'}
      BY DEF FirstPush
    <3> HIDE DEF C, E, F
    <3>2. QED
      BY <2>1, <3>1
  <2> HIDE DEF A, B, C, D, E, F
  <2>3. AtMost(Together(A, B, C), 1 + repeats)
    BY DEF A, B, C
  <2>4. CASE t \in E
    <3>1. PICK first \in C : D \subseteq A /\ E \subseteq B \cup {t} /\ F \subseteq C \ {first}
      BY <1>2, <2>1, <2>2, <2>4
    <3>2. \A n \in Nat : AtMost(Together(A, B, C), n) => AtMost(Together(D, E, F), n)
      BY <3>1, TogetherToSecond
    <3>3. AtMost(Together(D, E, F), 1 + repeats)
      BY <1>1, <2>3, <3>2
    <3>4. QED
      BY <2>1, <3>3
  <2>5. CASE t \notin E
    <3>1. E \subseteq B
      BY <2>1, <2>5
    <3>2. AtMost(Together(D, E, F), 1 + repeats)
      BY <1>1, <1>2, <2>2, <2>3, <3>1, TogetherFewer
    <3>3. QED
      BY <2>1, <3>2
  <2>6. QED
    BY <2>4, <2>5
<1>5. ASSUME NEW t \in TransactionThreads, PushAgain(t)
      PROVE  AtMost(Together(D, E, F), 1 + repeats')
  <2>1. /\ E \subseteq B \cup {t} /\ repeats' = repeats + 1
        /\ PushedUpTo' = PushedUpTo
    BY <1>1, <1>5, PushAgainHandsOver
  <2>2. F \subseteq C
    BY <2>1 DEF FirstPush
  <2> HIDE DEF A, B, C, D, E, F
  <2>3. AtMost(Together(A, B, C), 1 + repeats)
    BY DEF A, B, C
  <2>4. AtMost(Together(D, E, F), 1 + repeats + 1)
    BY <1>1, <1>2, <2>1, <2>2, <2>3, TogetherOneMore
  <2>5. 1 + repeats + 1 = 1 + repeats'
    BY <1>1, <2>1
  <2>6. QED
    BY <2>4, <2>5
<1>6. QED
  BY <1>3, <1>4, <1>5

\* a thread that posts an event gives way to the post,
LEMMA CountedForward ==
  ASSUME Types, TypesStep, WrittenOnce, NEW t \in TransactionThreads, ForwardToChannel(t),
         NEW k \in 1..Len(room), ByHuman(room, k),
         AtMost(Together(PostsOf(k), ThreadsBefore(k), FirstPush(k)), 1 + repeats)
  PROVE  AtMost(Together(PostsOf(k)', ThreadsBefore(k)', FirstPush(k)'), 1 + repeats')
<1> DEFINE A == PostsOf(k)
           B == ThreadsBefore(k)
           C == FirstPush(k)
           D == PostsOf(k)'
           E == ThreadsBefore(k)'
           F == FirstPush(k)'
           y == Len(channel) + 1
<1>1. k \in Nat /\ 1 + repeats \in Nat /\ Len(channel) \in Nat
  BY Lengths DEF Types, DataFits
<1>2. E \subseteq B /\ F \subseteq C /\ repeats' = repeats
  <2>1. NoMoreToPost
    BY GoingOnPosts
  <2>2. QED
    BY <1>1, <2>1 DEF NoMoreToPost, ThreadsBefore, FirstPush
<1>3. /\ Len(channel') = Len(channel) + 1
      /\ channel'[Len(channel) + 1].msg = Current(t)
      /\ UNCHANGED room
      /\ \A i \in 1..Len(channel) : channel'[i].msg = channel[i].msg
  BY ForwardPosts DEF ForwardsCurrent, TypesStep, Grows
<1>4. D \subseteq A \cup {y}
  BY <1>1, <1>3 DEF PostsOf
<1>5. /\ th[t].next \in 1..Len(room) /\ ByHuman(room, th[t].next)
      /\ k = th[t].next => t \in B /\ t \notin E
  BY <1>1, ForwardedIsPast
<1>6. ASSUME k # th[t].next
      PROVE  D \subseteq A
  <2>1. room[k].msg # Current(t)
    BY <1>5, <1>6 DEF WrittenOnce, Current
  <2>2. y \notin D
    BY <1>3, <2>1 DEF PostsOf
  <2>3. QED
    BY <1>4, <2>2
<1> HIDE DEF A, B, C, D, E, F, y
<1>7. AtMost(Together(A, B, C), 1 + repeats)
  BY DEF A, B, C
<1>8. AtMost(Together(D, E, F), 1 + repeats)
  <2>1. CASE k = th[t].next
    <3>1. t \in B /\ E \subseteq B \ {t}
      BY <1>2, <1>5, <2>1
    <3>2. 1 + repeats \in Nat /\ D \subseteq A \cup {y} /\ F \subseteq C
      BY <1>1, <1>2, <1>4
    <3>3. \A n \in Nat : AtMost(Together(A, B, C), n) => AtMost(Together(D, E, F), n)
      BY <3>1, <3>2, TogetherToFirst
    <3>4. QED
      BY <1>7, <3>2, <3>3
  <2>2. CASE k # th[t].next
    BY <1>1, <1>2, <1>6, <1>7, <2>2, TogetherFewer
  <2>3. QED
    BY <2>1, <2>2
<1>9. QED
  BY <1>2, <1>8 DEF D, E, F

\* and what was just written waits for its first push.
LEMMA CountedEntry ==
  ASSUME Types, TypesStep, WrittenOnce, [Next]_vars,
         NEW k \in 1..Len(room'), k \notin 1..Len(room), ByHuman(room', k)
  PROVE  AtMost(Together(PostsOf(k)', ThreadsBefore(k)', FirstPush(k)'), 1 + repeats')
<1>1. k = Len(room) + 1 /\ \A l \in 1..Len(room) : room[l].msg # room'[k].msg
  BY EntryIsNew DEF NewEntry
<1>2. PICK m \in Messages : WriteInRoom(m)
  <2>1. ~UNCHANGED room
    BY <1>1
  <2>2. ASSUME NEW t \in WebhookThreads, SendToRoom(t)
        PROVE  FALSE
    <3> DEFINE e == [msg |-> channel[hook[t].post].msg, sender |-> None, part |-> hook[t].part]
    <3>1. room' = Append(room, e)
      BY <2>2 DEF SendToRoom
    <3>2. e.sender = None
      OBVIOUS
    <3> HIDE DEF e
    <3>3. room'[Len(room) + 1] = e
      BY <3>1 DEF Types, DataFits
    <3>4. QED
      BY <1>1, <3>2, <3>3 DEF ByHuman
  <2>3. QED
    BY <2>1, <2>2, RoomSteps
<1>3. UNCHANGED <<channel, th, repeats>> /\ m \in MatrixMessages
  BY <1>2 DEF WriteInRoom, rocketchat
<1>4. room'[k].msg \in MatrixMessages
  <2>1. DataFits' /\ DOMAIN room' = 1..Len(room')
    BY DEF TypesStep, Types, DataFits
  <2>2. k \in FromHumans'
    BY <2>1 DEF FromHumans, ByHuman
  <2>3. QED
    BY <2>1, <2>2 DEF DataFits
<1>5. PostsOf(k)' = {}
  <2>1. \A i \in 1..Len(channel) : channel[i].msg # room'[k].msg
    BY <1>1, <1>4 DEF WrittenOnce
  <2>2. QED
    BY <1>3, <2>1 DEF PostsOf
<1>6. ThreadsBefore(k)' = {}
  <2>1. \A u \in TransactionThreads : th[u].last \in Nat /\ th[u].last <= Len(room)
    BY DEF Types, ThreadsFit, ThreadFits, ThreadRecord
  <2>2. \A u \in TransactionThreads : ~(k <= th'[u].last)
    BY <1>1, <1>3, <2>1, Lengths DEF Types
  <2>3. QED
    BY <2>2 DEF ThreadsBefore, ToPost
<1>7. FirstPush(k)' \subseteq {} \cup {0}
  BY DEF FirstPush
<1>8. repeats' \in Nat /\ repeats' + 1 = 1 + repeats'
  BY <1>3 DEF Types, DataFits
<1>9. AtMost(Together({}, {}, {}), repeats')
  <2>1. Together({}, {}, {}) = {}
    BY DEF Together
  <2>2. QED
    BY <1>8, <2>1, AtMostNone
<1> DEFINE F == FirstPush(k)'
<1> HIDE DEF F
<1>10. AtMost(Together({}, {}, F), repeats' + 1)
  <2>1. F \subseteq {} \cup {0}
    BY <1>7 DEF F
  <2>2. QED
    BY <1>8, <1>9, <2>1, TogetherOneMore
<1>11. QED
  BY <1>5, <1>6, <1>8, <1>10 DEF F

LEMMA PostsCountedStep ==
  ASSUME Types, TypesStep, WrittenOnce, PostsCounted, [Next]_vars
  PROVE  PostsCounted'
<1> SUFFICES ASSUME NEW k \in 1..Len(room'), ByHuman(room', k)
             PROVE  AtMost(Together(PostsOf(k)', ThreadsBefore(k)', FirstPush(k)'), 1 + repeats')
  BY DEF PostsCounted
<1>1. CASE k \notin 1..Len(room)
  BY <1>1, CountedEntry
<1>2. CASE k \in 1..Len(room)
  <2>1. ByHuman(room, k)
    BY <1>2 DEF TypesStep, Grows, ByHuman
  <2>2. AtMost(Together(PostsOf(k), ThreadsBefore(k), FirstPush(k)), 1 + repeats)
    BY <1>2, <2>1 DEF PostsCounted
  <2>3. CASE NoNewMatch
    BY <1>2, <2>1, <2>2, <2>3, CountedOtherwise
  <2>4. CASE \E t \in TransactionThreads : ForwardToChannel(t)
    BY <1>2, <2>1, <2>2, <2>4, CountedForward
  <2>5. QED
    BY <2>3, <2>4, NothingElsePosted
<1>3. QED
  BY <1>1, <1>2

\* A message of the room is posted at most once for every time its transaction is pushed: every
\* error in Dispatcher::process, before or after the post, leaves the rest of the transaction
\* alone until the homeserver pushes it again.
THEOREM PostedOncePerPush == Spec => []OncePerPush
<1>1. Init => PostsCounted
  <2>1. Init => Len(room) = 0
    BY DEF Init
  <2>2. QED
    BY <2>1 DEF PostsCounted
<1>2. IInv /\ PostsCounted /\ [Next]_vars => PostsCounted'
  <2> SUFFICES ASSUME IInv, PostsCounted, [Next]_vars
               PROVE  PostsCounted'
    OBVIOUS
  <2>1. Types /\ HooksFit /\ ClocksFit /\ WrittenOnce
    BY DEF IInv, OrderFits
  <2>2. TypesStep
    BY <2>1, StepTypes
  <2>3. QED
    BY <2>1, <2>2, PostsCountedStep
<1>3. IInv /\ PostsCounted => OncePerPush
  <2> SUFFICES ASSUME IInv, PostsCounted, NEW m \in MatrixMessages
               PROVE  Cardinality(Posts(m)) <= 1 + repeats
    BY DEF OncePerPush
  <2>1. Types /\ WrittenOnce
    BY DEF IInv, OrderFits
  <2>2. repeats \in Nat /\ DOMAIN channel = 1..Len(channel)
    BY <2>1, Lengths DEF Types, DataFits
  <2>3. CASE Posts(m) = {}
    BY <2>2, <2>3, FS_EmptySet
  <2>4. CASE Posts(m) # {}
    <3>1. PICK k \in 1..Len(room) : ByHuman(room, k) /\ room[k].msg = m
      BY <2>1, <2>2, <2>4 DEF Posts, WrittenOnce
    <3>2. AtMost(Together(PostsOf(k), ThreadsBefore(k), FirstPush(k)), 1 + repeats)
      BY <3>1 DEF PostsCounted
    <3>3. Cardinality(PostsOf(k)) <= 1 + repeats
      BY <2>2, <3>2, FirstOfThree
    <3>4. PostsOf(k) = Posts(m)
      BY <2>2, <3>1 DEF PostsOf, Posts
    <3>5. QED
      BY <3>3, <3>4
  <2>5. QED
    BY <2>3, <2>4
<1>4. QED
  BY <1>1, <1>2, <1>3, Inductive, PTL DEF Spec

-----------------------------------------------------------------------------
(***************************************************************************)
(* Messages do not go round in circles: what was written in the channel is *)
(* posted once, and the copies of a part of a message, the threads that    *)
(* are still to send it and the webhooks under way are never more than its *)
(* posts.                                                                  *)
(***************************************************************************)

PostedOnce ==
  \A i, j \in 1..Len(channel) :
    channel[i].msg \in RcMessages /\ channel[i].msg = channel[j].msg => i = j

CopiesOf(m, p) ==
  {i \in 1..Len(room) : room[i] = [msg |-> m, sender |-> None, part |-> p]}
HooksBefore(m, p) ==
  {t \in WebhookThreads :
     hook[t].post # 0 /\ channel[hook[t].post].msg = m /\ hook[t].part <= p}
WebhooksOf(m) == {i \in webhooks : channel[i].msg = m}

CopiesCounted ==
  \A m \in Messages, p \in Nat :
    AtMost(Together(CopiesOf(m, p), HooksBefore(m, p), WebhooksOf(m)), Cardinality(Posts(m)))

LEMMA PostedOnceStep ==
  ASSUME Types, TypesStep, PostedOnce, [Next]_vars
  PROVE  PostedOnce'
<1>1. Grows /\ Len(channel) \in Nat /\ DOMAIN channel = 1..Len(channel)
  BY Lengths DEF Types, TypesStep
<1>2. CASE Len(channel') = Len(channel)
  BY <1>1, <1>2 DEF PostedOnce, Grows
<1>3. ASSUME NEW m \in RcMessages, WriteInChannel(m)
      PROVE  PostedOnce'
  <2>1. m \in Messages /\ PostInChannel(m)
    BY <1>3 DEF WriteInChannel, Messages
  <2>2. /\ Len(channel') = Len(channel) + 1
        /\ channel'[Len(channel) + 1] = [msg |-> m, at |-> now, stored |-> FALSE]
    BY <2>1, ChannelGrows, Zenon DEF Types
  <2>3. channel'[Len(channel) + 1].msg = m
    BY <2>2
  <2>4. \A i \in 1..Len(channel) : channel'[i].msg # m
    BY <1>1, <1>3 DEF WriteInChannel, Written, Grows
  <2>5. QED
    BY <1>1, <2>2, <2>3, <2>4 DEF PostedOnce, Grows
<1>4. ASSUME NEW t \in TransactionThreads, ForwardToChannel(t)
      PROVE  PostedOnce'
  <2>1. Len(channel') = Len(channel) + 1 /\ channel'[Len(channel) + 1].msg = Current(t)
    BY <1>4, ForwardPosts DEF ForwardsCurrent
  <2>2. Current(t) \notin RcMessages
    BY <1>4, CurrentFits, MessageFlowFits DEF ForwardToChannel
  <2>3. QED
    BY <1>1, <2>1, <2>2 DEF PostedOnce, Grows
<1>5. ASSUME NEW t \in TransactionThreads, Store(t)
      PROVE  Len(channel') = Len(channel)
  <2>1. th[t].post \in Nat
    BY <1>5, CurrentFits DEF Store, ThreadRecord
  <2>2. channel' = [i \in DOMAIN channel |->
                     IF i = th[t].post THEN [channel[i] EXCEPT !.stored = TRUE] ELSE channel[i]]
    BY <1>5 DEF Store
  <2>3. QED
    BY <2>1, <2>2, StoredPosts DEF Types
<1>6. QED
  BY <1>2, <1>3, <1>4, <1>5, ChannelSteps

LEMMA PostsCardinality ==
  ASSUME DataFits, NEW m
  PROVE  IsFiniteSet(Posts(m)) /\ Cardinality(Posts(m)) \in Nat
<1>1. Len(channel) \in Nat /\ Posts(m) \subseteq 1..Len(channel)
  BY Lengths DEF Posts
<1>2. IsFiniteSet(1..Len(channel))
  BY <1>1, FS_Interval
<1>3. QED
  BY <1>1, <1>2, FS_Subset, FS_CardinalityType

\* The posts of a message are those that were there,
LEMMA PostsStay ==
  ASSUME DataFits, DataFits', Grows, Len(channel') = Len(channel), NEW m
  PROVE  Posts(m)' = Posts(m)
BY Lengths DEF Posts, Grows, DataFits

\* and a new one.
LEMMA PostsGrow ==
  ASSUME DataFits, DataFits', Grows, NEW m \in Messages, PostInChannel(m), NEW x
  PROVE  /\ x # m => Posts(x)' = Posts(x)
         /\ Cardinality(Posts(m)') = Cardinality(Posts(m)) + 1
         /\ \A i \in 1..Len(channel') : i \in 1..Len(channel) \/ i = Len(channel) + 1
         /\ channel'[Len(channel) + 1].msg = m
<1>1. /\ Len(channel) \in Nat /\ DOMAIN channel = 1..Len(channel)
      /\ Len(channel') \in Nat /\ DOMAIN channel' = 1..Len(channel')
  BY Lengths DEF DataFits
<1>2. /\ Len(channel') = Len(channel) + 1
      /\ channel'[Len(channel) + 1] = [msg |-> m, at |-> now, stored |-> FALSE]
      /\ \A i \in 1..Len(channel) : channel'[i].msg = channel[i].msg
  BY ChannelGrows, Zenon DEF Grows
<1>3. channel'[Len(channel) + 1].msg = m
  BY <1>2
<1>4. \A i \in 1..Len(channel') : i \in 1..Len(channel) \/ i = Len(channel) + 1
  BY <1>1, <1>2
<1>5. x # m => Posts(x)' = Posts(x)
  BY <1>1, <1>2, <1>3, <1>4 DEF Posts
<1>6. Posts(m)' = Posts(m) \cup {Len(channel) + 1} /\ Len(channel) + 1 \notin Posts(m)
  BY <1>1, <1>2, <1>3, <1>4 DEF Posts
<1>7. Cardinality(Posts(m) \cup {Len(channel) + 1}) = Cardinality(Posts(m)) + 1
  BY <1>6, PostsCardinality, FS_AddElement
<1>8. QED
  BY <1>3, <1>4, <1>5, <1>6, <1>7

\* What the steps do to the copies.
LEMMA DeliverySteps ==
  ASSUME Types, [Next]_vars
  PROVE  \/ /\ UNCHANGED <<hook, webhooks>> /\ Len(channel') = Len(channel)
            /\ UNCHANGED room \/ \E m \in MatrixMessages : WriteInRoom(m)
         \/ \E m \in Messages : PostInChannel(m) /\ UNCHANGED <<room, hook>>
         \/ \E t \in WebhookThreads, i \in webhooks : Webhook(t, i)
         \/ \E t \in WebhookThreads : SendToRoom(t)
         \/ /\ UNCHANGED <<room, channel, webhooks>>
            /\ \A t \in WebhookThreads : hook'[t] = hook[t] \/ hook'[t].post = 0
<1>1. ASSUME NEW m \in Messages, Write(m)
      PROVE  \/ UNCHANGED <<hook, webhooks, channel>> /\ m \in MatrixMessages /\ WriteInRoom(m)
             \/ PostInChannel(m) /\ UNCHANGED <<room, hook>>
  BY <1>1 DEF Write, WriteInRoom, WriteInChannel, matrix, rocketchat
<1>2. ASSUME NEW t \in TransactionThreads, ForwardToChannel(t)
      PROVE  \E m \in Messages : PostInChannel(m) /\ UNCHANGED <<room, hook>>
  BY <1>2, CurrentFits DEF ForwardToChannel, matrix, Messages
<1>3. ASSUME NEW t \in TransactionThreads, Store(t)
      PROVE  UNCHANGED <<hook, webhooks, room>> /\ Len(channel') = Len(channel)
  <2>1. th[t].post \in Nat
    BY <1>3, CurrentFits DEF Store, ThreadRecord
  <2>2. channel' = [i \in DOMAIN channel |->
                     IF i = th[t].post THEN [channel[i] EXCEPT !.stored = TRUE] ELSE channel[i]]
    BY <1>3 DEF Store
  <2>3. Len(channel') = Len(channel)
    BY <2>1, <2>2, StoredPosts DEF Types
  <2>4. QED
    BY <1>3, <2>3 DEF Store, matrix
<1>4. ASSUME NEW t \in TransactionThreads,
             Push(t) \/ PushAgain(t) \/ ForwardNothing(t) \/ RefuseFile(t) \/ Answer(t)
             \/ EventFails(t)
      PROVE  UNCHANGED <<hook, webhooks, channel, room>>
  BY <1>4 DEF Push, PushAgain, ForwardNothing, RefuseFile, Answer, EventFails, rocketchat, matrix
<1>5. ASSUME NEW t \in WebhookThreads, SendNothing(t) \/ WebhookFails(t)
      PROVE  /\ UNCHANGED <<room, channel, webhooks>>
             /\ \A u \in WebhookThreads : hook'[u] = hook[u] \/ hook'[u].post = 0
  <2>1. UNCHANGED <<room, channel, webhooks>> /\ hook' = [hook EXCEPT ![t] = NoHook]
    BY <1>5 DEF SendNothing, WebhookFails, matrix, rocketchat
  <2>2. NoHook.post = 0
    BY DEF NoHook
  <2>3. ASSUME NEW u \in WebhookThreads, hook'[u] # hook[u]
        PROVE  hook'[u].post = 0
    BY <2>1, <2>2, <2>3
  <2>4. QED
    BY <2>1, <2>3
<1>6. ASSUME Crash
      PROVE  /\ UNCHANGED <<room, channel, webhooks>>
             /\ \A u \in WebhookThreads : hook'[u].post = 0
  BY <1>6 DEF Crash, NoHook, matrix, rocketchat
<1>7. CASE Tick \/ UNCHANGED vars
  BY <1>7 DEF Tick, vars, matrix, rocketchat
<1>8. QED
  BY <1>1, <1>2, <1>3, <1>4, <1>5, <1>6, <1>7 DEF Next, Transaction, Hook

\* Threads that keep their post or give it up send no more than before.
LEMMA HooksSettle ==
  ASSUME Types, TypesStep, HooksFit, NEW m, NEW p, NEW T \in SUBSET WebhookThreads,
         \A u \in T : hook'[u] = hook[u] \/ hook'[u].post = 0
  PROVE  HooksBefore(m, p)' \cap T \subseteq HooksBefore(m, p)
<1> SUFFICES ASSUME NEW u \in T, u \in HooksBefore(m, p)'
             PROVE  u \in HooksBefore(m, p)
  OBVIOUS
<1>1. hook'[u].post # 0 /\ channel'[hook'[u].post].msg = m /\ hook'[u].part <= p
  BY DEF HooksBefore
<1>2. hook'[u] = hook[u] /\ u \in WebhookThreads
  BY <1>1
<1>3. hook[u].post \in 1..Len(channel)
  <2>1. hook[u].post \in 0..Len(channel) /\ Len(channel) \in Nat
    BY <1>2, Lengths DEF HooksFit, HookFits, Types
  <2>2. QED
    BY <1>1, <1>2, <2>1
<1>4. channel'[hook[u].post].msg = channel[hook[u].post].msg
  BY <1>3 DEF TypesStep, Grows
<1>5. QED
  BY <1>1, <1>2, <1>4 DEF HooksBefore

LEMMA AllHooksSettle ==
  ASSUME Types, TypesStep, HooksFit, NEW m, NEW p,
         \A u \in WebhookThreads : hook'[u] = hook[u] \/ hook'[u].post = 0
  PROVE  HooksBefore(m, p)' \subseteq HooksBefore(m, p)
<1>1. HooksBefore(m, p)' \cap WebhookThreads \subseteq HooksBefore(m, p)
  BY HooksSettle
<1>2. HooksBefore(m, p)' \subseteq WebhookThreads
  BY DEF HooksBefore
<1>3. QED
  BY <1>1, <1>2

\* Webhooks of posts that were there.
LEMMA WebhooksStay ==
  ASSUME Types, TypesStep, NEW m, webhooks' \subseteq webhooks
  PROVE  WebhooksOf(m)' \subseteq WebhooksOf(m)
<1>1. \A i \in webhooks : channel'[i].msg = channel[i].msg
  BY Lengths DEF Types, DataFits, TypesStep, Grows
<1>2. QED
  BY <1>1 DEF WebhooksOf

LEMMA CopiesStay ==
  ASSUME NEW m, NEW p, UNCHANGED room
  PROVE  CopiesOf(m, p)' = CopiesOf(m, p)
BY DEF CopiesOf

LEMMA CountedCopies ==
  ASSUME Types, CopiesCounted, NEW m \in Messages, NEW p \in Nat
  PROVE  /\ Cardinality(Posts(m)) \in Nat
         /\ AtMost(Together(CopiesOf(m, p), HooksBefore(m, p), WebhooksOf(m)),
                   Cardinality(Posts(m)))
BY PostsCardinality DEF Types, CopiesCounted

\* What is counted after a step.
CountedNext(m, p) ==
  AtMost(Together(CopiesOf(m, p)', HooksBefore(m, p)', WebhooksOf(m)'), Cardinality(Posts(m)'))

\* Nothing is added,
LEMMA DeliveryFewer ==
  ASSUME Types, TypesStep, CopiesCounted, NEW m \in Messages, NEW p \in Nat,
         Len(channel') = Len(channel),
         CopiesOf(m, p)' \subseteq CopiesOf(m, p),
         HooksBefore(m, p)' \subseteq HooksBefore(m, p),
         WebhooksOf(m)' \subseteq WebhooksOf(m)
  PROVE  CountedNext(m, p)
<1>1. Posts(m)' = Posts(m)
  BY PostsStay DEF Types, TypesStep
<1> DEFINE D == CopiesOf(m, p)'
           E == HooksBefore(m, p)'
           F == WebhooksOf(m)'
           n == Cardinality(Posts(m))
<1>2. n \in Nat /\ AtMost(Together(CopiesOf(m, p), HooksBefore(m, p), WebhooksOf(m)), n)
  BY CountedCopies
<1>3. D \subseteq CopiesOf(m, p) /\ E \subseteq HooksBefore(m, p) /\ F \subseteq WebhooksOf(m)
  OBVIOUS
<1> HIDE DEF D, E, F, n
<1>4. AtMost(Together(D, E, F), n)
  BY <1>2, <1>3, TogetherFewer
<1>5. QED
  BY <1>1, <1>4 DEF CountedNext, D, E, F, n

\* a post comes with a webhook,
LEMMA DeliveryPosted ==
  ASSUME Types, TypesStep, HooksFit, CopiesCounted, NEW m \in Messages, NEW p \in Nat,
         NEW x \in Messages, PostInChannel(x), UNCHANGED <<room, hook>>
  PROVE  CountedNext(m, p)
<1> DEFINE D == CopiesOf(m, p)'
           E == HooksBefore(m, p)'
           F == WebhooksOf(m)'
           A == CopiesOf(m, p)
           B == HooksBefore(m, p)
           C == WebhooksOf(m)
           n == Cardinality(Posts(m))
           y == Len(channel) + 1
<1>1. n \in Nat /\ AtMost(Together(A, B, C), n)
  BY CountedCopies
<1>2. D \subseteq A /\ E \subseteq B
  BY AllHooksSettle, CopiesStay
<1>3. /\ m # x => Posts(m)' = Posts(m)
      /\ Cardinality(Posts(x)') = Cardinality(Posts(x)) + 1
      /\ channel'[y].msg = x
  BY PostsGrow DEF Types, TypesStep
<1>4. webhooks' = webhooks \cup {y}
  BY DEF PostInChannel
<1>5. \A i \in webhooks : channel'[i].msg = channel[i].msg
  BY Lengths DEF Types, DataFits, TypesStep, Grows
<1>6. F \subseteq C \cup {y} /\ (m # x => F \subseteq C)
  BY <1>3, <1>4, <1>5 DEF WebhooksOf
<1> HIDE DEF A, B, C, D, E, F, y
<1>7. CASE m = x
  <2>1. \A k \in Nat : AtMost(Together(A, B, C), k) => AtMost(Together(D, E, F), k + 1)
    BY <1>2, <1>6, TogetherOneMore
  <2>2. AtMost(Together(D, E, F), n + 1)
    BY <1>1, <2>1
  <2>3. QED
    BY <1>3, <1>7, <2>2 DEF CountedNext, D, E, F, n
<1>8. CASE m # x
  <2>1. \A k \in Nat : AtMost(Together(A, B, C), k) => AtMost(Together(D, E, F), k)
    BY <1>2, <1>6, <1>8, TogetherFewer
  <2>2. AtMost(Together(D, E, F), n)
    BY <1>1, <2>1
  <2>3. QED
    BY <1>3, <1>8, <2>2 DEF CountedNext, D, E, F, n
<1>9. QED
  BY <1>7, <1>8

\* a webhook gives way to its thread,
LEMMA DeliveryTaken ==
  ASSUME Types, TypesStep, HooksFit, CopiesCounted, NEW m \in Messages, NEW p \in Nat,
         NEW t \in WebhookThreads, NEW i \in webhooks, Webhook(t, i)
  PROVE  CountedNext(m, p)
<1> DEFINE D == CopiesOf(m, p)'
           E == HooksBefore(m, p)'
           F == WebhooksOf(m)'
           A == CopiesOf(m, p)
           B == HooksBefore(m, p)
           C == WebhooksOf(m)
           n == Cardinality(Posts(m))
<1>1. /\ webhooks' = webhooks \ {i} /\ UNCHANGED <<room, channel>>
      /\ \/ hook' = [hook EXCEPT ![t] = [post |-> i, part |-> 1]]
         \/ UNCHANGED hook
  BY DEF Webhook, matrix
<1>2. D \subseteq A /\ F \subseteq C
  BY <1>1, CopiesStay, WebhooksStay
<1>3. CASE UNCHANGED hook
  <2>1. E \subseteq B
    BY <1>3, AllHooksSettle
  <2>2. QED
    BY <1>1, <1>2, <2>1, DeliveryFewer
<1>4. CASE hook' = [hook EXCEPT ![t] = [post |-> i, part |-> 1]]
  <2>1. hook'[t] = [post |-> i, part |-> 1] /\ \A u \in WebhookThreads \ {t} : hook'[u] = hook[u]
    BY <1>4 DEF HooksFit
  <2>2. E \subseteq B \cup {t}
    <3>1. HooksBefore(m, p)' \cap (WebhookThreads \ {t}) \subseteq HooksBefore(m, p)
      BY <2>1, HooksSettle
    <3>2. HooksBefore(m, p)' \subseteq WebhookThreads
      BY DEF HooksBefore
    <3>3. QED
      BY <3>1, <3>2
  <2>3. CASE channel[i].msg # m
    <3>1. t \notin E
      BY <1>1, <2>1, <2>3 DEF HooksBefore
    <3>2. E \subseteq B
      BY <2>2, <3>1
    <3>3. QED
      BY <1>1, <1>2, <3>2, DeliveryFewer
  <2>4. CASE channel[i].msg = m
    <3>1. i \in C /\ i \notin F
      BY <1>1, <2>4 DEF WebhooksOf
    <3>2. Posts(m)' = Posts(m)
      BY <1>1 DEF Posts
    <3>3. n \in Nat /\ AtMost(Together(A, B, C), n)
      BY CountedCopies
    <3> HIDE DEF A, B, C, D, E, F
    <3>4. F \subseteq C \ {i}
      BY <1>2, <3>1
    <3>5. \A k \in Nat : AtMost(Together(A, B, C), k) => AtMost(Together(D, E, F), k)
      BY <1>2, <2>2, <3>1, <3>4, TogetherToSecond
    <3>6. AtMost(Together(D, E, F), n)
      BY <3>3, <3>5
    <3>7. QED
      BY <3>2, <3>6 DEF CountedNext, D, E, F, n
  <2>5. QED
    BY <2>3, <2>4
<1>5. QED
  BY <1>1, <1>3, <1>4

\* a thread gives way to the part that it sends,
LEMMA DeliverySent ==
  ASSUME Types, TypesStep, HooksFit, CopiesCounted, NEW m \in Messages, NEW p \in Nat,
         NEW t \in WebhookThreads, SendToRoom(t)
  PROVE  CountedNext(m, p)
<1> DEFINE D == CopiesOf(m, p)'
           E == HooksBefore(m, p)'
           F == WebhooksOf(m)'
           A == CopiesOf(m, p)
           B == HooksBefore(m, p)
           C == WebhooksOf(m)
           n == Cardinality(Posts(m))
           h == hook[t]
           x == channel[h.post].msg
           e == [msg |-> x, sender |-> None, part |-> h.part]
           y == Len(room) + 1
<1>1. /\ h.post # 0
      /\ room' = Append(room, e)
      /\ hook' = [hook EXCEPT ![t] = AfterPart(h)]
      /\ UNCHANGED <<channel, webhooks>>
  BY DEF SendToRoom, rocketchat
<1>2. F \subseteq C /\ Posts(m)' = Posts(m)
  BY <1>1, WebhooksStay DEF Posts
<1>3. HookFits(h, room, channel)
  BY DEF HooksFit
<1>4. h \in [post : 0..Len(channel), part : Nat \ {0}] /\ h.part \in Nat
  BY <1>3 DEF HookFits
<1>5. hook'[t] = AfterPart(h) /\ \A u \in WebhookThreads \ {t} : hook'[u] = hook[u]
  BY <1>1 DEF HooksFit
<1>6. \/ AfterPart(h).post = 0
      \/ AfterPart(h).post = h.post /\ AfterPart(h).part = h.part + 1
  <2>1. NoHook.post = 0
    BY DEF NoHook
  <2>2. \A g \in [post : 0..Len(channel), part : Nat \ {0}], q \in Nat :
          LET s == [g EXCEPT !.part = q] IN s.post = g.post /\ s.part = q
    OBVIOUS
  <2>3. h.part + 1 \in Nat
    BY <1>4
  <2>4. AfterPart(h) = NoHook \/ AfterPart(h) = [h EXCEPT !.part = h.part + 1]
    BY DEF AfterPart
  <2>5. QED
    BY <1>4, <2>1, <2>2, <2>3, <2>4, Zenon
<1>7. t \in E => x = m /\ h.part + 1 <= p
  BY <1>1, <1>5, <1>6 DEF HooksBefore
<1>8. h.part + 1 <= p => h.part <= p /\ h.part # p
  BY <1>4
<1>9. t \in E => t \in B
  BY <1>1, <1>7, <1>8 DEF HooksBefore
<1>10. E \subseteq B
  <2>1. HooksBefore(m, p)' \cap (WebhookThreads \ {t}) \subseteq HooksBefore(m, p)
    BY <1>5, HooksSettle
  <2>2. HooksBefore(m, p)' \subseteq WebhookThreads
    BY DEF HooksBefore
  <2>3. QED
    BY <1>9, <2>1, <2>2
<1>11. /\ Len(room') = y /\ room'[y] = e /\ Len(room) \in Nat
       /\ \A i \in 1..Len(room) : room'[i] = room[i]
  <2>1. room \in Seq(Entry)
    BY DEF Types, DataFits
  <2> HIDE DEF e
  <2>2. QED
    BY <1>1, <2>1
<1>12. D \subseteq A \cup {y}
  BY <1>11 DEF CopiesOf
<1>13. CASE x = m /\ h.part = p
  <2>1. t \in B
    BY <1>1, <1>4, <1>13 DEF HooksBefore
  <2>2. t \notin E
    BY <1>7, <1>8, <1>13
  <2>3. n \in Nat /\ AtMost(Together(A, B, C), n)
    BY CountedCopies
  <2> HIDE DEF A, B, C, D, E, F, y
  <2>4. E \subseteq B \ {t}
    BY <1>10, <2>2
  <2>5. \A k \in Nat : AtMost(Together(A, B, C), k) => AtMost(Together(D, E, F), k)
    BY <1>2, <1>12, <2>1, <2>4, TogetherToFirst
  <2>6. AtMost(Together(D, E, F), n)
    BY <2>3, <2>5
  <2>7. QED
    BY <1>2, <2>6 DEF CountedNext, D, E, F, n
<1>14. CASE ~(x = m /\ h.part = p)
  <2>1. e # [msg |-> m, sender |-> None, part |-> p]
    BY <1>14
  <2>2. y \notin D
    <3> HIDE DEF e
    <3>1. QED
      BY <1>11, <2>1 DEF CopiesOf
  <2>3. D \subseteq A
    BY <1>12, <2>2
  <2>4. Len(channel') = Len(channel)
    BY <1>1
  <2>5. QED
    BY <1>2, <1>10, <2>3, <2>4, DeliveryFewer
<1>15. QED
  BY <1>13, <1>14

\* and what a human writes is no copy.
LEMMA DeliveryWritten ==
  ASSUME Types, TypesStep, HooksFit, CopiesCounted, NEW m \in Messages, NEW p \in Nat,
         UNCHANGED <<hook, webhooks>>, Len(channel') = Len(channel),
         UNCHANGED room \/ \E x \in MatrixMessages : WriteInRoom(x)
  PROVE  CountedNext(m, p)
<1>1. HooksBefore(m, p)' \subseteq HooksBefore(m, p)
  BY AllHooksSettle
<1>2. WebhooksOf(m)' \subseteq WebhooksOf(m)
  BY WebhooksStay
<1>3. CASE UNCHANGED room
  BY <1>1, <1>2, <1>3, CopiesStay, DeliveryFewer
<1>4. ASSUME NEW x \in MatrixMessages, WriteInRoom(x)
      PROVE  CopiesOf(m, p)' \subseteq CopiesOf(m, p)
  <2> DEFINE e == [msg |-> x, sender |-> Author[x], part |-> 0]
  <2>1. room' = Append(room, e) /\ room \in Seq(Entry)
    BY <1>4 DEF WriteInRoom, Types, DataFits
  <2>2. e # [msg |-> m, sender |-> None, part |-> p]
    BY MessageFlowFits
  <2> HIDE DEF e
  <2>3. /\ Len(room') = Len(room) + 1 /\ room'[Len(room) + 1] = e /\ Len(room) \in Nat
        /\ \A i \in 1..Len(room) : room'[i] = room[i]
    BY <2>1
  <2>4. QED
    BY <2>2, <2>3 DEF CopiesOf
<1>5. QED
  BY <1>1, <1>2, <1>3, <1>4, DeliveryFewer

LEMMA CopiesCountedStep ==
  ASSUME Types, TypesStep, HooksFit, CopiesCounted, [Next]_vars
  PROVE  CopiesCounted'
<1> SUFFICES ASSUME NEW m \in Messages, NEW p \in Nat
             PROVE  CountedNext(m, p)
  BY DEF CopiesCounted, CountedNext
<1>1. CASE /\ UNCHANGED <<room, channel, webhooks>>
           /\ \A t \in WebhookThreads : hook'[t] = hook[t] \/ hook'[t].post = 0
  <2>1. CopiesOf(m, p)' \subseteq CopiesOf(m, p) /\ Len(channel') = Len(channel)
    BY <1>1, CopiesStay
  <2>2. WebhooksOf(m)' \subseteq WebhooksOf(m)
    BY <1>1, WebhooksStay
  <2>3. HooksBefore(m, p)' \subseteq HooksBefore(m, p)
    BY <1>1, AllHooksSettle
  <2>4. QED
    BY <2>1, <2>2, <2>3, DeliveryFewer
<1>2. QED
  BY <1>1, DeliverySteps, DeliveryPosted, DeliveryTaken, DeliverySent, DeliveryWritten

\* The application service makes no loop: it never posts in the channel what was written there,
\* and the room gets no more copies of a message, and of each of its files, than the message has
\* posts, whatever Forwarder::is_sendable_message lets through.
THEOREM MessagesDoNotLoop == Spec => []NoLoop
<1>1. Init => PostedOnce /\ CopiesCounted
  <2> SUFFICES ASSUME Init
               PROVE  PostedOnce /\ CopiesCounted
    OBVIOUS
  <2>1. /\ Len(room) = 0 /\ Len(channel) = 0 /\ DOMAIN channel = {} /\ webhooks = {}
        /\ \A t \in WebhookThreads : hook[t].post = 0
    BY DEF Init, NoHook
  <2>2. ASSUME NEW m \in Messages, NEW p \in Nat
        PROVE  AtMost(Together(CopiesOf(m, p), HooksBefore(m, p), WebhooksOf(m)),
                      Cardinality(Posts(m)))
    <3>1. Posts(m) = {} /\ CopiesOf(m, p) = {} /\ HooksBefore(m, p) = {} /\ WebhooksOf(m) = {}
      BY <2>1 DEF Posts, CopiesOf, HooksBefore, WebhooksOf
    <3>2. Together({}, {}, {}) = {}
      BY DEF Together
    <3>3. QED
      BY <3>1, <3>2, AtMostNone, FS_EmptySet
  <2>3. QED
    BY <2>1, <2>2 DEF PostedOnce, CopiesCounted
<1>2. IInv /\ PostedOnce /\ CopiesCounted /\ [Next]_vars => (PostedOnce /\ CopiesCounted)'
  <2> SUFFICES ASSUME IInv, PostedOnce, CopiesCounted, [Next]_vars
               PROVE  PostedOnce' /\ CopiesCounted'
    OBVIOUS
  <2>1. Types /\ HooksFit /\ ClocksFit
    BY DEF IInv
  <2>2. TypesStep
    BY <2>1, StepTypes
  <2>3. QED
    BY <2>1, <2>2, PostedOnceStep, CopiesCountedStep
<1>3. IInv /\ PostedOnce /\ CopiesCounted => NoLoop
  <2> SUFFICES ASSUME IInv, PostedOnce, CopiesCounted
               PROVE  NoLoop
    OBVIOUS
  <2>1. Types /\ DataFits
    BY DEF IInv, Types
  <2>2. ASSUME NEW m \in RcMessages
        PROVE  Cardinality(Posts(m)) <= 1
    <3>1. \A i, j \in Posts(m) : i = j
      BY <2>1, Lengths DEF Posts, PostedOnce
    <3>2. CASE Posts(m) = {}
      BY <3>2, FS_EmptySet
    <3>3. CASE Posts(m) # {}
      <4>1. PICK i \in Posts(m) : Posts(m) = {i}
        BY <3>1, <3>3
      <4>2. Cardinality({i}) = 1
        BY FS_Singleton, Zenon
      <4>3. Cardinality(Posts(m)) = 1
        BY <4>1, <4>2, Zenon
      <4>4. QED
        BY <4>3
    <3>4. QED
      BY <3>2, <3>3
  <2>3. ASSUME NEW i \in DOMAIN room, room[i].sender = None
        PROVE  Cardinality(Copies(room[i].msg, room[i].part)) <= Cardinality(Posts(room[i].msg))
    <3> DEFINE m == room[i].msg
               p == room[i].part
    <3>1. m \in Messages /\ p \in Nat
      BY <2>1, <2>3, Lengths DEF Entry
    <3>2. Copies(m, p) = CopiesOf(m, p)
      BY <2>1, Lengths DEF Copies, CopiesOf
    <3> HIDE DEF m, p
    <3>3. /\ Cardinality(Posts(m)) \in Nat
          /\ AtMost(Together(CopiesOf(m, p), HooksBefore(m, p), WebhooksOf(m)),
                    Cardinality(Posts(m)))
      BY <2>1, <3>1, CountedCopies
    <3>4. Cardinality(CopiesOf(m, p)) <= Cardinality(Posts(m))
      BY <3>3, FirstOfThree
    <3>5. QED
      BY <3>2, <3>4 DEF m, p
  <2>4. QED
    BY <2>2, <2>3 DEF NoLoop
<1>4. QED
  BY <1>1, <1>2, <1>3, Inductive, PTL DEF Spec

=============================================================================
