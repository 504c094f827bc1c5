---------------------------- MODULE ConnectionPool ---------------------------
(***************************************************************************)
(* The threads that serve requests, and the pool of database connections   *)
(* they share.  iron handles every request in a thread.  The pool is kept  *)
(* behind a mutex, ConnectionPool::from_request locks it and waits inside  *)
(* for a connection that is free, and the handler keeps its connection     *)
(* while it makes its calls.  A webhook takes a connection twice: to look  *)
(* the token up, and to forward the message.  A connection goes back to    *)
(* the pool without the mutex.  The calls of a transaction that bridges a  *)
(* channel are the requests for the pages of its members; a message is     *)
(* one call.                                                               *)
(***************************************************************************)

EXTENDS Pagination

CONSTANTS
  TransactionThreads, WebhookThreads,
  None,
  Connections,     \* the size of the pool
  RocketchatUsers, \* numbers: users that can be members of the channel
  MaxServed,       \* bound on requests
  MaxChanges       \* bound on changes of the channel's members

Threads == TransactionThreads \cup WebhookThreads

ASSUME ConnectionPoolFits ==
  /\ TransactionThreads \cap WebhookThreads = {}
  /\ None \notin Threads
  /\ Connections \in Nat \ {0}
  /\ RocketchatUsers \subseteq Int
  /\ IsFiniteSet(RocketchatUsers)
  /\ MaxServed \in Nat
  /\ MaxChanges \in Nat

VARIABLES
  mutex,    \* the thread that has locked the pool
  th,       \* what every thread is doing
  held,     \* threads that keep a connection
  members,  \* members of the channel on Rocket.Chat
  read,     \* the read of the members of every transaction
  stayed,   \* users that were members during the whole read
  came,     \* transactions during whose read a user became a member
  went,     \* transactions during whose read a user ceased to be a member
  served,   \* requests so far
  changes   \* changes of the members so far

history == <<stayed, came, went>>
channelVars == <<members, read, history, changes>>
vars == <<mutex, th, held, channelVars, served>>

\* lock: waits for the mutex; get: waits for a connection; token: looks the token up; call:
\* the handler makes its calls.
Pcs == {"idle", "lock", "get", "token", "call"}

\* What the connection is for: the middleware or the handler.
Stages == {"none", "token", "call"}

Thread == {s \in [pc : Pcs, stage : Stages] : s.pc = "idle" <=> s.stage = "none"}

Idle == [pc |-> "idle", stage |-> "none"]

At(t, pc) == th[t].pc = pc

Free == Connections - Cardinality(held)

Done(t) == th' = [th EXCEPT ![t] = Idle]

-----------------------------------------------------------------------------

\* A request arrives: the middleware of a webhook runs before its handler.
Request(t) ==
  /\ At(t, "idle")
  /\ served < MaxServed
  /\ served' = served + 1
  /\ th' = [th EXCEPT ![t] =
              [pc |-> "lock", stage |-> IF t \in WebhookThreads THEN "token" ELSE "call"]]
  /\ UNCHANGED <<mutex, held, channelVars>>

\* ConnectionPool::from_request
Lock(t) ==
  /\ At(t, "lock")
  /\ mutex = None
  /\ mutex' = t
  /\ th' = [th EXCEPT ![t].pc = "get"]
  /\ UNCHANGED <<held, channelVars, served>>

Get(t) ==
  /\ At(t, "get")
  /\ Free > 0
  /\ mutex' = None
  /\ held' = held \cup {t}
  /\ th' = [th EXCEPT ![t].pc = th[t].stage]
  /\ IF t \in TransactionThreads
       THEN /\ read' = [read EXCEPT ![t] = NewRead]
            /\ stayed' = [stayed EXCEPT ![t] = members]
            /\ came' = came \ {t}
            /\ went' = went \ {t}
       ELSE UNCHANGED <<read, history>>
  /\ UNCHANGED <<members, changes, served>>

\* No connection is returned for 30 seconds: the request is answered with an error.
TimesOut(t) ==
  /\ At(t, "get")
  /\ Free = 0
  /\ mutex' = None
  /\ Done(t)
  /\ UNCHANGED <<held, channelVars, served>>

\* Mutant: the middleware keeps its connection until the request is answered.
CheckTokenAndKeep(t) ==
  /\ At(t, "token")
  /\ \/ th' = [th EXCEPT ![t] = [pc |-> "lock", stage |-> "call"]] /\ UNCHANGED held
     \/ Done(t) /\ held' = held \ {t}
  /\ UNCHANGED <<mutex, channelVars, served>>

\* RocketchatToken::before: the connection is returned when the token has been looked up, and
\* the handler takes one again if the token is known.
CheckToken(t) ==
  /\ At(t, "token")
  /\ held' = held \ {t}
  /\ th' = [th EXCEPT ![t] = [pc |-> "lock", stage |-> "call"]] \/ Done(t)
  /\ UNCHANGED <<mutex, channelVars, served>>

\* A webhook's handler forwards the message; any handler ends when a call fails.
HandlerEnds(t) ==
  /\ At(t, "call")
  /\ held' = held \ {t}
  /\ Done(t)
  /\ UNCHANGED <<mutex, channelVars, served>>

\* The handler of a bridge command gets one page of the members, and is done after the last.
ReadPage(t) ==
  LET next == AfterResponse(read[t], Response(members, read[t].offset)) IN
  /\ At(t, "call")
  /\ t \in TransactionThreads
  /\ read' = [read EXCEPT ![t] = next]
  /\ IF next.end = "no" THEN UNCHANGED <<th, held>> ELSE Done(t) /\ held' = held \ {t}
  /\ UNCHANGED <<mutex, members, history, changes, served>>

-----------------------------------------------------------------------------
(***************************************************************************)
(* Rocket.Chat: users enter and leave the channel.                         *)
(***************************************************************************)

Reading == {t \in TransactionThreads : At(t, "call")}

Enters(u) ==
  /\ u \notin members
  /\ changes < MaxChanges
  /\ changes' = changes + 1
  /\ members' = members \cup {u}
  /\ came' = came \cup Reading
  /\ UNCHANGED <<mutex, th, held, read, stayed, went, served>>

Exits(u) ==
  /\ u \in members
  /\ changes < MaxChanges
  /\ changes' = changes + 1
  /\ members' = members \ {u}
  /\ stayed' = [t \in TransactionThreads |-> IF t \in Reading THEN stayed[t] \ {u} ELSE stayed[t]]
  /\ went' = went \cup Reading
  /\ UNCHANGED <<mutex, th, held, read, came, served>>

-----------------------------------------------------------------------------

Init ==
  /\ mutex = None
  /\ th = [t \in Threads |-> Idle]
  /\ held = {}
  /\ members \in SUBSET RocketchatUsers
  /\ read = [t \in TransactionThreads |-> NewRead]
  /\ stayed = [t \in TransactionThreads |-> {}]
  /\ came = {}
  /\ went = {}
  /\ served = 0
  /\ changes = 0

\* A thread goes on.
Step(t) == Lock(t) \/ Get(t) \/ CheckToken(t) \/ ReadPage(t) \/ (t \in WebhookThreads /\ HandlerEnds(t))

Next ==
  \/ \E t \in Threads : Request(t) \/ Step(t) \/ TimesOut(t) \/ HandlerEnds(t)
  \/ \E u \in RocketchatUsers : Enters(u) \/ Exits(u)

Spec == Init /\ [][Next]_vars

\* Threads run and calls are answered; that waiting is cut short by TimesOut is not counted on.
FairSpec == Spec /\ \A t \in Threads : WF_vars(Step(t))

-----------------------------------------------------------------------------
(***************************************************************************)
(* Properties                                                              *)
(***************************************************************************)

\* The type of every variable.
TypeOK ==
  /\ mutex \in Threads \cup {None}
  /\ th \in [Threads -> Thread]
  /\ held \subseteq Threads
  /\ members \subseteq RocketchatUsers
  /\ read \in [TransactionThreads -> Read]
  /\ stayed \in [TransactionThreads -> SUBSET RocketchatUsers]
  /\ came \cup went \subseteq TransactionThreads
  /\ served \in 0..MaxServed
  /\ changes \in 0..MaxChanges

\* A thread that waits for the mutex or for a connection keeps no connection, and only one
\* thread has the mutex: whoever waits, waits for threads that are at work.  A connection that
\* is not returned, or the one of the middleware kept for the handler, would make requests wait
\* for each other.
PoolWaitsForWork ==
  /\ \A t \in Threads : mutex = t <=> At(t, "get")
  /\ \A t \in held : th[t].pc \in {"token", "call"}

\* Every request is answered, without waiting for the timeout of the pool: connections come
\* back, and a read ends after MaxRequests although the subtotal never equals the total when
\* members leave meanwhile.
EveryRequestIsAnswered == \A t \in Threads : ~At(t, "idle") ~> At(t, "idle")

Got(t) == {read[t].got[i] : i \in DOMAIN read[t].got}

\* A read that is complete has missed nobody who was a member all the time, unless somebody left
\* the channel during the read.
MissedOnlyIfSomebodyWent ==
  \A t \in TransactionThreads :
    read[t].end = "complete" /\ t \notin went => stayed[t] \subseteq Got(t)

\* A read returns nobody twice, unless somebody entered the channel during the read.
RepeatedOnlyIfSomebodyCame ==
  \A t \in TransactionThreads :
    t \notin came => Cardinality(Got(t)) = Len(read[t].got)

=============================================================================
