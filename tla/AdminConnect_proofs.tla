-------------------------- MODULE AdminConnect_proofs --------------------------
(***************************************************************************)
(* Theorems about AdminConnect, for every set of humans, rooms, servers    *)
(* and login threads and for every bound on the requests and the faults.   *)
(***************************************************************************)

EXTENDS AdminConnect, TLAPS

(***************************************************************************)
(* The inductive invariant                                                 *)
(***************************************************************************)

\* The constraints of the table rocketchat_servers.
ServersDiffer ==
  \A s, o \in servers : s.id = o.id \/ s.url = o.url \/ s.token = o.token => s = o

\* The foreign key of users_on_rocketchat_servers.
RowsHaveServers ==
  \A h \in Humans, i \in Ids : users[h][i] # "none" => \E s \in servers : s.id = i

\* Only the thread of the homeserver connects, and a login is a login to a known server.
LoginsFindServers ==
  /\ \A t \in LoginThreads : th[t].pc \in {"idle", "rc_login"}
  /\ \A t \in Threads : th[t].pc \in LoginPcs => th[t].server \in servers

\* A connect that is under way is one of the room's owner, whose login nobody relies on, and
\* its server is in the database or can be inserted.
PendingConnect ==
  InTransaction =>
    /\ th[Tx].room \in Rooms
    /\ th[Tx].user = Owner[th[Tx].room]
    /\ th[Tx].server.id \in ValidIds
    /\ <<th[Tx].user, th[Tx].server.id>> \notin loggedIn
    /\ th[Tx].server \in servers \/ Unique(th[Tx].server)

\* The room of a connect is not connected before its topic is set, and has it afterwards.
TopicFollows ==
  /\ th[Tx].pc \in {"probe", "set_topic"} => ServerOf(th[Tx].room) = {}
  /\ th[Tx].pc \in {"send_help", "commit"} => topic[th[Tx].room] = th[Tx].server.url

\* A topic without a server is left behind by a fault, or about to get its server.
KnownTopics ==
  \A r \in Rooms \ disturbed :
    \/ topic[r] = None
    \/ IsConnected(r)
    \/ (th[Tx].pc \in {"send_help", "commit"} /\ th[Tx].room = r)

\* The owner of a room that has a server has a row for it, or the connect that makes one runs.
RoomsHaveRows ==
  \A r \in Rooms \ disturbed : \A s \in ServerOf(r) :
    (InTransaction /\ th[Tx].room = r) \/ users[Owner[r]][s.id] # "none"

IInv ==
  /\ TypeOK
  /\ ServersDiffer
  /\ RowsHaveServers
  /\ LoginsFindServers
  /\ PendingConnect
  /\ TopicFollows
  /\ KnownTopics
  /\ RoomsHaveRows
  /\ ReportedLoginLasts
  /\ ServerHasAUser

(***************************************************************************)
(* What the parts of an action do                                          *)
(***************************************************************************)

\* A busy thread has a user and a server.
LEMMA ThreadType ==
  ASSUME TypeOK, NEW t \in Threads, th[t].pc # "idle"
  PROVE  /\ th[t].pc \in Pcs
         /\ th[t].user \in Humans
         /\ th[t].room \in Rooms \cup {None}
         /\ th[t].server \in Server
BY DEF TypeOK, Thread, Idle

\* A handler that returns leaves the other threads alone,
LEMMA ReturnEffect ==
  ASSUME TypeOK, NEW t \in Threads, Return(t)
  PROVE  /\ th' \in [Threads -> Thread]
         /\ th'[t].pc = "idle"
         /\ \A u \in Threads \ {t} : th'[u] = th[u]
BY DEF TypeOK, Return, Thread, Idle

\* and so does one that goes on to its next call.
LEMMA GotoEffect ==
  ASSUME TypeOK, NEW t \in Threads, NEW pc \in Pcs \ {"idle"}, th[t].pc # "idle", Goto(t, pc)
  PROVE  /\ th' \in [Threads -> Thread]
         /\ th'[t].pc = pc
         /\ th'[t].user = th[t].user
         /\ th'[t].room = th[t].room
         /\ th'[t].server = th[t].server
         /\ \A u \in Threads \ {t} : th'[u] = th[u]
<1>1. th' = [th EXCEPT ![t] = [th[t] EXCEPT !.pc = pc]]
  BY DEF Goto
<1>2. th[t] \in [pc : Pcs \ {"idle"}, user : Humans, room : Rooms \cup {None}, server : Server]
  BY DEF TypeOK, Thread, Idle
<1>3. [th[t] EXCEPT !.pc = pc] \in Thread
  BY <1>2 DEF Thread
<1>4. QED
  BY <1>1, <1>2, <1>3 DEF TypeOK

\* A handler that starts makes its thread busy and leaves the others alone.
LEMMA StartEffect ==
  ASSUME TypeOK, NEW t \in Threads, NEW pc \in Pcs \ {"idle"}, NEW h \in Humans,
         NEW r \in Rooms \cup {None}, NEW s \in Server,
         th' = [th EXCEPT ![t] = [pc |-> pc, user |-> h, room |-> r, server |-> s]]
  PROVE  /\ th' \in [Threads -> Thread]
         /\ th'[t] = [pc |-> pc, user |-> h, room |-> r, server |-> s]
         /\ \A u \in Threads \ {t} : th'[u] = th[u]
BY DEF TypeOK, Thread

\* A fault that hits the thread of a connect marks its room.
LEMMA FaultEffect ==
  ASSUME TypeOK, LoginsFindServers, PendingConnect, NEW ts \in SUBSET Threads, Fault(ts)
  PROVE  /\ disturbed' \subseteq Rooms
         /\ disturbed \subseteq disturbed'
         /\ InTransaction /\ Tx \in ts => th[Tx].room \in disturbed'
         /\ faults' \in 0..MaxFaults
<1>1. disturbed' = disturbed \cup {th[t].room : t \in {u \in ts : th[u].pc \in TransactionPcs}}
  BY DEF Fault, Disturb
<1>2. ASSUME NEW t \in ts, th[t].pc \in TransactionPcs
      PROVE  t = Tx /\ th[t].room \in Rooms
  <2>1. t = Tx
    BY <1>2 DEF LoginsFindServers, Threads, TransactionPcs
  <2>2. QED
    BY <1>2, <2>1 DEF PendingConnect, InTransaction
<1>3. disturbed' \subseteq Rooms
  BY <1>1, <1>2 DEF TypeOK
<1>4. InTransaction /\ Tx \in ts => th[Tx].room \in disturbed'
  BY <1>1 DEF InTransaction
<1>5. faults' \in 0..MaxFaults
  BY AdminConnectFits DEF Fault, TypeOK
<1>6. QED
  BY <1>1, <1>3, <1>4, <1>5

\* What a connect and a login write into the rows of users.
LEMMA RowEffect ==
  ASSUME TypeOK, NEW h \in Humans, NEW s \in Server
  PROVE  /\ Upsert(h, s) \in [Humans -> [Ids -> Row]]
         /\ SetCredentials(h, s) \in [Humans -> [Ids -> Row]]
         /\ \A g \in Humans, i \in Ids :
              /\ Upsert(h, s)[g][i] = IF g = h /\ i = s.id THEN "connected" ELSE users[g][i]
              /\ SetCredentials(h, s)[g][i]
                   = IF g = h /\ i = s.id THEN "logged_in" ELSE users[g][i]
BY DEF TypeOK, Upsert, SetCredentials, Server, Row

\* A login is started by a command or by a request to the endpoint.
LEMMA LoginStarts ==
  ASSUME TypeOK,
         \/ \E r \in Rooms : LoginCommand(r)
         \/ \E t \in LoginThreads, h \in Humans, url \in Urls : LoginRequest(t, h, url)
  PROVE  \E t \in Threads, h \in Humans, r \in Rooms \cup {None}, s \in servers :
           StartLogin(t, h, r, s)
<1>1. ASSUME NEW r \in Rooms, LoginCommand(r)
      PROVE  \E s \in servers : StartLogin(Tx, Owner[r], r, s)
  BY <1>1 DEF LoginCommand, ServerOf, FindByUrl
<1>2. ASSUME NEW t \in LoginThreads, NEW h \in Humans, NEW url \in Urls, LoginRequest(t, h, url)
      PROVE  \E s \in servers : StartLogin(t, h, None, s)
  BY <1>2 DEF LoginRequest, FindByUrl
<1>3. QED
  BY <1>1, <1>2, AdminConnectFits DEF Threads

(***************************************************************************)
(* Types                                                                   *)
(***************************************************************************)

\* The initial state has the right types.
LEMMA InitType == Init => TypeOK
BY AdminConnectFits DEF Init, TypeOK, Thread, Row

\* Handling a request counts it.
LEMMA RequestEffect ==
  ASSUME TypeOK, Request
  PROVE  /\ requests' \in 0..MaxRequests
         /\ UNCHANGED <<topic, servers, users, disturbed, faults>>
BY AdminConnectFits DEF TypeOK, Request, database

\* The call of a busy thread that is answered, or whose answer is lost.
LEMMA AnsweredType ==
  ASSUME TypeOK, LoginsFindServers, PendingConnect, NEW pc \in Pcs \ {"idle"},
         th[Tx].pc # "idle", Answered(Tx, pc)
  PROVE  th' \in [Threads -> Thread] /\ faults' \in 0..MaxFaults /\ disturbed' \subseteq Rooms
<1>1. Tx \in Threads
  BY DEF Threads
<1>2. CASE Goto(Tx, pc) /\ UNCHANGED <<faults, disturbed>>
  BY <1>1, <1>2, GotoEffect DEF TypeOK
<1>3. CASE Return(Tx) /\ Fault({Tx})
  BY <1>1, <1>3, ReturnEffect, FaultEffect
<1>4. QED
  BY <1>2, <1>3 DEF Answered

\* Every step keeps the types.
LEMMA TypeStep == IInv /\ [Next]_vars => TypeOK'
<1> SUFFICES ASSUME IInv, [Next]_vars
             PROVE  TypeOK'
  OBVIOUS
<1>1. TypeOK /\ LoginsFindServers /\ PendingConnect /\ Tx \in Threads
  BY DEF IInv, Threads
<1>2. ASSUME NEW r \in Rooms, AlreadyConnected(r)
      PROVE  TypeOK'
  <2>1. {<<r, s.id>> : s \in ServerOf(r)} \subseteq Rooms \X Ids
    BY <1>1, AdminConnectFits DEF TypeOK, ServerOf, FindByUrl
  <2>2. QED
    BY <1>1, <1>2, <2>1, RequestEffect DEF AlreadyConnected, TypeOK
<1>3. ASSUME NEW r \in Rooms, NEW s \in Server, ConnectNew(r, s)
      PROVE  TypeOK'
  <2>1. th' \in [Threads -> Thread]
    BY <1>1, <1>3, StartEffect, AdminConnectFits DEF ConnectNew, Pcs, TransactionPcs
  <2>2. QED
    BY <1>1, <1>3, <2>1, RequestEffect DEF ConnectNew, TypeOK
<1>4. ASSUME NEW r \in Rooms, NEW s \in servers, ConnectExisting(r, s)
      PROVE  TypeOK'
  <2>1. s \in Server
    BY <1>1, AdminConnectFits DEF TypeOK, Server
  <2>2. th' \in [Threads -> Thread]
    BY <1>1, <1>4, <2>1, StartEffect, AdminConnectFits DEF ConnectExisting, Pcs, TransactionPcs
  <2>3. QED
    BY <1>1, <1>4, <2>2, RequestEffect DEF ConnectExisting, TypeOK
<1>5. ASSUME NEW t \in Threads, NEW h \in Humans, NEW r \in Rooms \cup {None}, NEW s \in servers,
             StartLogin(t, h, r, s)
      PROVE  TypeOK'
  <2>1. s \in Server
    BY <1>1, AdminConnectFits DEF TypeOK, Server
  <2>2. th' \in [Threads -> Thread]
    BY <1>1, <1>5, <2>1, StartEffect DEF StartLogin, Pcs, LoginPcs
  <2>3. QED
    BY <1>1, <1>5, <2>2, RequestEffect DEF StartLogin, TypeOK
<1>6. CASE Probe
  <2>1. th' \in [Threads -> Thread]
    BY <1>1, <1>6, GotoEffect, ReturnEffect DEF Probe, At, Pcs, TransactionPcs
  <2>2. QED
    BY <1>1, <1>6, <2>1 DEF Probe, TypeOK, database, history
<1>7. CASE SetTopic
  <2>1. th[Tx].room \in Rooms /\ th[Tx].server \in Server
    BY <1>1, <1>7, ThreadType DEF SetTopic, At, PendingConnect, InTransaction, TransactionPcs
  <2>2. topic' \in [Rooms -> Urls \cup {None}]
    BY <1>1, <1>7, <2>1 DEF SetTopic, TypeOK, Server
  <2>3. th' \in [Threads -> Thread] /\ faults' \in 0..MaxFaults /\ disturbed' \subseteq Rooms
    BY <1>1, <1>7, AnsweredType DEF SetTopic, At, Pcs, TransactionPcs
  <2>4. QED
    BY <1>1, <1>7, <2>2, <2>3 DEF SetTopic, TypeOK, database
<1>8. CASE SendHelp
  <2>1. th' \in [Threads -> Thread] /\ faults' \in 0..MaxFaults /\ disturbed' \subseteq Rooms
    BY <1>1, <1>8, AnsweredType DEF SendHelp, At, Pcs, TransactionPcs
  <2>2. QED
    BY <1>1, <1>8, <2>1 DEF SendHelp, TypeOK, database
<1>9. CASE Commit
  <2>1. th[Tx].server \in Server /\ th[Tx].server.id \in ValidIds /\ th[Tx].user \in Humans
    BY <1>1, <1>9, ThreadType DEF Commit, At, PendingConnect, InTransaction, TransactionPcs
  <2>2. servers' \subseteq [id : ValidIds, url : Urls, token : Tokens]
    BY <1>1, <1>9, <2>1 DEF Commit, Insert, TypeOK, Server
  <2>3. users' \in [Humans -> [Ids -> Row]]
    BY <1>1, <1>9, <2>1, RowEffect DEF Commit
  <2>4. th' \in [Threads -> Thread]
    BY <1>1, <1>9, ReturnEffect DEF Commit
  <2>5. QED
    BY <1>1, <1>9, <2>2, <2>3, <2>4 DEF Commit, TypeOK
<1>10. CASE SendUsage
  <2>1. th[Tx].server.id \in Ids /\ th[Tx].user \in Humans
    BY <1>1, <1>10, ThreadType DEF SendUsage, At, Server
  <2>2. th' \in [Threads -> Thread]
    BY <1>1, <1>10, ReturnEffect DEF SendUsage
  <2>3. QED
    BY <1>1, <1>10, <2>1, <2>2 DEF SendUsage, TypeOK, database
<1>11. ASSUME NEW t \in Threads, RcLogin(t)
       PROVE  TypeOK'
  <2>1. th[t].pc # "idle" /\ th[t].server \in Server /\ th[t].user \in Humans
    BY <1>1, <1>11, ThreadType DEF RcLogin, At
  <2>2. users' \in [Humans -> [Ids -> Row]]
    BY <1>1, <1>11, <2>1, RowEffect DEF RcLogin, TypeOK
  <2>3. th' \in [Threads -> Thread]
    BY <1>1, <1>11, <2>1, ReturnEffect, GotoEffect DEF RcLogin, Pcs, LoginPcs
  <2>4. loggedIn' \subseteq Humans \X Ids
    BY <1>1, <1>11, <2>1 DEF RcLogin, TypeOK, Server
  <2>5. QED
    BY <1>1, <1>11, <2>2, <2>3, <2>4 DEF RcLogin, TypeOK
<1>12. ASSUME NEW t \in Threads, CallFails(t)
       PROVE  TypeOK'
  <2>1. faults' \in 0..MaxFaults /\ disturbed' \subseteq Rooms /\ th' \in [Threads -> Thread]
    BY <1>1, <1>12, FaultEffect, ReturnEffect DEF CallFails
  <2>2. QED
    BY <1>1, <1>12, <2>1 DEF CallFails, TypeOK, database
<1>13. CASE Crash
  <2>1. faults' \in 0..MaxFaults /\ disturbed' \subseteq Rooms
    BY <1>1, <1>13, FaultEffect DEF Crash
  <2>2. th' \in [Threads -> Thread]
    BY <1>13 DEF Crash, Thread
  <2>3. QED
    BY <1>1, <1>13, <2>1, <2>2 DEF Crash, TypeOK, database
<1>14. CASE UNCHANGED vars
  BY <1>1, <1>14 DEF vars, database, history, TypeOK
<1>15. QED
  BY <1>1, <1>2, <1>3, <1>4, <1>5, <1>6, <1>7, <1>8, <1>9, <1>10, <1>11, <1>12, <1>13, <1>14,
     LoginStarts DEF Next, Connect

(***************************************************************************)
(* The database                                                            *)
(***************************************************************************)

\* Only a commit and a login write to the database.
LEMMA Writers ==
  ASSUME IInv, [Next]_vars
  PROVE  \/ Commit
         \/ \E t \in Threads :
              /\ RcLogin(t) /\ ~InTransaction /\ UNCHANGED servers
              /\ users' = SetCredentials(th[t].user, th[t].server)
         \/ UNCHANGED <<servers, users>>
<1>1. ASSUME NEW r \in Rooms, Connect(r) \/ LoginCommand(r)
      PROVE  UNCHANGED <<servers, users>>
  BY <1>1 DEF Connect, AlreadyConnected, ConnectNew, ConnectExisting, LoginCommand, StartLogin,
     Request, database
<1>2. ASSUME NEW t \in LoginThreads, NEW h \in Humans, NEW url \in Urls, LoginRequest(t, h, url)
      PROVE  UNCHANGED <<servers, users>>
  BY <1>2 DEF LoginRequest, StartLogin, Request, database
<1>3. Probe \/ SetTopic \/ SendHelp \/ SendUsage \/ Crash \/ UNCHANGED vars
        => UNCHANGED <<servers, users>>
  BY DEF Probe, SetTopic, SendHelp, SendUsage, Crash, vars, database
<1>4. ASSUME NEW t \in Threads, CallFails(t)
      PROVE  UNCHANGED <<servers, users>>
  BY <1>4 DEF CallFails, database
<1>5. ASSUME NEW t \in Threads, RcLogin(t)
      PROVE  \/ /\ RcLogin(t) /\ ~InTransaction /\ UNCHANGED servers
                /\ users' = SetCredentials(th[t].user, th[t].server)
             \/ UNCHANGED <<servers, users>>
  BY <1>5 DEF RcLogin
<1>6. QED
  BY <1>1, <1>2, <1>3, <1>4, <1>5 DEF Next

\* What a commit writes: the server was there or fits, and its user gets a row.
LEMMA CommitEffect ==
  ASSUME IInv, Commit
  PROVE  /\ th[Tx].server \in Server
         /\ th[Tx].user \in Humans
         /\ th[Tx].room \in Rooms
         /\ th[Tx].user = Owner[th[Tx].room]
         /\ <<th[Tx].user, th[Tx].server.id>> \notin loggedIn
         /\ th[Tx].server \in servers \/ Unique(th[Tx].server)
         /\ topic[th[Tx].room] = th[Tx].server.url
         /\ servers' = servers \cup {th[Tx].server}
         /\ users' = Upsert(th[Tx].user, th[Tx].server)
         /\ disturbed' = disturbed \ {th[Tx].room}
<1>1. th[Tx].pc = "commit" /\ TypeOK /\ PendingConnect /\ TopicFollows
  BY DEF Commit, At, IInv
<1>2. th[Tx].server \in Server /\ th[Tx].user \in Humans
  BY <1>1, ThreadType DEF Threads
<1>3. QED
  BY <1>1, <1>2 DEF Commit, Insert, PendingConnect, TopicFollows, InTransaction, TransactionPcs

\* What a login writes: its server is known.
LEMMA LoginEffect ==
  ASSUME IInv, NEW t \in Threads, RcLogin(t)
  PROVE  /\ th[t].pc = "rc_login"
         /\ th[t].user \in Humans
         /\ th[t].server \in Server
         /\ th[t].server \in servers
<1>1. th[t].pc = "rc_login" /\ TypeOK /\ LoginsFindServers
  BY DEF RcLogin, At, IInv
<1>2. QED
  BY <1>1, ThreadType DEF LoginsFindServers, LoginPcs

\* Nothing is deleted from the database.
LEMMA RowsStay ==
  ASSUME IInv, [Next]_vars
  PROVE  /\ servers \subseteq servers'
         /\ \A h \in Humans, i \in Ids : users[h][i] # "none" => users'[h][i] # "none"
<1>1. TypeOK
  BY DEF IInv
<1>2. CASE Commit
  <2>1. /\ servers' = servers \cup {th[Tx].server}
        /\ users' = Upsert(th[Tx].user, th[Tx].server)
        /\ th[Tx].user \in Humans
        /\ th[Tx].server \in Server
    BY <1>2, CommitEffect
  <2>2. \A h \in Humans, i \in Ids : users'[h][i] \in {"connected", users[h][i]}
    BY <1>1, <2>1, RowEffect
  <2>3. QED
    BY <2>1, <2>2
<1>3. ASSUME NEW t \in Threads, RcLogin(t), UNCHANGED servers,
             users' = SetCredentials(th[t].user, th[t].server)
      PROVE  /\ servers \subseteq servers'
             /\ \A h \in Humans, i \in Ids : users[h][i] # "none" => users'[h][i] # "none"
  <2>1. th[t].user \in Humans /\ th[t].server \in Server
    BY <1>3, LoginEffect
  <2>2. \A h \in Humans, i \in Ids : users'[h][i] \in {"logged_in", users[h][i]}
    BY <1>1, <1>3, <2>1, RowEffect
  <2>3. QED
    BY <1>3, <2>2
<1>4. QED
  BY <1>2, <1>3, Writers

\* The tables keep their constraints, and every server keeps a user.
LEMMA DatabaseStep ==
  IInv /\ [Next]_vars => ServersDiffer' /\ RowsHaveServers' /\ ServerHasAUser'
<1> SUFFICES ASSUME IInv, [Next]_vars
             PROVE  ServersDiffer' /\ RowsHaveServers' /\ ServerHasAUser'
  OBVIOUS
<1>1. TypeOK /\ ServersDiffer /\ RowsHaveServers /\ ServerHasAUser /\ servers \subseteq Server
  BY AdminConnectFits DEF IInv, TypeOK, Server
<1>2. CASE Commit
  <2>1. ServersDiffer'
    BY <1>1, <1>2, CommitEffect DEF ServersDiffer, Unique
  <2>2. RowsHaveServers'
    <3>1. ASSUME NEW h \in Humans, NEW i \in Ids, users'[h][i] # "none"
          PROVE  users[h][i] # "none" \/ i = th[Tx].server.id
      BY <1>1, <1>2, <3>1, CommitEffect, RowEffect
    <3>2. QED
      BY <1>1, <1>2, <3>1, CommitEffect DEF RowsHaveServers
  <2>3. ServerHasAUser'
    <3>1. users'[th[Tx].user][th[Tx].server.id] # "none"
      BY <1>1, <1>2, CommitEffect, RowEffect DEF Server
    <3>2. ASSUME NEW s \in servers
          PROVE  \E h \in Humans : users'[h][s.id] # "none"
      BY <1>1, RowsStay DEF ServerHasAUser, Server
    <3>3. QED
      BY <1>2, <3>1, <3>2, CommitEffect DEF ServerHasAUser
  <2>4. QED
    BY <2>1, <2>2, <2>3
<1>3. ASSUME NEW t \in Threads, RcLogin(t), UNCHANGED servers,
             users' = SetCredentials(th[t].user, th[t].server)
      PROVE  ServersDiffer' /\ RowsHaveServers' /\ ServerHasAUser'
  <2>1. ServersDiffer'
    BY <1>1, <1>3 DEF ServersDiffer
  <2>2. RowsHaveServers'
    <3>1. ASSUME NEW h \in Humans, NEW i \in Ids, users'[h][i] # "none"
          PROVE  users[h][i] # "none" \/ i = th[t].server.id
      BY <1>1, <1>3, <3>1, LoginEffect, RowEffect
    <3>2. QED
      BY <1>1, <1>3, <3>1, LoginEffect DEF RowsHaveServers
  <2>3. ServerHasAUser'
    BY <1>1, <1>3, RowsStay DEF ServerHasAUser, Server
  <2>4. QED
    BY <2>1, <2>2, <2>3
<1>4. CASE UNCHANGED <<servers, users>>
  BY <1>1, <1>4 DEF ServersDiffer, RowsHaveServers, ServerHasAUser
<1>5. QED
  BY <1>2, <1>3, <1>4, Writers

(***************************************************************************)
(* The threads                                                             *)
(***************************************************************************)

\* What is known of a connect that is under way.
ConnectInv == LoginsFindServers /\ PendingConnect /\ TopicFollows

\* A step of one thread keeps what is known of the logins of the others.
LEMMA OneThread ==
  ASSUME IInv, [Next]_vars, NEW t \in Threads, \A u \in Threads \ {t} : th'[u] = th[u],
         t \in LoginThreads => th'[t].pc \in {"idle", "rc_login"},
         th'[t].pc \in LoginPcs => th'[t].server \in servers
  PROVE  LoginsFindServers'
BY RowsStay DEF IInv, LoginsFindServers, Threads

\* The thread of the homeserver is left outside of a transaction.
LEMMA NoConnect ==
  ASSUME th'[Tx].pc \notin TransactionPcs, LoginsFindServers'
  PROVE  ConnectInv'
BY DEF ConnectInv, PendingConnect, TopicFollows, InTransaction, TransactionPcs

\* Other threads do not disturb a connect.
LEMMA OthersKeepConnect ==
  ASSUME IInv, th'[Tx] = th[Tx], LoginsFindServers',
         InTransaction => UNCHANGED <<servers, topic>> /\ loggedIn' \subseteq loggedIn
  PROVE  ConnectInv'
<1>1. CASE InTransaction
  BY <1>1 DEF IInv, ConnectInv, PendingConnect, TopicFollows, InTransaction,
     Unique, ServerOf, FindByUrl
<1>2. CASE ~InTransaction
  BY <1>2, NoConnect DEF InTransaction
<1>3. QED
  BY <1>1, <1>2

\* A connect that goes on to its next call is still pending.
LEMMA ConnectGoesOn ==
  ASSUME IInv, [Next]_vars, InTransaction, NEW pc \in {"set_topic", "send_help", "commit"},
         Goto(Tx, pc), UNCHANGED <<servers, loggedIn>>
  PROVE  /\ LoginsFindServers' /\ PendingConnect'
         /\ th'[Tx].pc = pc
         /\ th'[Tx].room = th[Tx].room
         /\ th'[Tx].server = th[Tx].server
         /\ th[Tx].room \in Rooms
<1>1. TypeOK /\ PendingConnect /\ Tx \in Threads /\ Tx \notin LoginThreads
  BY AdminConnectFits DEF IInv, Threads
<1>2. pc \in Pcs \ {"idle"} /\ th[Tx].pc # "idle" /\ pc \notin LoginPcs
  BY DEF Pcs, TransactionPcs, InTransaction, LoginPcs
<1>3. /\ th'[Tx].pc = pc
      /\ th'[Tx].user = th[Tx].user
      /\ th'[Tx].room = th[Tx].room
      /\ th'[Tx].server = th[Tx].server
      /\ \A u \in Threads \ {Tx} : th'[u] = th[u]
  BY <1>1, <1>2, GotoEffect
<1>4. LoginsFindServers'
  BY <1>1, <1>2, <1>3, OneThread
<1>5. PendingConnect' /\ th[Tx].room \in Rooms
  BY <1>1, <1>3 DEF PendingConnect, Unique
<1>6. QED
  BY <1>3, <1>4, <1>5

\* A handler that returns ends a connect, or leaves it alone if it is another thread's.
LEMMA ReturnKeepsConnect ==
  ASSUME IInv, [Next]_vars, NEW t \in Threads, Return(t),
         t # Tx /\ InTransaction => UNCHANGED <<servers, topic, loggedIn>>
  PROVE  ConnectInv'
<1>1. th'[t].pc = "idle" /\ \A u \in Threads \ {t} : th'[u] = th[u]
  BY ReturnEffect DEF IInv
<1>2. LoginsFindServers'
  BY <1>1, OneThread DEF LoginPcs
<1>3. CASE t = Tx
  BY <1>1, <1>2, <1>3, NoConnect DEF TransactionPcs
<1>4. CASE t # Tx
  BY <1>1, <1>2, <1>4, OthersKeepConnect DEF Threads
<1>5. QED
  BY <1>3, <1>4

\* A login that starts runs in no transaction, and in none of another thread.
LEMMA StartLoginKeepsConnect ==
  ASSUME IInv, [Next]_vars, NEW t \in Threads, NEW h \in Humans, NEW r \in Rooms \cup {None},
         NEW s \in servers, StartLogin(t, h, r, s)
  PROVE  ConnectInv'
<1>1. TypeOK /\ s \in Server
  BY AdminConnectFits DEF IInv, TypeOK, Server
<1>2. /\ th'[t] = [pc |-> "rc_login", user |-> h, room |-> r, server |-> s]
      /\ \A u \in Threads \ {t} : th'[u] = th[u]
  BY <1>1, StartEffect DEF StartLogin, Pcs, LoginPcs
<1>3. LoginsFindServers'
  BY <1>2, OneThread
<1>4. CASE t = Tx
  BY <1>2, <1>3, <1>4, NoConnect DEF TransactionPcs
<1>5. CASE t # Tx
  BY <1>1, <1>2, <1>3, <1>5, OthersKeepConnect, RequestEffect DEF StartLogin, Threads
<1>6. QED
  BY <1>4, <1>5

\* A connect that starts is one of the owner of the room, to a server that is there or fits.
LEMMA ConnectStarts ==
  ASSUME IInv, [Next]_vars, NEW r \in Rooms, NEW s \in Server,
         ConnectNew(r, s) \/ (s \in servers /\ ConnectExisting(r, s))
  PROVE  ConnectInv'
<1>1. /\ TypeOK /\ Tx \in Threads /\ Tx \notin LoginThreads /\ Owner[r] \in Humans
      /\ ReportedLoginLasts /\ RowsHaveServers
  BY AdminConnectFits DEF IInv, Threads
<1>2. PICK pc \in {"probe", "set_topic"} :
        /\ th' = [th EXCEPT ![Tx] = [pc |-> pc, user |-> Owner[r], room |-> r, server |-> s]]
        /\ pc = "probe" => Accepts(s) /\ UNCHANGED loggedIn
        /\ pc = "set_topic" => s \in servers /\ loggedIn' = loggedIn \ {<<Owner[r], s.id>>}
        /\ ~IsConnected(r)
  BY DEF ConnectNew, ConnectExisting
<1>3. pc \in Pcs \ {"idle"} /\ pc \notin LoginPcs
  BY DEF Pcs, TransactionPcs, LoginPcs
<1>4. /\ th'[Tx] = [pc |-> pc, user |-> Owner[r], room |-> r, server |-> s]
      /\ \A u \in Threads \ {Tx} : th'[u] = th[u]
  BY <1>1, <1>2, <1>3, StartEffect
<1>5. UNCHANGED <<topic, servers, users>>
  BY <1>1, RequestEffect DEF ConnectNew, ConnectExisting
<1>6. LoginsFindServers'
  BY <1>1, <1>3, <1>4, OneThread
<1>7. pc = "probe" => Unique(s)
  BY <1>2 DEF Accepts, Unique, FindByUrl
<1>8. PendingConnect'
  <2>1. s.id \in ValidIds
    BY <1>1, <1>2 DEF Accepts, TypeOK
  <2>2. <<Owner[r], s.id>> \notin loggedIn'
    <3>1. CASE pc = "set_topic"
      BY <1>2, <3>1
    <3>2. CASE pc = "probe"
      BY <1>1, <1>2, <1>7, <3>2 DEF ReportedLoginLasts, RowsHaveServers, Unique, Server
    <3>3. QED
      BY <3>1, <3>2
  <2>3. s \in servers' \/ Unique(s)'
    BY <1>2, <1>5, <1>7 DEF Unique
  <2>4. QED
    BY <1>4, <2>1, <2>2, <2>3 DEF PendingConnect, Unique
<1>9. TopicFollows'
  BY <1>2, <1>4, <1>5 DEF TopicFollows, IsConnected, ServerOf, FindByUrl
<1>10. QED
  BY <1>6, <1>8, <1>9 DEF ConnectInv

\* Every step keeps what is known of a connect.
LEMMA ConnectStep == IInv /\ [Next]_vars => ConnectInv'
<1> SUFFICES ASSUME IInv, [Next]_vars
             PROVE  ConnectInv'
  OBVIOUS
<1>1. /\ TypeOK /\ LoginsFindServers /\ PendingConnect /\ TopicFollows
      /\ Tx \in Threads /\ Tx \notin LoginThreads
  BY AdminConnectFits DEF IInv, Threads
<1>2. ASSUME th' = th, UNCHANGED <<topic, servers, loggedIn>>
      PROVE  ConnectInv'
  <2>1. LoginsFindServers'
    BY <1>1, <1>2 DEF LoginsFindServers
  <2>2. QED
    BY <1>2, <2>1, OthersKeepConnect
<1>3. ASSUME NEW r \in Rooms, AlreadyConnected(r)
      PROVE  ConnectInv'
  BY <1>1, <1>2, <1>3, RequestEffect DEF AlreadyConnected
<1>4. ASSUME NEW r \in Rooms, NEW s \in Server, ConnectNew(r, s)
      PROVE  ConnectInv'
  BY <1>4, ConnectStarts
<1>5. ASSUME NEW r \in Rooms, NEW s \in servers, ConnectExisting(r, s)
      PROVE  ConnectInv'
  <2>1. s \in Server
    BY <1>1, AdminConnectFits DEF TypeOK, Server
  <2>2. QED
    BY <1>5, <2>1, ConnectStarts
<1>6. ASSUME NEW t \in Threads, NEW h \in Humans, NEW r \in Rooms \cup {None}, NEW s \in servers,
             StartLogin(t, h, r, s)
      PROVE  ConnectInv'
  BY <1>6, StartLoginKeepsConnect
<1>7. CASE Probe
  <2>1. InTransaction /\ UNCHANGED <<topic, servers, loggedIn>> /\ th[Tx].pc = "probe"
    BY <1>7 DEF Probe, InTransaction, TransactionPcs, At, database, history
  <2>2. CASE Goto(Tx, "set_topic")
    BY <1>1, <2>1, <2>2, ConnectGoesOn DEF ConnectInv, TopicFollows, ServerOf, FindByUrl
  <2>3. CASE Return(Tx)
    BY <1>1, <2>3, ReturnKeepsConnect
  <2>4. QED
    BY <1>7, <2>2, <2>3 DEF Probe
<1>8. CASE SetTopic
  <2>1. /\ InTransaction
        /\ UNCHANGED <<servers, loggedIn>>
        /\ topic' = [topic EXCEPT ![th[Tx].room] = th[Tx].server.url]
    BY <1>8 DEF SetTopic, InTransaction, TransactionPcs, At, database
  <2>2. CASE Goto(Tx, "send_help")
    BY <1>1, <2>1, <2>2, ConnectGoesOn DEF ConnectInv, TopicFollows, TypeOK
  <2>3. CASE Return(Tx)
    BY <1>1, <2>3, ReturnKeepsConnect
  <2>4. QED
    BY <1>8, <2>2, <2>3 DEF SetTopic, Answered
<1>9. CASE SendHelp
  <2>1. InTransaction /\ UNCHANGED <<topic, servers, loggedIn>> /\ th[Tx].pc = "send_help"
    BY <1>9 DEF SendHelp, InTransaction, TransactionPcs, At, database
  <2>2. CASE Goto(Tx, "commit")
    BY <1>1, <2>1, <2>2, ConnectGoesOn DEF ConnectInv, TopicFollows
  <2>3. CASE Return(Tx)
    BY <1>1, <2>3, ReturnKeepsConnect
  <2>4. QED
    BY <1>9, <2>2, <2>3 DEF SendHelp, Answered
<1>10. CASE Commit \/ SendUsage
  BY <1>1, <1>10, ReturnKeepsConnect DEF Commit, SendUsage
<1>11. ASSUME NEW t \in Threads, RcLogin(t)
       PROVE  ConnectInv'
  <2>1. CASE Return(t)
    <3>1. t # Tx /\ InTransaction => UNCHANGED <<servers, topic, loggedIn>>
      BY <1>11 DEF RcLogin
    <3>2. QED
      BY <2>1, <3>1, ReturnKeepsConnect
  <2>2. CASE t = Tx /\ Goto(t, "send_usage")
    <3>1. /\ th'[Tx].pc = "send_usage"
          /\ th'[Tx].server = th[Tx].server
          /\ \A u \in Threads \ {Tx} : th'[u] = th[u]
      BY <1>1, <1>11, <2>2, GotoEffect DEF RcLogin, At, Pcs, LoginPcs
    <3>2. LoginsFindServers'
      BY <1>1, <1>11, <2>2, <3>1, LoginEffect, OneThread
    <3>3. QED
      BY <3>1, <3>2, NoConnect DEF TransactionPcs
  <2>3. QED
    BY <1>11, <2>1, <2>2 DEF RcLogin
<1>12. ASSUME NEW t \in Threads, CallFails(t)
       PROVE  ConnectInv'
  BY <1>12, ReturnKeepsConnect DEF CallFails, database
<1>13. CASE Crash
  <2>1. \A t \in Threads : th'[t].pc = "idle"
    BY <1>13 DEF Crash, Idle
  <2>2. LoginsFindServers'
    BY <2>1 DEF LoginsFindServers, LoginPcs, Threads
  <2>3. QED
    BY <1>1, <2>1, <2>2, NoConnect DEF TransactionPcs
<1>14. CASE UNCHANGED vars
  BY <1>2, <1>14 DEF vars, database, history
<1>15. QED
  BY <1>1, <1>3, <1>4, <1>5, <1>6, <1>7, <1>8, <1>9, <1>10, <1>11, <1>12, <1>13, <1>14,
     LoginStarts DEF Next, Connect

(***************************************************************************)
(* The rooms                                                               *)
(***************************************************************************)

\* What is known of the rooms whose last connect was not stopped by a fault.
RoomInv == KnownTopics /\ RoomsHaveRows

\* A step that leaves topics and servers alone keeps it, unless it ends a connect whose topic
\* is set; a fault that ends one marks the room.
LEMMA RoomsKept ==
  ASSUME IInv, [Next]_vars, UNCHANGED <<topic, servers>>, disturbed \subseteq disturbed',
         \/ ~InTransaction
         \/ th'[Tx] = th[Tx]
         \/ th[Tx].room \in disturbed'
         \/ th[Tx].pc = "probe"
         \/ th'[Tx].pc = "commit" /\ th'[Tx].room = th[Tx].room
  PROVE  RoomInv'
<1>1. /\ KnownTopics /\ RoomsHaveRows /\ TopicFollows
      /\ Owner \in [Rooms -> Humans]
      /\ \A s \in servers : s.id \in Ids
  BY AdminConnectFits DEF IInv, TypeOK
<1>2. \A r \in Rooms : ServerOf(r)' = ServerOf(r) /\ ServerOf(r) \subseteq servers
  BY DEF ServerOf, FindByUrl
<1>3. KnownTopics'
  BY <1>1, <1>2 DEF KnownTopics, IsConnected, InTransaction, TransactionPcs
<1>4. ASSUME NEW r \in Rooms \ disturbed', NEW s \in ServerOf(r), users'[Owner[r]][s.id] = "none"
      PROVE  InTransaction' /\ th'[Tx].room = r
  <2>1. users[Owner[r]][s.id] = "none"
    BY <1>1, <1>2, <1>4, RowsStay
  <2>2. InTransaction /\ th[Tx].room = r
    BY <1>4, <2>1, <1>1 DEF RoomsHaveRows
  <2>3. QED
    BY <1>1, <1>4, <2>2 DEF TopicFollows, InTransaction, TransactionPcs
<1>5. RoomsHaveRows'
  BY <1>2, <1>4 DEF RoomsHaveRows
<1>6. QED
  BY <1>3, <1>5 DEF RoomInv

\* Setting the topic gives the room the URL of a server that is not committed yet, or the row
\* of its user is not.
LEMMA SetTopicKeepsRooms ==
  ASSUME IInv, [Next]_vars, SetTopic
  PROVE  RoomInv'
<1>1. /\ TypeOK /\ KnownTopics /\ RoomsHaveRows /\ LoginsFindServers /\ PendingConnect
      /\ Tx \in Threads /\ InTransaction /\ th[Tx].pc = "set_topic"
  BY DEF IInv, Threads, SetTopic, At, InTransaction, TransactionPcs
<1>2. /\ topic' = [topic EXCEPT ![th[Tx].room] = th[Tx].server.url]
      /\ UNCHANGED <<servers, users>>
  BY DEF SetTopic, database
<1>3. /\ disturbed \subseteq disturbed'
      /\ \/ th'[Tx].pc = "send_help" /\ th'[Tx].room = th[Tx].room
         \/ th[Tx].room \in disturbed'
  <2>1. CASE Goto(Tx, "send_help") /\ UNCHANGED disturbed
    BY <1>1, <2>1, GotoEffect DEF Pcs, TransactionPcs
  <2>2. CASE Return(Tx) /\ Fault({Tx})
    BY <1>1, <2>2, FaultEffect
  <2>3. QED
    BY <2>1, <2>2 DEF SetTopic, Answered
<1>4. \A r \in Rooms : r # th[Tx].room => topic'[r] = topic[r]
  BY <1>1, <1>2 DEF TypeOK
<1>5. \A r \in Rooms : r # th[Tx].room => ServerOf(r)' = ServerOf(r)
  BY <1>2, <1>4 DEF ServerOf, FindByUrl
<1>6. KnownTopics'
  BY <1>1, <1>3, <1>4, <1>5 DEF KnownTopics, IsConnected
<1>7. RoomsHaveRows'
  BY <1>1, <1>2, <1>3, <1>5 DEF RoomsHaveRows, InTransaction, TransactionPcs
<1>8. QED
  BY <1>6, <1>7 DEF RoomInv

\* A commit gives the room its server and its user a row.  No other room has the URL of a new
\* server as its topic, unless a connect of that room was stopped by a fault.
LEMMA CommitKeepsRooms ==
  ASSUME IInv, [Next]_vars, Commit
  PROVE  RoomInv'
<1>1. /\ TypeOK /\ KnownTopics /\ RoomsHaveRows /\ ServersDiffer
      /\ Owner \in [Rooms -> Humans] /\ None \notin Urls
  BY AdminConnectFits DEF IInv
<1>2. topic' = topic
  BY DEF Commit
<1>3. ServersDiffer'
  BY DatabaseStep
<1>4. ASSUME NEW r \in Rooms, IsConnected(r)
      PROVE  IsConnected(r)'
  BY <1>2, <1>4, CommitEffect DEF IsConnected, ServerOf, FindByUrl
<1>5. ASSUME NEW r \in Rooms, r = th[Tx].room
      PROVE  IsConnected(r)'
  BY <1>2, <1>5, CommitEffect DEF IsConnected, ServerOf, FindByUrl
<1>6. KnownTopics'
  <2>1. ASSUME NEW r \in Rooms \ disturbed'
        PROVE  topic[r] = None \/ IsConnected(r)'
    BY <1>1, <1>4, <1>5, CommitEffect DEF KnownTopics
  <2>2. QED
    BY <1>2, <2>1 DEF KnownTopics
<1>7. ASSUME NEW r \in Rooms \ disturbed', NEW s \in ServerOf(r)'
      PROVE  users'[Owner[r]][s.id] # "none"
  <2>1. s \in servers' /\ s.url = topic[r]
    BY <1>2, <1>7 DEF ServerOf, FindByUrl
  <2>2. CASE r = th[Tx].room
    <3>1. s = th[Tx].server
      BY <1>3, <2>1, <2>2, CommitEffect DEF ServersDiffer
    <3>2. QED
      BY <1>1, <2>2, <3>1, CommitEffect, RowEffect DEF Server
  <2>3. CASE r # th[Tx].room
    <3>1. r \in Rooms \ disturbed
      BY <1>7, <2>3, CommitEffect
    <3>2. IsConnected(r)
      <4>1. topic[r] # None
        BY <1>1, <2>1, CommitEffect DEF TypeOK, Server
      <4>2. QED
        BY <1>1, <2>3, <3>1, <4>1 DEF KnownTopics
    <3>3. s \in ServerOf(r)
      BY <1>3, <2>1, <3>2, CommitEffect DEF ServersDiffer, IsConnected, ServerOf, FindByUrl
    <3>4. users[Owner[r]][s.id] # "none"
      BY <1>1, <2>3, <3>1, <3>3 DEF RoomsHaveRows
    <3>5. s.id \in Ids
      BY <1>1, <3>3, AdminConnectFits DEF TypeOK, ServerOf, FindByUrl
    <3>6. QED
      BY <1>1, <3>4, <3>5, RowsStay
  <2>4. QED
    BY <2>2, <2>3
<1>8. RoomsHaveRows'
  BY <1>7 DEF RoomsHaveRows
<1>9. QED
  BY <1>6, <1>8 DEF RoomInv

\* Every step keeps what is known of the rooms.
LEMMA RoomStep == IInv /\ [Next]_vars => RoomInv'
<1> SUFFICES ASSUME IInv, [Next]_vars
             PROVE  RoomInv'
  OBVIOUS
<1>1. TypeOK /\ LoginsFindServers /\ PendingConnect /\ Tx \in Threads
  BY DEF IInv, Threads
<1>2. ASSUME NEW r \in Rooms, Connect(r)
      PROVE  RoomInv'
  BY <1>2, RoomsKept DEF Connect, AlreadyConnected, ConnectNew, ConnectExisting, Request,
     database, At, InTransaction, TransactionPcs
<1>3. ASSUME NEW t \in Threads, NEW h \in Humans, NEW r \in Rooms \cup {None}, NEW s \in servers,
             StartLogin(t, h, r, s)
      PROVE  RoomInv'
  <2>1. CASE t = Tx
    BY <1>1, <1>3, <2>1, RoomsKept, RequestEffect
       DEF StartLogin, At, InTransaction, TransactionPcs
  <2>2. CASE t # Tx
    BY <1>1, <1>3, <2>2, RoomsKept, RequestEffect DEF StartLogin, TypeOK
  <2>3. QED
    BY <2>1, <2>2
<1>4. CASE Probe
  BY <1>4, RoomsKept DEF Probe, At, database, history
<1>5. CASE SendHelp
  <2>1. CASE Goto(Tx, "commit") /\ UNCHANGED disturbed
    <3>1. th'[Tx].pc = "commit" /\ th'[Tx].room = th[Tx].room
      BY <1>1, <1>5, <2>1, GotoEffect DEF SendHelp, At, Pcs, TransactionPcs
    <3>2. QED
      BY <1>5, <2>1, <3>1, RoomsKept DEF SendHelp, database
  <2>2. CASE Return(Tx) /\ Fault({Tx})
    BY <1>1, <1>5, <2>2, FaultEffect, RoomsKept DEF SendHelp, database
  <2>3. QED
    BY <1>5, <2>1, <2>2 DEF SendHelp, Answered
<1>6. CASE SendUsage
  BY <1>6, RoomsKept DEF SendUsage, database, At, InTransaction, TransactionPcs
<1>7. ASSUME NEW t \in Threads, RcLogin(t)
      PROVE  RoomInv'
  <2>1. CASE t = Tx
    BY <1>7, <2>1, RoomsKept DEF RcLogin, At, InTransaction, TransactionPcs
  <2>2. CASE t # Tx
    BY <1>1, <1>7, <2>2, ReturnEffect, RoomsKept DEF RcLogin
  <2>3. QED
    BY <2>1, <2>2
<1>8. ASSUME NEW t \in Threads, CallFails(t)
      PROVE  RoomInv'
  <2>1. UNCHANGED <<topic, servers>> /\ Fault({t}) /\ Return(t)
    BY <1>8 DEF CallFails, database
  <2>2. t = Tx /\ InTransaction => th[Tx].room \in disturbed'
    BY <1>1, <2>1, FaultEffect
  <2>3. disturbed \subseteq disturbed'
    BY <1>1, <2>1, FaultEffect
  <2>4. t # Tx => th'[Tx] = th[Tx]
    BY <1>1, <2>1, ReturnEffect
  <2>5. QED
    BY <2>1, <2>2, <2>3, <2>4, RoomsKept
<1>9. CASE Crash
  BY <1>1, <1>9, FaultEffect, RoomsKept DEF Crash, database
<1>10. CASE UNCHANGED vars
  BY <1>10, RoomsKept DEF vars, database, history
<1>11. QED
  BY <1>1, <1>2, <1>3, <1>4, <1>5, <1>6, <1>7, <1>8, <1>9, <1>10, SetTopicKeepsRooms,
     CommitKeepsRooms, LoginStarts DEF Next

(***************************************************************************)
(* The logins                                                              *)
(***************************************************************************)

\* A login that was reported stays in the database: a commit resets the row of a user whose
\* login nobody relies on, because none is reported while the transaction is open.
LEMMA ReportStep == IInv /\ [Next]_vars => ReportedLoginLasts'
<1> SUFFICES ASSUME IInv, [Next]_vars
             PROVE  ReportedLoginLasts'
  OBVIOUS
<1>1. TypeOK /\ ReportedLoginLasts
  BY DEF IInv
<1>2. CASE Commit
  <2>1. loggedIn' = loggedIn
    BY <1>2 DEF Commit
  <2>2. users' = Upsert(th[Tx].user, th[Tx].server)
    BY <1>2, CommitEffect
  <2>3. ASSUME NEW h \in Humans, NEW i \in Ids, <<h, i>> \in loggedIn
        PROVE  users'[h][i] = users[h][i]
    <3>1. ~(h = th[Tx].user /\ i = th[Tx].server.id)
      BY <1>2, <2>3, CommitEffect
    <3>2. QED
      BY <1>1, <1>2, <2>2, <3>1, CommitEffect, RowEffect
  <2>4. QED
    BY <1>1, <2>1, <2>3 DEF ReportedLoginLasts
<1>3. ASSUME NEW t \in Threads, RcLogin(t), users' = SetCredentials(th[t].user, th[t].server)
      PROVE  ReportedLoginLasts'
  <2>1. loggedIn' \subseteq loggedIn \cup {<<th[t].user, th[t].server.id>>}
    BY <1>3 DEF RcLogin
  <2>2. \A h \in Humans, i \in Ids :
          users'[h][i] = IF h = th[t].user /\ i = th[t].server.id THEN "logged_in" ELSE users[h][i]
    BY <1>1, <1>3, LoginEffect, RowEffect
  <2>3. QED
    BY <1>1, <2>1, <2>2 DEF ReportedLoginLasts
<1>4. CASE UNCHANGED <<users, loggedIn>>
  BY <1>1, <1>4 DEF ReportedLoginLasts
<1>5. CASE SendUsage
  BY <1>1, <1>5 DEF SendUsage, database, ReportedLoginLasts
<1>6. ASSUME NEW r \in Rooms, Connect(r)
      PROVE  ReportedLoginLasts'
  BY <1>1, <1>6 DEF Connect, AlreadyConnected, ConnectNew, ConnectExisting, Request, database,
     ReportedLoginLasts
<1>7. ASSUME NEW t \in Threads, RcLogin(t)
      PROVE  ReportedLoginLasts'
  BY <1>3, <1>4, <1>7 DEF RcLogin
<1>8. ASSUME NEW t \in Threads, CallFails(t)
      PROVE  ReportedLoginLasts'
  BY <1>4, <1>8 DEF CallFails, database
<1>9. ASSUME NEW t \in Threads, NEW h \in Humans, NEW r \in Rooms \cup {None}, NEW s \in servers,
             StartLogin(t, h, r, s)
      PROVE  ReportedLoginLasts'
  BY <1>1, <1>4, <1>9, RequestEffect DEF StartLogin
<1>10. CASE Probe \/ SetTopic \/ SendHelp \/ Crash \/ UNCHANGED vars
  BY <1>4, <1>10 DEF Probe, SetTopic, SendHelp, Crash, vars, database, history
<1>11. QED
  BY <1>1, <1>2, <1>5, <1>6, <1>7, <1>8, <1>9, <1>10, LoginStarts DEF Next

(***************************************************************************)
(* The theorems                                                            *)
(***************************************************************************)

\* The invariant holds initially.
LEMMA InitInv == Init => IInv
<1> SUFFICES ASSUME Init
             PROVE  IInv
  OBVIOUS
<1>1. TypeOK
  BY InitType
<1>2. \A t \in Threads : th[t].pc = "idle"
  BY DEF Init, Idle
<1>3. LoginsFindServers /\ PendingConnect /\ TopicFollows
  BY <1>2 DEF LoginsFindServers, PendingConnect, TopicFollows, InTransaction,
     TransactionPcs, LoginPcs, Threads, At
<1>4. ServersDiffer /\ RowsHaveServers /\ ReportedLoginLasts /\ ServerHasAUser
  BY DEF Init, ServersDiffer, RowsHaveServers, ReportedLoginLasts, ServerHasAUser
<1>5. KnownTopics /\ RoomsHaveRows
  BY DEF Init, KnownTopics, RoomsHaveRows, ServerOf, FindByUrl
<1>6. QED
  BY <1>1, <1>3, <1>4, <1>5 DEF IInv

\* Database, topics and threads fit together in every reachable state.
THEOREM Inductive == Spec => []IInv
<1>1. IInv /\ [Next]_vars => IInv'
  BY TypeStep, DatabaseStep, ConnectStep, RoomStep, ReportStep DEF IInv, ConnectInv, RoomInv
<1>2. QED
  BY <1>1, InitInv, PTL DEF Spec

\* The variables have their types; only validated ids reach the database.
THEOREM TypeCorrect == Spec => []TypeOK
<1>1. IInv => TypeOK
  BY DEF IInv
<1>2. QED
  BY <1>1, Inductive, PTL

\* A connect that fails or crashes never leaves a server without a user in the database.
THEOREM ServersHaveUsers == Spec => []ServerHasAUser
<1>1. IInv => ServerHasAUser
  BY DEF IInv
<1>2. QED
  BY <1>1, Inductive, PTL

\* A room with a topic has a server, and its owner can log in there, unless a fault stopped the
\* last connect of the room.
THEOREM ConnectedRoomsAreUsable == Spec => []ConnectedRoomIsUsable
<1>1. IInv => ConnectedRoomIsUsable
  BY DEF IInv, KnownTopics, RoomsHaveRows, ConnectedRoomIsUsable, IsConnected, InTransaction,
     TransactionPcs
<1>2. QED
  BY <1>1, Inductive, PTL

\* A login that was reported stays in the database until its user connects again.
THEOREM ReportedLoginsLast == Spec => []ReportedLoginLasts
<1>1. IInv => ReportedLoginLasts
  BY DEF IInv
<1>2. QED
  BY <1>1, Inductive, PTL

=============================================================================
