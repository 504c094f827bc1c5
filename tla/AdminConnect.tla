----------------------------- MODULE AdminConnect -----------------------------
(***************************************************************************)
(* The commands connect and login of an admin room, and the login endpoint *)
(* of the web server.  A room is connected to a Rocket.Chat server when    *)
(* its topic, which the homeserver keeps, is the URL of a server in the    *)
(* database.  connect changes both: it runs in a transaction of the        *)
(* database, sets the topic before it commits, and a rollback does not     *)
(* undo the topic.                                                         *)
(* The database is SQLite with its rollback journal and no busy timeout:   *)
(* a transaction that has read holds a lock until it ends, and a write of  *)
(* another connection that meets a lock fails at once.  The homeserver     *)
(* sends one transaction of events at a time, so one thread runs commands; *)
(* the login endpoint has threads of its own.                              *)
(***************************************************************************)

EXTENDS Naturals

CONSTANTS
  Humans,        \* Matrix users
  Rooms,         \* admin rooms that are set up
  Owner,         \* the human in each admin room
  Urls,          \* URLs of Rocket.Chat servers
  Ids,           \* server ids that users enter
  ValidIds,      \* those that are short enough and alphanumeric
  Tokens,        \* tokens of webhooks
  None,
  Tx,            \* the thread that handles the events of the homeserver
  LoginThreads,  \* threads that handle requests to the login endpoint
  MaxRequests,   \* bound on the commands and login requests that are handled
  MaxFaults      \* bound on failed calls, lost answers and crashes

Threads == {Tx} \cup LoginThreads

ASSUME AdminConnectFits ==
  /\ None \notin Humans \cup Rooms \cup Urls
  /\ Tx \notin LoginThreads
  /\ Owner \in [Rooms -> Humans]
  /\ ValidIds \subseteq Ids
  /\ MaxRequests \in Nat
  /\ MaxFaults \in Nat

VARIABLES
  topic,      \* the topic of every room
  servers,    \* table rocketchat_servers, as committed
  users,      \* table users_on_rocketchat_servers, as committed
  th,         \* what every thread is doing
  refused,    \* rooms whose user was told that the room is already connected, by server
  loggedIn,   \* <<human, id>>: a login that was reported and not revoked by a connect since
  disturbed,  \* rooms whose last connect was stopped by a fault
  requests,   \* commands and requests handled so far
  faults      \* faults so far

database == <<servers, users>>
history == <<refused, loggedIn, disturbed>>
vars == <<topic, database, th, history, requests, faults>>

\* A row of rocketchat_servers.
Server == [id : Ids, url : Urls, token : Tokens]

\* A user of a server has no row, a row without credentials, or a row with credentials.
Row == {"none", "connected", "logged_in"}

\* The call that a thread makes next.
TransactionPcs == {"probe", "set_topic", "send_help", "commit"}
LoginPcs == {"rc_login", "send_usage"}
Pcs == {"idle"} \cup TransactionPcs \cup LoginPcs

Idle == [pc |-> "idle", user |-> None, room |-> None, server |-> None]

\* A busy thread has a user and a server; a room if it runs a command.
Thread ==
  {Idle} \cup
  [pc : Pcs \ {"idle"}, user : Humans, room : Rooms \cup {None}, server : Server]

-----------------------------------------------------------------------------

At(t, pc) == th[t].pc = pc

Return(t) == th' = [th EXCEPT ![t] = Idle]

Goto(t, pc) == th' = [th EXCEPT ![t].pc = pc]

\* RocketchatServer::find_by_url, as a set of no or one row.
FindByUrl(url) == {s \in servers : s.url = url}

\* Room::rocketchat_server_for_admin_room
ServerOf(r) == FindByUrl(topic[r])

\* Room::is_connected
IsConnected(r) == ServerOf(r) # {}

\* The rows that a connect writes and a login changes.
Insert(s) == servers \cup {s}
Upsert(h, s) == [users EXCEPT ![h][s.id] = "connected"]
SetCredentials(h, s) == [users EXCEPT ![h][s.id] = "logged_in"]

\* The transaction of connect has read, or has written and not committed.
InTransaction == th[Tx].pc \in TransactionPcs

\* The connects that are lost with the threads ts.
Disturb(ts) ==
  disturbed' = disturbed \cup {th[t].room : t \in {u \in ts : th[u].pc \in TransactionPcs}}

Fault(ts) ==
  /\ faults < MaxFaults
  /\ faults' = faults + 1
  /\ Disturb(ts)

\* The call was done; its answer arrives, or the handler ends in an error.
Answered(t, pc) ==
  \/ Goto(t, pc) /\ UNCHANGED <<faults, disturbed>>
  \/ Return(t) /\ Fault({t})

\* The call does not get through.  Dropping the transaction rolls it back.
CallFails(t) ==
  /\ th[t].pc \notin {"idle", "commit"}
  /\ Return(t)
  /\ Fault({t})
  /\ UNCHANGED <<topic, database, refused, loggedIn, requests>>

\* The process is killed and started again.
Crash ==
  /\ th' = [t \in Threads |-> Idle]
  /\ Fault(Threads)
  /\ UNCHANGED <<topic, database, refused, loggedIn, requests>>

\* A request is handled; a refused one only sends an error message and changes nothing.
Request ==
  /\ requests < MaxRequests
  /\ requests' = requests + 1
  /\ UNCHANGED <<topic, database, disturbed, faults>>

-----------------------------------------------------------------------------
(***************************************************************************)
(* CommandHandler::connect                                                 *)
(***************************************************************************)

\* Every constraint of the table rocketchat_servers.
Unique(s) == \A o \in servers : o.id # s.id /\ o.url # s.url /\ o.token # s.token

\* Mutant: the id is not validated.
AcceptsAnyId(s) == Unique(s)

\* The checks of connect_new_rocketchat_server.  (A server at the URL is an error only if it has
\* a token: every server that is stored has one.)
Accepts(s) ==
  /\ s.id \in ValidIds
  /\ \A o \in servers : o.id # s.id
  /\ FindByUrl(s.url) = {}
  /\ \A o \in servers : o.token # s.token

\* ErrorKind::RoomAlreadyConnected
AlreadyConnected(r) ==
  /\ At(Tx, "idle")
  /\ IsConnected(r)
  /\ Request
  /\ refused' = refused \cup {<<r, s.id>> : s \in ServerOf(r)}
  /\ UNCHANGED <<th, loggedIn>>

ConnectNew(r, s) ==
  /\ At(Tx, "idle")
  /\ ~IsConnected(r)
  /\ Accepts(s)
  /\ Request
  /\ th' = [th EXCEPT ![Tx] = [pc |-> "probe", user |-> Owner[r], room |-> r, server |-> s]]
  /\ UNCHANGED <<refused, loggedIn>>

\* get_existing_rocketchat_server, and the upsert: it resets the credentials of a user
\* that has a row, which nobody else sees before the commit.
ConnectExisting(r, s) ==
  /\ At(Tx, "idle")
  /\ ~IsConnected(r)
  /\ s \in servers
  /\ Request
  /\ th' = [th EXCEPT ![Tx] = [pc |-> "set_topic", user |-> Owner[r], room |-> r, server |-> s]]
  /\ loggedIn' = loggedIn \ {<<Owner[r], s.id>>}
  /\ UNCHANGED refused

\* Mutant: the server is inserted outside the transaction.
ProbeAutocommit ==
  /\ At(Tx, "probe")
  /\ Goto(Tx, "set_topic")
  /\ servers' = Insert(th[Tx].server)
  /\ UNCHANGED <<topic, users, history, requests, faults>>

\* RocketchatApi::new rejects the server, or the server and the user are inserted.
Probe ==
  /\ At(Tx, "probe")
  /\ \/ Unique(th[Tx].server) /\ Goto(Tx, "set_topic")
     \/ Return(Tx)
  /\ UNCHANGED <<topic, database, history, requests, faults>>

SetTopic ==
  /\ At(Tx, "set_topic")
  /\ topic' = [topic EXCEPT ![th[Tx].room] = th[Tx].server.url]
  /\ Answered(Tx, "send_help")
  /\ UNCHANGED <<database, refused, loggedIn, requests>>

\* The login instructions are sent: the transaction sees the row that it has written.
SendHelp ==
  /\ At(Tx, "send_help")
  /\ Answered(Tx, "commit")
  /\ UNCHANGED <<topic, database, refused, loggedIn, requests>>

\* Mutant: a new server is saved, its first user is not.
CommitServerOnly ==
  LET s == th[Tx] IN
  /\ At(Tx, "commit")
  /\ servers' = Insert(s.server)
  /\ users' = IF s.server \in servers THEN Upsert(s.user, s.server) ELSE users
  /\ disturbed' = disturbed \ {s.room}
  /\ Return(Tx)
  /\ UNCHANGED <<topic, refused, loggedIn, requests, faults>>

Commit ==
  LET s == th[Tx] IN
  /\ At(Tx, "commit")
  /\ servers' = Insert(s.server)
  /\ users' = Upsert(s.user, s.server)
  /\ disturbed' = disturbed \ {s.room}
  /\ Return(Tx)
  /\ UNCHANGED <<topic, refused, loggedIn, requests, faults>>

-----------------------------------------------------------------------------
(***************************************************************************)
(* RocketchatServer::login, for the command and for the login endpoint.    *)
(* Its user must have a row.                                               *)
(***************************************************************************)

StartLogin(t, h, r, s) ==
  /\ At(t, "idle")
  /\ users[h][s.id] # "none"
  /\ Request
  /\ th' = [th EXCEPT ![t] = [pc |-> "rc_login", user |-> h, room |-> r, server |-> s]]
  /\ UNCHANGED <<refused, loggedIn>>

LoginCommand(r) == \E s \in ServerOf(r) : StartLogin(Tx, Owner[r], r, s)

LoginRequest(t, h, url) == \E s \in FindByUrl(url) : StartLogin(t, h, None, s)

\* Mutant: an error of set_credentials is dropped.
RcLoginUnchecked(t) ==
  LET s == th[t] IN
  /\ At(t, "rc_login")
  /\ users' = IF InTransaction THEN users ELSE SetCredentials(s.user, s.server)
  /\ IF t = Tx
       THEN Goto(t, "send_usage") /\ UNCHANGED loggedIn
       ELSE Return(t) /\ loggedIn' = loggedIn \cup {<<s.user, s.server.id>>}
  /\ UNCHANGED <<topic, servers, refused, disturbed, requests, faults>>

\* The server is asked for its version, then for an auth token.  It rejects either, or
\* set_credentials saves the token; that fails while a transaction is open.
RcLogin(t) ==
  LET s == th[t] IN
  /\ At(t, "rc_login")
  /\ \/ Return(t) /\ UNCHANGED <<users, loggedIn>>
     \/ /\ ~InTransaction
        /\ users' = SetCredentials(s.user, s.server)
        /\ IF t = Tx
             THEN Goto(t, "send_usage") /\ UNCHANGED loggedIn
             ELSE Return(t) /\ loggedIn' = loggedIn \cup {<<s.user, s.server.id>>}
  /\ UNCHANGED <<topic, servers, refused, disturbed, requests, faults>>

\* build_help_message finds a user that is logged in.
SendUsage ==
  LET s == th[Tx] IN
  /\ At(Tx, "send_usage")
  /\ loggedIn' = IF users[s.user][s.server.id] = "logged_in"
                   THEN loggedIn \cup {<<s.user, s.server.id>>} ELSE loggedIn
  /\ Return(Tx)
  /\ UNCHANGED <<topic, database, refused, disturbed, requests, faults>>

-----------------------------------------------------------------------------

Init ==
  /\ topic = [r \in Rooms |-> None]
  /\ servers = {}
  /\ users = [h \in Humans |-> [i \in Ids |-> "none"]]
  /\ th = [t \in Threads |-> Idle]
  /\ refused = {}
  /\ loggedIn = {}
  /\ disturbed = {}
  /\ requests = 0
  /\ faults = 0

Connect(r) ==
  \/ AlreadyConnected(r)
  \/ \E s \in Server : ConnectNew(r, s)
  \/ \E s \in servers : ConnectExisting(r, s)

Next ==
  \/ \E r \in Rooms : Connect(r) \/ LoginCommand(r)
  \/ \E t \in LoginThreads, h \in Humans, url \in Urls : LoginRequest(t, h, url)
  \/ Probe \/ SetTopic \/ SendHelp \/ Commit \/ SendUsage
  \/ \E t \in Threads : RcLogin(t) \/ CallFails(t)
  \/ Crash

Spec == Init /\ [][Next]_vars

-----------------------------------------------------------------------------
(***************************************************************************)
(* Properties                                                              *)
(***************************************************************************)

\* The type of every variable; an id that is not valid never reaches the database.
TypeOK ==
  /\ topic \in [Rooms -> Urls \cup {None}]
  /\ servers \subseteq [id : ValidIds, url : Urls, token : Tokens]
  /\ users \in [Humans -> [Ids -> Row]]
  /\ th \in [Threads -> Thread]
  /\ refused \subseteq Rooms \X Ids
  /\ loggedIn \subseteq Humans \X Ids
  /\ disturbed \subseteq Rooms
  /\ requests \in 0..MaxRequests
  /\ faults \in 0..MaxFaults

\* A server is never left in the database without a user by a connect that fails or crashes
\* half way: its URL would be refused to the one who has its token.
ServerHasAUser == \A s \in servers : \E h \in Humans : users[h][s.id] # "none"

\* Unless the last connect of a room was stopped by a fault: a topic is the URL of a server in
\* the database, and the user of the room has a row for that server and can log in, also when
\* other rooms connect to the same URL, fail to, or start again, and when this room is refused
\* by a server and tries another one.
ConnectedRoomIsUsable ==
  \A r \in Rooms \ disturbed :
    \/ topic[r] = None
    \/ InTransaction /\ th[Tx].room = r
    \/ \E s \in ServerOf(r) : users[Owner[r]][s.id] # "none"

\* "You are logged in" stays true until the user connects again: a login that is reported
\* while a connect of the same user is open is not undone by its commit.
ReportedLoginLasts ==
  \A h \in Humans, i \in Ids : <<h, i>> \in loggedIn => users[h][i] = "logged_in"

\* "This room is already connected" (errors.room_already_connected): the user of a room that
\* is refused with this has an entry for the server, so that login works in this room.
AlreadyConnectedIsTrue == \A x \in refused : users[Owner[x[1]]][x[2]] # "none"

=============================================================================
