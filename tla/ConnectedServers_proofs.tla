------------------------ MODULE ConnectedServers_proofs -------------------------
(***************************************************************************)
(* Theorems about ConnectedServers: for all ids that connect accepts, and  *)
(* all ids that Rocket.Chat chooses, however long and with a separator     *)
(* anywhere in them, how the names that the bridge makes are taken apart.  *)
(***************************************************************************)

EXTENDS
  ConnectedServers, AdminConnect_proofs, Counting, FiniteSetTheorems, FunctionTheorems,
  SequenceTheorems

(***************************************************************************)
(* Names                                                                   *)
(***************************************************************************)

\* Turning a name into lower case keeps its length and lets no separator come or go.
LEMMA LowerProperties ==
  ASSUME NEW name \in Seq(Chars)
  PROVE  /\ Lower(name) \in Seq(Chars)
         /\ Len(Lower(name)) = Len(name)
         /\ \A i \in 1..Len(name) :
              Lower(name)[i] = IF name[i] \in Capitals THEN LowerCase[name[i]] ELSE name[i]
         /\ \A c \in {Underscore, Hash} : c \notin ToSet(name) => c \notin ToSet(Lower(name))
<1>1. \A i \in 1..Len(name) :
        (IF name[i] \in Capitals THEN LowerCase[name[i]] ELSE name[i]) \in Chars
  BY IdentifiersFit DEF Chars
<1>2. Lower(name) \in Seq(Chars) /\ Len(Lower(name)) = Len(name)
  BY <1>1, IsASeq DEF Lower
<1>3. \A i \in 1..Len(name) :
        Lower(name)[i] = IF name[i] \in Capitals THEN LowerCase[name[i]] ELSE name[i]
  BY DEF Lower
<1>4. ASSUME NEW c \in {Underscore, Hash}, c \in ToSet(Lower(name))
      PROVE  c \in ToSet(name)
  <2>1. PICK i \in 1..Len(name) : Lower(name)[i] = c
    BY <1>2, <1>4 DEF ToSet
  <2>2. name[i] \notin Capitals
    BY <1>3, <2>1, IdentifiersFit
  <2>3. name[i] = c
    BY <1>3, <2>1, <2>2
  <2>4. QED
    BY <2>3 DEF ToSet
<1>5. QED
  BY <1>2, <1>3, <1>4

\* The parts of a name are turned into lower case one by one.
LEMMA LowerOfConcat ==
  ASSUME NEW a \in Seq(Chars), NEW b \in Seq(Chars)
  PROVE  Lower(a \o b) = Lower(a) \o Lower(b)
<1>1. a \o b \in Seq(Chars) /\ Len(a \o b) = Len(a) + Len(b)
  BY ConcatProperties
<1>2. Lower(a) \o Lower(b) \in Seq(Chars) /\ Len(Lower(a) \o Lower(b)) = Len(a) + Len(b)
  <2>1. PICK la \in Seq(Chars), lb \in Seq(Chars) :
          la = Lower(a) /\ Len(la) = Len(a) /\ lb = Lower(b) /\ Len(lb) = Len(b)
    BY LowerProperties
  <2>2. la \o lb \in Seq(Chars) /\ Len(la \o lb) = Len(la) + Len(lb)
    BY ConcatProperties
  <2>3. QED
    BY <2>1, <2>2
<1>3. Lower(a \o b) \in Seq(Chars) /\ Len(Lower(a \o b)) = Len(a) + Len(b)
  BY <1>1, LowerProperties
<1>4. ASSUME NEW i \in 1..(Len(a) + Len(b))
      PROVE  Lower(a \o b)[i] = (Lower(a) \o Lower(b))[i]
  <2>1. CASE i <= Len(a)
    <3>1. (a \o b)[i] = a[i] /\ i \in 1..Len(a)
      BY <2>1, ConcatProperties
    <3>2. (Lower(a) \o Lower(b))[i] = Lower(a)[i]
      BY <2>1, LowerProperties, ConcatProperties
    <3>3. QED
      BY <1>1, <3>1, <3>2, LowerProperties
  <2>2. CASE i > Len(a)
    <3>1. (a \o b)[i] = b[i - Len(a)] /\ i - Len(a) \in 1..Len(b)
      BY <2>2, ConcatProperties
    <3>2. (Lower(a) \o Lower(b))[i] = Lower(b)[i - Len(a)]
      BY <2>2, LowerProperties, ConcatProperties
    <3>3. QED
      BY <1>1, <3>1, <3>2, LowerProperties
  <2>3. i <= Len(a) \/ i > Len(a)
    BY LenProperties
  <2>4. QED
    BY <2>1, <2>2, <2>3
<1>5. QED
  BY <1>2, <1>3, <1>4, SeqEqual

\* The id of a server has only small letters, and neither of the separators.
LEMMA ServerIdProperties ==
  ASSUME NEW id \in Seq(Chars), IsServerId(id)
  PROVE  /\ Lower(id) = id
         /\ Underscore \notin ToSet(id)
         /\ Hash \notin ToSet(id)
<1>1. \A i \in 1..Len(id) : id[i] \in Letters
  BY DEF IsServerId, ToSet
<1>2. Lower(id) = id
  BY <1>1, IdentifiersFit, LowerProperties, SeqEqual
<1>3. QED
  BY <1>2, IdentifiersFit DEF IsServerId

\* Two parts with a separator between them.
Join(a, c, b) == a \o <<c>> \o b

\* A name that is put together with a separator is split there, if the first part has none.
LEMMA SplitOfJoin ==
  ASSUME NEW c \in Chars, NEW a \in Seq(Chars), NEW b \in Seq(Chars), c \notin ToSet(a)
  PROVE  SplitOnce(Join(a, c, b), c) = <<a, b>>
<1> DEFINE name == a \o <<c>> \o b
<1>1. /\ name \in Seq(Chars)
      /\ Len(name) = Len(a) + 1 + Len(b)
      /\ \A i \in 1..Len(a) : name[i] = a[i]
      /\ name[Len(a) + 1] = c
      /\ \A i \in 1..Len(b) : name[Len(a) + 1 + i] = b[i]
  <2>1. <<c>> \in Seq(Chars) /\ Len(<<c>>) = 1 /\ <<c>>[1] = c
    OBVIOUS
  <2>2. /\ a \o <<c>> \in Seq(Chars)
        /\ Len(a \o <<c>>) = Len(a) + 1
        /\ \A i \in 1..Len(a) : (a \o <<c>>)[i] = a[i]
        /\ (a \o <<c>>)[Len(a) + 1] = c
    BY <2>1, ConcatProperties
  <2>3. QED
    BY <2>2, ConcatProperties
<1> HIDE DEF name
<1>2. \A i \in 1..Len(a) : a[i] # c
  BY DEF ToSet
<1>3. c \in ToSet(name)
  BY <1>1 DEF ToSet
<1>4. /\ Len(a) \in Nat /\ Len(b) \in Nat
      /\ DOMAIN name = 1..(Len(a) + 1 + Len(b))
  BY <1>1, LenProperties
<1> DEFINE First(j) == name[j] = c /\ \A k \in 1..(j - 1) : name[k] # c
<1>5. First(Len(a) + 1)
  BY <1>1, <1>2, <1>4
<1>6. ASSUME NEW j \in DOMAIN name, First(j)
      PROVE  j = Len(a) + 1
  <2>1. j \in Nat /\ j >= 1
    BY <1>4
  <2>2. ~(j <= Len(a))
    BY <1>1, <1>2, <1>4, <1>6, <2>1
  <2>3. ~(Len(a) + 1 < j)
    BY <1>1, <1>4, <1>6, <2>1
  <2>4. QED
    BY <1>4, <2>1, <2>2, <2>3
<1>7. SplitOnce(name, c) = <<SubSeq(name, 1, Len(a)), SubSeq(name, Len(a) + 2, Len(name))>>
  <2> HIDE DEF First
  <2>1. PICK i : i = CHOOSE j \in DOMAIN name : First(j)
    OBVIOUS
  <2>2. i = Len(a) + 1
    BY <1>4, <1>5, <1>6, <2>1
  <2>3. SplitOnce(name, c) = <<SubSeq(name, 1, i - 1), SubSeq(name, i + 1, Len(name))>>
    BY <1>3, <2>1 DEF SplitOnce, First
  <2>4. i - 1 = Len(a) /\ i + 1 = Len(a) + 2
    BY <1>4, <2>2
  <2>5. QED
    BY <2>3, <2>4
<1>8. SubSeq(name, 1, Len(a)) = a /\ SubSeq(name, Len(a) + 2, Len(name)) = b
  <2> DEFINE head == SubSeq(name, 1, Len(a))
             tail == SubSeq(name, Len(a) + 2, Len(name))
  <2>1. \A i \in 1..Len(name) : name[i] \in Chars
    BY <1>1, ElementOfSeq
  <2>2. /\ head \in Seq(Chars) /\ Len(head) = Len(a)
        /\ \A i \in 1..Len(a) : head[i] = name[i]
    BY <1>1, <1>4, <2>1, SubSeqProperties
  <2>3. /\ tail \in Seq(Chars) /\ Len(tail) = Len(b)
        /\ \A i \in 1..Len(b) : tail[i] = name[Len(a) + 1 + i]
    BY <1>1, <1>4, <2>1, SubSeqProperties
  <2> HIDE DEF head, tail
  <2>4. head = a
    BY <1>1, <2>2, SeqEqual
  <2>5. tail = b
    BY <1>1, <2>3, SeqEqual
  <2>6. QED
    BY <2>4, <2>5 DEF head, tail
<1>9. QED
  BY <1>7, <1>8 DEF name, Join
LEMMA SeparatorIsName == \A c \in Chars : <<c>> \in Seq(Chars)
OBVIOUS

LEMMA JoinIsName ==
  ASSUME NEW c \in Chars, NEW a \in Seq(Chars), NEW b \in Seq(Chars)
  PROVE  Join(a, c, b) \in Seq(Chars)
<1>1. PICK sep \in Seq(Chars) : sep = <<c>>
  BY SeparatorIsName, Zenon
<1>2. PICK head \in Seq(Chars) : head = a \o sep
  BY ConcatProperties
<1>3. head \o b \in Seq(Chars)
  BY ConcatProperties
<1>4. QED
  BY <1>1, <1>2, <1>3, Zenon DEF Join

\* Names with the same first part differ in the other.
LEMMA JoinCancels ==
  ASSUME NEW c \in Chars, NEW a \in Seq(Chars), NEW b \in Seq(Chars), NEW d \in Seq(Chars),
         Join(a, c, b) = Join(a, c, d)
  PROVE  b = d
<1>1. PICK sep \in Seq(Chars) : sep = <<c>>
  BY SeparatorIsName, Zenon
<1>2. PICK head \in Seq(Chars) : head = a \o sep
  BY ConcatProperties
<1>3. head \o b = head \o d
  BY <1>1, <1>2, Zenon DEF Join
<1>4. QED
  BY <1>3, ConcatSimplifications

\* Of three parts the last two can be put together first.
LEMMA JoinTwice ==
  ASSUME NEW c \in Chars, NEW a \in Seq(Chars), NEW b \in Seq(Chars), NEW d \in Seq(Chars)
  PROVE  Join(Join(a, c, b), c, d) = Join(a, c, Join(b, c, d))
<1>1. PICK sep \in Seq(Chars) : sep = <<c>>
  BY SeparatorIsName, Zenon
<1>2. PICK head \in Seq(Chars) : head = a \o sep
  BY ConcatProperties
<1>3. PICK middle \in Seq(Chars) : middle = b \o sep
  BY ConcatProperties
<1>4. PICK rest \in Seq(Chars) : rest = middle \o d
  BY ConcatProperties
<1>5. PICK first \in Seq(Chars) : first = head \o b
  BY ConcatProperties
<1>6. PICK front \in Seq(Chars) : front = head \o middle
  BY ConcatProperties
<1>7. first \o sep = front
  BY <1>3, <1>5, <1>6, ConcatAssociative, SMTT(30)
<1>8. front \o d = head \o rest
  BY <1>4, <1>6, ConcatAssociative, SMTT(30)
<1>9. QED
  BY <1>1, <1>2, <1>3, <1>4, <1>5, <1>7, <1>8, Zenon DEF Join

\* If the first two contain no separator, the last two are found by splitting the name twice.
LEMMA PartsOfName ==
  ASSUME NEW c \in Chars, NEW a \in Seq(Chars), NEW b \in Seq(Chars), NEW d \in Seq(Chars),
         c \notin ToSet(a), c \notin ToSet(b)
  PROVE  SplitOnce(SplitOnce(Join(Join(a, c, b), c, d), c)[2], c) = <<b, d>>
<1>1. PICK rest \in Seq(Chars) : rest = Join(b, c, d)
  BY JoinIsName
<1>2. SplitOnce(Join(a, c, rest), c)[2] = rest
  BY SplitOfJoin
<1>3. SplitOnce(rest, c) = <<b, d>>
  BY <1>1, SplitOfJoin
<1>4. QED
  BY <1>1, <1>2, <1>3, JoinTwice

\* If the middle one contains no separator, names with the same first part differ in the others.
LEMMA NamesDiffer ==
  ASSUME NEW c \in Chars, NEW a \in Seq(Chars),
         NEW b1 \in Seq(Chars), NEW d1 \in Seq(Chars), c \notin ToSet(b1),
         NEW b2 \in Seq(Chars), NEW d2 \in Seq(Chars), c \notin ToSet(b2),
         Join(Join(a, c, b1), c, d1) = Join(Join(a, c, b2), c, d2)
  PROVE  b1 = b2 /\ d1 = d2
<1>1. Join(a, c, Join(b1, c, d1)) = Join(a, c, Join(b2, c, d2))
  BY JoinTwice
<1>2. Join(b1, c, d1) = Join(b2, c, d2)
  BY <1>1, JoinIsName, JoinCancels
<1>3. <<b1, d1>> = <<b2, d2>>
  BY <1>2, SplitOfJoin
<1>4. QED
  BY <1>3

\* The parts of a name are turned into lower case one by one.
LEMMA LowerOfJoin ==
  ASSUME NEW a \in Seq(Chars), NEW b \in Seq(Chars)
  PROVE  Lower(Join(a, Underscore, b)) = Join(Lower(a), Underscore, Lower(b))
<1>1. PICK sep \in Seq(Chars) : sep = <<Underscore>>
  BY SeparatorIsName, Zenon DEF Chars
<1>2. Lower(sep) = sep
  <2>1. Len(sep) = 1 /\ sep[1] = Underscore
    BY <1>1
  <2>2. Lower(sep) \in Seq(Chars) /\ Len(Lower(sep)) = 1 /\ Lower(sep)[1] = Underscore
    BY <2>1, IdentifiersFit, LowerProperties
  <2>3. QED
    BY <2>1, <2>2, SeqEqual
<1>3. PICK head \in Seq(Chars) : head = a \o sep
  BY ConcatProperties
<1>4. Lower(a \o sep) = Lower(a) \o Lower(sep)
  BY LowerOfConcat, ZenonT(30)
<1>5. Lower(head \o b) = Lower(head) \o Lower(b)
  BY LowerOfConcat, ZenonT(30)
<1>6. QED
  BY <1>1, <1>2, <1>3, <1>4, <1>5, Zenon DEF Join

\* The id of a virtual user has the server's id as it is, between two names without capitals.
LEMMA UserIdParts ==
  ASSUME NEW localpart \in Seq(Chars), NEW user \in Seq(Chars), NEW server \in Seq(Chars),
         IsServerId(server)
  PROVE  BuildUserId(localpart, user, server) =
           Join(Join(Lower(localpart), Underscore, server), Underscore, Lower(user))
<1>1. BuildUserId(localpart, user, server) =
        Lower(Join(Join(localpart, Underscore, server), Underscore, user))
  BY Zenon DEF BuildUserId, Join
<1>2. PICK head \in Seq(Chars) : head = Join(localpart, Underscore, server)
  BY JoinIsName DEF Chars
<1>3. Lower(Join(head, Underscore, user)) = Join(Lower(head), Underscore, Lower(user))
  BY LowerOfJoin
<1>4. Lower(head) = Join(Lower(localpart), Underscore, server)
  BY <1>2, LowerOfJoin, ServerIdProperties
<1>5. QED
  BY <1>1, <1>2, <1>3, <1>4, Zenon

(***************************************************************************)
(* Ids that are taken apart                                                *)
(***************************************************************************)

\* What the database lets one know of the ids of its servers.
LEMMA ServersHaveIds ==
  ASSUME TypeOK, NEW s \in servers
  PROVE  s.id \in Seq(Chars) /\ IsServerId(s.id)
BY ServersAreNamed DEF TypeOK

\* A name that is split is its own first part only if the separator is not in it.
LEMMA FirstPart ==
  ASSUME NEW c \in Chars, NEW name \in Seq(Chars)
  PROVE  SplitOnce(name, c)[1] = name <=> c \notin ToSet(name)
<1>1. CASE c \notin ToSet(name)
  BY <1>1 DEF SplitOnce
<1>2. CASE c \in ToSet(name)
  <2> DEFINE First(j) == name[j] = c /\ \A k \in 1..(j - 1) : name[k] # c
  <2>1. DOMAIN name = 1..Len(name) /\ Len(name) \in Nat
    BY LenProperties
  <2>2. PICK i : i = CHOOSE j \in DOMAIN name : First(j)
    OBVIOUS
  <2>3. SplitOnce(name, c)[1] = SubSeq(name, 1, i - 1)
    BY <1>2, <2>2 DEF SplitOnce
  <2> HIDE DEF First
  <2>4. i \in DOMAIN name
    <3> DEFINE Places == {n \in DOMAIN name : name[n] = c}
    <3>1. PICK n \in Places : \A k \in Places : n <= k
      <4>1. Places \subseteq Nat /\ Places # {}
        BY <1>2, <2>1 DEF ToSet
      <4>2. QED
        BY <4>1, LeastNumber
    <3>2. n \in DOMAIN name /\ First(n)
      BY <2>1, <3>1 DEF First
    <3>3. QED
      BY <2>2, <3>2
  <2>5. Len(SubSeq(name, 1, i - 1)) = i - 1 /\ i - 1 < Len(name)
    BY <2>1, <2>4, SubSeqProperties
  <2>6. Len(SubSeq(name, 1, i - 1)) # Len(name)
    BY <2>1, <2>4, <2>5
  <2>7. QED
    BY <1>2, <2>3, <2>6, Zenon
<1>3. QED
  BY <1>1, <1>2

\* Whatever the servers are that connect has accepted: the server and the user of a virtual user
\* are read out of its Matrix id as they were put in, for ids of every length.
THEOREM VirtualUsersAreTakenApart == Spec => []VirtualUserIsTakenApart
<1>1. TypeOK => VirtualUserIsTakenApart
  <2> SUFFICES ASSUME TypeOK,
                      NEW localpart \in SenderLocalparts, NEW s \in servers,
                      NEW user \in RocketchatIds,
                      Underscore \notin ToSet(localpart)
               PROVE  ServerAndUser(BuildUserId(localpart, user, s.id)) = <<s.id, Lower(user)>>
    BY DEF VirtualUserIsTakenApart
  <2>1. PICK server \in Seq(Chars) : server = s.id /\ IsServerId(server)
    BY ServersHaveIds
  <2>2. localpart \in Seq(Chars) /\ user \in Seq(Chars) /\ Underscore \in Chars
    BY ServersAreNamed DEF Chars
  <2>3. BuildUserId(localpart, user, server) =
          Join(Join(Lower(localpart), Underscore, server), Underscore, Lower(user))
    BY <2>1, <2>2, UserIdParts
  <2>4. PICK before \in Seq(Chars) : before = Lower(localpart) /\ Underscore \notin ToSet(before)
    BY <2>2, LowerProperties
  <2>5. PICK behind \in Seq(Chars) : behind = Lower(user)
    BY <2>2, LowerProperties
  <2>6. Underscore \notin ToSet(server)
    BY <2>1, ServerIdProperties
  <2>7. SplitOnce(
          SplitOnce(Join(Join(before, Underscore, server), Underscore, behind), Underscore)[2],
          Underscore) = <<server, behind>>
    BY <2>2, <2>4, <2>6, PartsOfName
  <2>8. QED
    BY <2>1, <2>3, <2>4, <2>5, <2>7, Zenon DEF ServerAndUser
<1>2. QED
  BY <1>1, TypeCorrect, PTL

\* The server of a room is read out of its alias as it was put in, and the channel exactly if its
\* id has no number sign, for all ids of channels, which nothing checks.
THEOREM RoomAliasesAreTakenApart == Spec => []RoomAliasIsTakenApart
<1>1. TypeOK => RoomAliasIsTakenApart
  <2> SUFFICES ASSUME TypeOK,
                      NEW localpart \in SenderLocalparts, NEW s \in servers,
                      NEW channel \in RocketchatIds,
                      Hash \notin ToSet(localpart)
               PROVE  LET alias == BuildRoomAliasName(localpart, channel, s.id) IN
                      /\ ServerOfAlias(alias) = s.id
                      /\ ChannelOfAlias(alias) = channel <=> Hash \notin ToSet(channel)
    BY DEF RoomAliasIsTakenApart
  <2>1. PICK server \in Seq(Chars) : server = s.id /\ IsServerId(server)
    BY ServersHaveIds
  <2>2. localpart \in Seq(Chars) /\ channel \in Seq(Chars) /\ Hash \in Chars
    BY ServersAreNamed DEF Chars
  <2>3. Hash \notin ToSet(server)
    BY <2>1, ServerIdProperties
  <2>4. BuildRoomAliasName(localpart, channel, server) = Join(Join(localpart, Hash, server), Hash, channel)
    BY Zenon DEF BuildRoomAliasName, Join
  <2>5. PICK alias \in Seq(Chars) :
          /\ alias = Join(Join(localpart, Hash, server), Hash, channel)
          /\ SplitOnce(SplitOnce(alias, Hash)[2], Hash) = <<server, channel>>
    <3>1. Join(Join(localpart, Hash, server), Hash, channel) \in Seq(Chars)
      BY <2>2, JoinIsName
    <3>2. QED
      BY <2>2, <2>3, <3>1, PartsOfName
  <2>6. SplitOnce(<<Hash>> \o alias, Hash)[2] = alias
    <3>1. PICK empty \in Seq(Chars) : empty = <<>>
      <4>1. <<>> \in Seq(Chars)
        OBVIOUS
      <4>2. QED
        BY <4>1, Zenon
    <3>2. Hash \notin ToSet(empty)
      BY <3>1 DEF ToSet
    <3>3. SplitOnce(Join(empty, Hash, alias), Hash)[2] = alias
      BY <2>2, <3>2, SplitOfJoin
    <3>4. empty \o <<Hash>> = <<Hash>>
      BY <2>2, <3>1, SeparatorIsName, ConcatEmptySeq
    <3>5. QED
      BY <3>3, <3>4, Zenon DEF Join
  <2>7. SplitOnce(channel, Hash)[1] = channel <=> Hash \notin ToSet(channel)
    BY <2>2, FirstPart
  <2>8. /\ SplitOnce(SplitOnce(alias, Hash)[2], Hash)[1] = server
        /\ SplitOnce(SplitOnce(alias, Hash)[2], Hash)[2] = channel
    BY <2>5
  <2>9. ServerOfAlias(alias) = server
    BY <2>6, <2>8, Zenon DEF ServerOfAlias, ThirdPart
  <2>10. ChannelOfAlias(alias) = SplitOnce(channel, Hash)[1]
    BY <2>8, Zenon DEF ChannelOfAlias, ThirdPart
  <2>11. QED
    BY <2>1, <2>4, <2>5, <2>7, <2>9, <2>10, Zenon
<1>2. QED
  BY <1>1, TypeCorrect, PTL

(***************************************************************************)
(* Virtual users that differ                                               *)
(***************************************************************************)

\* The table of servers has finitely many rows.
FewServers == IsFiniteSet(servers)

LEMMA ServersStayFew == Spec => []FewServers
<1>1. Init => FewServers
  BY FS_EmptySet DEF Init, FewServers
<1>2. IInv /\ FewServers /\ [Next]_vars => FewServers'
  <2> SUFFICES ASSUME IInv, FewServers, [Next]_vars
               PROVE  FewServers'
    OBVIOUS
  <2>1. CASE Commit
    <3>1. servers' = servers \cup {th[Tx].server}
      BY <2>1 DEF Commit, Insert
    <3>2. QED
      BY <3>1, FS_AddElement DEF FewServers
  <2>2. CASE UNCHANGED servers
    BY <2>2 DEF FewServers
  <2>3. QED
    BY <2>1, <2>2, Writers
<1>3. QED
  BY <1>1, <1>2, Inductive, PTL DEF Spec

\* Server and user, as far as their names tell them apart.
UsersOfServers == {<<s.id, Lower(user)>> : user \in RocketchatIds, s \in servers}

LEMMA UserOfServer ==
  /\ \A user \in RocketchatIds, s \in servers : <<s.id, Lower(user)>> \in UsersOfServers
  /\ \A u \in UsersOfServers :
       \E user \in RocketchatIds, s \in servers : u = <<s.id, Lower(user)>>
<1>1. \A user \in RocketchatIds, s \in servers : <<s.id, Lower(user)>> \in UsersOfServers
  BY DEF UsersOfServers
<1>2. \A u \in UsersOfServers :
        \E user \in RocketchatIds, s \in servers : u = <<s.id, Lower(user)>>
  BY DEF UsersOfServers
<1>3. QED
  BY <1>1, <1>2

LEMMA UsersOfServersAreFew ==
  ASSUME IsFiniteSet(RocketchatIds), FewServers
  PROVE  IsFiniteSet(UsersOfServers)
<1> DEFINE pairs == servers \X RocketchatIds
           f == [p \in pairs |-> <<p[1].id, Lower(p[2])>>]
<1>1. IsFiniteSet(pairs)
  BY FS_Product DEF FewServers
<1>2. f \in [pairs -> UsersOfServers]
  BY DEF UsersOfServers
<1>3. \A u \in UsersOfServers : \E p \in pairs : f[p] = u
  <2> TAKE u \in UsersOfServers
  <2>1. PICK user \in RocketchatIds, s \in servers : u = <<s.id, Lower(user)>>
    BY UserOfServer
  <2>2. PICK p \in pairs : p = <<s, user>>
    OBVIOUS
  <2>3. f[p] = <<s.id, Lower(user)>>
    BY <2>2
  <2>4. QED
    BY <2>1, <2>3
<1> HIDE DEF f, pairs
<1>4. f \in Surjection(pairs, UsersOfServers)
  BY <1>2, <1>3, Fun_IsSurj
<1>5. QED
  BY <1>1, <1>4, FS_Surjection

\* Two Rocket.Chat users share a virtual user only if they are of one server and differ in
\* nothing but capitals, whatever sender_localpart is.  (Rocket.Chat has finitely many users.)
THEOREM VirtualUsersAreTold ==
  ASSUME IsFiniteSet(RocketchatIds)
  PROVE  Spec => []VirtualUsersDiffer
<1>1. TypeOK /\ FewServers => VirtualUsersDiffer
  <2> SUFFICES ASSUME TypeOK, FewServers, NEW localpart \in SenderLocalparts
               PROVE  LET names == {BuildUserId(localpart, user, s.id) :
                                      user \in RocketchatIds, s \in servers} IN
                      Cardinality(names) = Cardinality(UsersOfServers)
    BY DEF VirtualUsersDiffer, UsersOfServers
  <2> DEFINE names == {BuildUserId(localpart, user, s.id) : user \in RocketchatIds, s \in servers}
             Name(u) == Join(Join(Lower(localpart), Underscore, u[1]), Underscore, u[2])
             f == [u \in UsersOfServers |-> Name(u)]
  <2>1. Lower(localpart) \in Seq(Chars) /\ localpart \in Seq(Chars) /\ Underscore \in Chars
    BY ServersAreNamed, LowerProperties DEF Chars
  <2>2. ASSUME NEW user \in RocketchatIds, NEW s \in servers
        PROVE  /\ Lower(user) \in Seq(Chars)
               /\ s.id \in Seq(Chars) /\ Underscore \notin ToSet(s.id)
               /\ BuildUserId(localpart, user, s.id) = Name(<<s.id, Lower(user)>>)
    <3>1. s.id \in Seq(Chars) /\ IsServerId(s.id)
      BY ServersHaveIds
    <3>2. PICK id \in Seq(Chars) : id = s.id /\ IsServerId(id)
      BY <3>1
    <3>3. user \in Seq(Chars) /\ Lower(user) \in Seq(Chars)
      BY ServersAreNamed, LowerProperties
    <3>4. Underscore \notin ToSet(id)
      BY <3>2, ServerIdProperties
    <3>5. BuildUserId(localpart, user, id) =
            Join(Join(Lower(localpart), Underscore, id), Underscore, Lower(user))
      BY <2>1, <3>2, <3>3, UserIdParts
    <3>6. QED
      BY <3>1, <3>2, <3>3, <3>4, <3>5
  <2>3. \A u \in UsersOfServers :
          /\ u = <<u[1], u[2]>>
          /\ u[1] \in Seq(Chars) /\ u[2] \in Seq(Chars) /\ Underscore \notin ToSet(u[1])
    BY <2>2 DEF UsersOfServers
  <2>4. \A u \in UsersOfServers : f[u] = Name(u)
    OBVIOUS
  <2> HIDE DEF f, Name
  <2>5. f \in [UsersOfServers -> names] /\ \A n \in names : \E u \in UsersOfServers : f[u] = n
    <3>1. ASSUME NEW u \in UsersOfServers
          PROVE  Name(u) \in names
      <4>1. PICK user \in RocketchatIds, s \in servers : u = <<s.id, Lower(user)>>
        BY UserOfServer
      <4>2. BuildUserId(localpart, user, s.id) \in names
        OBVIOUS
      <4>3. QED
        BY <2>2, <4>1, <4>2
    <3>2. ASSUME NEW n \in names
          PROVE  \E u \in UsersOfServers : n = Name(u)
      <4>1. PICK user \in RocketchatIds, s \in servers : n = BuildUserId(localpart, user, s.id)
        OBVIOUS
      <4>2. n = Name(<<s.id, Lower(user)>>)
        BY <2>2, <4>1
      <4>3. QED
        BY <4>2, UserOfServer
    <3> HIDE DEF names
    <3>3. f \in [UsersOfServers -> names]
      BY <3>1 DEF f
    <3>4. QED
      BY <2>4, <3>2, <3>3
  <2>6. \A u, v \in UsersOfServers : f[u] = f[v] => u = v
    <3> SUFFICES ASSUME NEW u \in UsersOfServers, NEW v \in UsersOfServers, f[u] = f[v]
                 PROVE  u = v
      OBVIOUS
    <3>1. Name(u) = Name(v)
      BY <2>4
    <3>2. u[1] = v[1] /\ u[2] = v[2]
      BY <2>1, <2>3, <3>1, NamesDiffer DEF Name
    <3>3. QED
      BY <2>3, <3>2
  <2> HIDE DEF names
  <2>7. f \in Bijection(UsersOfServers, names)
    BY <2>5, <2>6, Fun_IsBij
  <2>8. ExistsBijection(UsersOfServers, names)
    BY <2>7, Fun_ExistsBij
  <2>9. IsFiniteSet(UsersOfServers)
    BY UsersOfServersAreFew
  <2>10. Cardinality(names) = Cardinality(UsersOfServers)
    BY <2>8, <2>9, FS_Bijection
  <2>11. QED
    BY <2>10 DEF names
<1>2. QED
  BY <1>1, TypeCorrect, ServersStayFew, PTL

=============================================================================
