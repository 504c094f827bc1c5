------------------------ MODULE ConnectionPool_proofs ------------------------
(***************************************************************************)
(* Theorems about ConnectionPool for any threads, any size of the pool and *)
(* of the pages: nobody waits with a connection, and what a read that is   *)
(* interleaved with changes of the list misses or repeats.                 *)
(***************************************************************************)

EXTENDS ConnectionPool, Counting, SequenceTheorems

-----------------------------------------------------------------------------
(***************************************************************************)
(* The pool: PoolWaitsForWork is inductive together with the types of what *)
(* it speaks about; the members of the channel and the reads do not        *)
(* matter.                                                                 *)
(***************************************************************************)

\* The types that PoolWaitsForWork needs.
PoolTypes ==
  /\ th \in [Threads -> Thread]
  /\ held \subseteq Threads

PoolInv == PoolTypes /\ PoolWaitsForWork

\* A thread that is doing something knows what for.
LEMMA ThreadShape ==
  ASSUME NEW s \in Thread
  PROVE  /\ s \in [pc : Pcs, stage : Stages]
         /\ s.pc # "idle" => s.stage \in {"token", "call"}
  BY DEF Thread, Stages

LEMMA IdleIsThread == Idle \in Thread
  BY DEF Idle, Thread, Pcs, Stages

LEMMA BusyIsThread ==
  ASSUME NEW pc \in Pcs \ {"idle"}, NEW stage \in {"token", "call"}
  PROVE  [pc |-> pc, stage |-> stage] \in Thread
  BY DEF Thread, Stages

\* What a thread goes to when it keeps its stage.
LEMMA MovedIsThread ==
  ASSUME NEW s \in Thread, s.pc # "idle", NEW pc \in Pcs \ {"idle"}
  PROVE  /\ [s EXCEPT !.pc = pc] \in Thread
         /\ [s EXCEPT !.pc = pc].pc = pc
  BY ThreadShape DEF Thread

LEMMA RequestSafe ==
  ASSUME PoolInv, NEW t \in Threads, Request(t)
  PROVE  PoolInv'
<1> DEFINE stage == IF t \in WebhookThreads THEN "token" ELSE "call"
           s == [pc |-> "lock", stage |-> stage]
<1>1. /\ th' = [th EXCEPT ![t] = s]
      /\ UNCHANGED <<mutex, held>>
      /\ th[t].pc = "idle"
  BY DEF Request, At
<1>2. s \in Thread
  BY BusyIsThread DEF Pcs
<1>3. QED
  BY <1>1, <1>2 DEF PoolInv, PoolTypes, PoolWaitsForWork, At

LEMMA LockSafe ==
  ASSUME PoolInv, NEW t \in Threads, Lock(t)
  PROVE  PoolInv'
<1>1. /\ th' = [th EXCEPT ![t].pc = "get"]
      /\ UNCHANGED held
      /\ mutex = None
      /\ mutex' = t
      /\ th[t].pc = "lock"
  BY DEF Lock, At
<1>2. th[t] \in Thread
  BY DEF PoolInv, PoolTypes
<1>3. [th[t] EXCEPT !.pc = "get"] \in Thread /\ [th[t] EXCEPT !.pc = "get"].pc = "get"
  BY <1>1, <1>2, MovedIsThread DEF Pcs
<1>4. \A u \in Threads : th[u].pc # "get"
  BY <1>1, ConnectionPoolFits DEF PoolInv, PoolWaitsForWork, At
<1>5. PoolTypes'
  BY <1>1, <1>3 DEF PoolInv, PoolTypes
<1>6. PoolWaitsForWork'
  BY <1>1, <1>3, <1>4 DEF PoolInv, PoolTypes, PoolWaitsForWork, At
<1>7. QED
  BY <1>5, <1>6 DEF PoolInv

LEMMA GetSafe ==
  ASSUME PoolInv, NEW t \in Threads, Get(t)
  PROVE  PoolInv'
<1>1. /\ th' = [th EXCEPT ![t].pc = th[t].stage]
      /\ held' = held \cup {t}
      /\ mutex' = None
      /\ th[t].pc = "get"
  BY DEF Get, At
<1>2. th[t] \in Thread /\ th[t].stage \in {"token", "call"}
  BY <1>1, ThreadShape DEF PoolInv, PoolTypes
<1> DEFINE s == [th[t] EXCEPT !.pc = th[t].stage]
<1>3. s \in Thread /\ s.pc = th[t].stage
  BY <1>1, <1>2, MovedIsThread DEF Pcs
<1>4. \A u \in Threads : th[u].pc = "get" => u = t
  BY <1>1 DEF PoolInv, PoolWaitsForWork, At
<1>5. PoolTypes'
  BY <1>1, <1>3 DEF PoolInv, PoolTypes
<1>6. PoolWaitsForWork'
  BY <1>1, <1>2, <1>3, <1>4, ConnectionPoolFits
  DEF PoolInv, PoolTypes, PoolWaitsForWork, At, Threads
<1>7. QED
  BY <1>5, <1>6 DEF PoolInv

\* A thread that has answered keeps no connection.
LEMMA DoneSafe ==
  ASSUME PoolInv, NEW t \in Threads, Done(t),
         held' = held \ {t}, mutex' = IF th[t].pc = "get" THEN None ELSE mutex
  PROVE  PoolInv'
<1>1. th' = [th EXCEPT ![t] = Idle]
  BY DEF Done
<1>2. PoolTypes'
  BY <1>1, IdleIsThread DEF PoolInv, PoolTypes
<1>3. PoolWaitsForWork'
  BY <1>1, ConnectionPoolFits DEF PoolInv, PoolTypes, PoolWaitsForWork, At, Idle, Threads
<1>4. QED
  BY <1>2, <1>3 DEF PoolInv

LEMMA CheckTokenSafe ==
  ASSUME PoolInv, NEW t \in Threads, CheckToken(t)
  PROVE  PoolInv'
<1> DEFINE s == [pc |-> "lock", stage |-> "call"]
<1>1. held' = held \ {t} /\ mutex' = mutex /\ th[t].pc = "token"
  BY DEF CheckToken, At
<1>2. CASE Done(t)
  BY <1>1, <1>2, DoneSafe
<1>3. CASE th' = [th EXCEPT ![t] = s]
  <2>1. s \in Thread
    BY BusyIsThread DEF Pcs
  <2>2. QED
    BY <1>1, <1>3, <2>1 DEF PoolInv, PoolTypes, PoolWaitsForWork, At
<1>4. QED
  BY <1>2, <1>3 DEF CheckToken

LEMMA ReadPageSafe ==
  ASSUME PoolInv, NEW t \in Threads, ReadPage(t)
  PROVE  PoolInv'
<1>1. mutex' = mutex /\ th[t].pc = "call"
  BY DEF ReadPage, At
<1>2. CASE UNCHANGED <<th, held>>
  BY <1>1, <1>2 DEF PoolInv, PoolTypes, PoolWaitsForWork, At
<1>3. CASE Done(t) /\ held' = held \ {t}
  BY <1>1, <1>3, DoneSafe
<1>4. QED
  BY <1>2, <1>3 DEF ReadPage

\* The pool is kept by every step, whatever it does to the channel.
LEMMA PoolStep ==
  ASSUME PoolInv, [Next]_vars
  PROVE  PoolInv'
<1>1. ASSUME NEW t \in Threads, Request(t) \/ Step(t) \/ TimesOut(t) \/ HandlerEnds(t)
      PROVE  PoolInv'
  <2>1. CASE Request(t)
    BY <2>1, RequestSafe
  <2>2. CASE Lock(t)
    BY <2>2, LockSafe
  <2>3. CASE Get(t)
    BY <2>3, GetSafe
  <2>4. CASE CheckToken(t)
    BY <2>4, CheckTokenSafe
  <2>5. CASE ReadPage(t)
    BY <2>5, ReadPageSafe
  <2>6. CASE HandlerEnds(t)
    BY <2>6, DoneSafe DEF HandlerEnds, At
  <2>7. CASE TimesOut(t)
    <3>1. t \notin held
      BY <2>7 DEF TimesOut, PoolInv, PoolWaitsForWork, At
    <3>2. held' = held \ {t}
      BY <2>7, <3>1 DEF TimesOut
    <3>3. QED
      BY <2>7, <3>2, DoneSafe DEF TimesOut, At
  <2>8. QED
    BY <1>1, <2>1, <2>2, <2>3, <2>4, <2>5, <2>6, <2>7 DEF Step
<1>2. CASE UNCHANGED <<mutex, th, held>>
  BY <1>2 DEF PoolInv, PoolTypes, PoolWaitsForWork, At
<1>3. QED
  BY <1>1, <1>2 DEF Next, vars, Enters, Exits

\* PoolWaitsForWork for every size of the pool and any number of threads: whoever waits for the
\* mutex or for a connection keeps none (connection_pool.rs:30, middleware/rocketchat.rs).
THEOREM NobodyWaitsWithAConnection == Spec => []PoolWaitsForWork
<1>1. Init => PoolInv
  BY IdleIsThread, ConnectionPoolFits
  DEF Init, PoolInv, PoolTypes, PoolWaitsForWork, At, Idle, Threads
<1>2. PoolInv /\ [Next]_vars => PoolInv'
  BY PoolStep
<1>3. PoolInv => PoolWaitsForWork
  BY DEF PoolInv
<1>4. QED
  BY <1>1, <1>2, <1>3, PTL DEF Spec

-----------------------------------------------------------------------------
(***************************************************************************)
(* The pages of a list: the place of an entry is its rank                  *)
(***************************************************************************)

\* How many entries there are up to e.
Rank(S, e) == Cardinality({f \in S : f <= e})

\* The rank of an entry is a place of the list, and a greater entry has a greater one.
LEMMA RankFits ==
  ASSUME NEW S \in SUBSET Int, IsFiniteSet(S)
  PROVE  /\ Cardinality(S) \in Nat
         /\ \A e \in S : Rank(S, e) \in 1..Cardinality(S)
         /\ \A e, f \in S : e < f => Rank(S, e) < Rank(S, f)
<1> DEFINE upTo(e) == {f \in S : f <= e}
<1>1. \A e \in S : upTo(e) \in SUBSET S /\ e \in upTo(e)
  OBVIOUS
<1>2. \A e \in S : IsFiniteSet(upTo(e)) /\ Cardinality(upTo(e)) <= Cardinality(S)
  BY <1>1, FS_Subset
<1>3. Cardinality(S) \in Nat /\ \A e \in S : Cardinality(upTo(e)) \in Nat
  BY <1>2, FS_CardinalityType
<1>4. ASSUME NEW e \in S
      PROVE  Cardinality(upTo(e)) # 0
  <2>1. upTo(e) # {} /\ IsFiniteSet(upTo(e))
    BY <1>1, <1>2
  <2>2. QED
    BY <2>1, FS_EmptySet
<1>5. ASSUME NEW e \in S, NEW f \in S, e < f
      PROVE  Cardinality(upTo(e)) < Cardinality(upTo(f))
  <2>1. upTo(e) \in SUBSET upTo(f) /\ f \in upTo(f) /\ f \notin upTo(e)
    <3>1. \A g \in S : g \in Int
      OBVIOUS
    <3>2. \A g \in S : g <= e => g <= f
      BY <1>5, <3>1
    <3>3. f <= f /\ ~(f <= e)
      BY <1>5, <3>1
    <3>4. QED
      BY <3>2, <3>3
  <2>2. IsFiniteSet(upTo(f)) /\ upTo(e) # upTo(f)
    BY <1>2, <2>1
  <2>3. /\ Cardinality(upTo(e)) <= Cardinality(upTo(f))
        /\ Cardinality(upTo(e)) # Cardinality(upTo(f))
    BY <2>1, <2>2, FS_Subset
  <2>4. QED
    BY <1>3, <2>3
<1>6. QED
  BY <1>2, <1>3, <1>4, <1>5 DEF Rank

\* Every place has an entry when no two entries share one,
LEMMA EveryRank ==
  ASSUME NEW S, IsFiniteSet(S),
         \A e \in S : Rank(S, e) \in 1..Cardinality(S),
         \A e, f \in S : Rank(S, e) = Rank(S, f) => e = f
  PROVE  \A i \in 1..Cardinality(S) : \E e \in S : Rank(S, e) = i
<1> DEFINE n == Cardinality(S)
           places == 1..n
           rank == [e \in S |-> Rank(S, e)]
<1>1. /\ rank \in [S -> places]
      /\ \A e \in S : rank[e] = Rank(S, e)
      /\ \A e, f \in S : rank[e] = rank[f] => e = f
  OBVIOUS
<1>2. n \in Nat
  BY FS_CardinalityType
<1>3. IsFiniteSet(places) /\ Cardinality(places) = Cardinality(S)
  <2> HIDE DEF n
  <2>1. IsFiniteSet(1..n) /\ Cardinality(1..n) = n
    BY <1>2, FS_Interval
  <2>2. QED
    BY <2>1 DEF n
<1> HIDE DEF rank, places
<1>4. \A i \in places : \E e \in S : rank[e] = i
  BY <1>1, <1>3, NoMoreThan
<1>5. QED
  BY <1>1, <1>4 DEF places

\* and the server lists each at its place.
LEMMA SortedFits ==
  ASSUME NEW S \in SUBSET Int, IsFiniteSet(S)
  PROVE  /\ Sorted(S) \in Seq(S)
         /\ Len(Sorted(S)) = Cardinality(S)
         /\ \A i \in 1..Cardinality(S) : Sorted(S)[i] \in S /\ Rank(S, Sorted(S)[i]) = i
         /\ \A e \in S : Sorted(S)[Rank(S, e)] = e
<1> DEFINE n == Cardinality(S)
<1>1. /\ n \in Nat
      /\ \A e \in S : Rank(S, e) \in 1..n
      /\ \A e, g \in S : e < g => Rank(S, e) < Rank(S, g)
  BY RankFits
<1>2. \A e, g \in S : Rank(S, e) = Rank(S, g) => e = g
  <2>1. SUFFICES ASSUME NEW e \in S, NEW g \in S, Rank(S, e) = Rank(S, g)
                 PROVE  e = g
    OBVIOUS
  <2>2. e \in Int /\ g \in Int /\ Rank(S, e) \in Int
    BY <1>1
  <2>3. ~(e < g) /\ ~(g < e)
    BY <1>1, <2>1, <2>2
  <2>4. QED
    BY <2>2, <2>3
<1>3. \A i \in 1..n : \E e \in S : Rank(S, e) = i
  BY <1>1, <1>2, EveryRank
<1>4. Sorted(S) = [i \in 1..n |-> CHOOSE e \in S : Rank(S, e) = i]
  BY DEF Sorted, Rank
<1> HIDE DEF n
<1>5. \A i \in 1..n : Sorted(S)[i] \in S /\ Rank(S, Sorted(S)[i]) = i
  BY <1>3, <1>4
<1>6. Sorted(S) \in [1..n -> S]
  BY <1>4, <1>5
<1>7. Sorted(S) \in Seq(S) /\ Len(Sorted(S)) = n
  BY <1>1, <1>6
<1>8. \A e \in S : Sorted(S)[Rank(S, e)] = e
  BY <1>1, <1>2, <1>5
<1>9. QED
  BY <1>5, <1>7, <1>8 DEF n

\* An answer has the entries behind the offset, as many as fit on a page.
LEMMA ResponseFits ==
  ASSUME NEW S \in SUBSET Int, IsFiniteSet(S), NEW offset \in Nat
  PROVE  LET response == Response(S, offset) IN
         /\ response.entries \in Seq(Int)
         /\ response.count \in Nat
         /\ Len(response.entries) = response.count
         /\ response.offset = offset
         /\ response.total = Cardinality(S)
         /\ \A k \in 1..response.count :
              response.entries[k] \in S /\ Rank(S, response.entries[k]) = offset + k
         /\ \A e \in S :
              offset < Rank(S, e) /\ Rank(S, e) <= offset + response.count =>
                \E k \in 1..response.count : response.entries[k] = e
<1> DEFINE list == Sorted(S)
           n == Cardinality(S)
           last == IF offset + PageSize < n THEN offset + PageSize ELSE n
           page == SubSeq(list, offset + 1, last)
<1>1. /\ list \in Seq(S) /\ Len(list) = n
      /\ \A i \in 1..n : list[i] \in S /\ Rank(S, list[i]) = i
      /\ \A e \in S : list[Rank(S, e)] = e
  BY SortedFits
<1>2. n \in Nat /\ PageSize \in Nat /\ last \in 0..n
  BY RankFits, PaginationFits
<1>3. Response(S, offset) = [entries |-> page, count |-> Len(page), offset |-> offset, total |-> n]
  BY <1>1 DEF Response
<1> HIDE DEF list, n, last
<1>4. \A i \in offset + 1..last : list[i] \in Int /\ i \in 1..n
  <2>1. \A i \in offset + 1..last : i \in 1..n
    BY <1>2
  <2>2. \A e \in S : e \in Int
    OBVIOUS
  <2>3. QED
    BY <1>1, <2>1, <2>2
<1>5. /\ page \in Seq(Int)
      /\ Len(page) = IF offset + 1 <= last THEN last - (offset + 1) + 1 ELSE 0
      /\ \A k \in 1..last - (offset + 1) + 1 : page[k] = list[offset + 1 + k - 1]
  BY <1>2, <1>4, SubSeqProperties
<1> HIDE DEF page
<1>6. /\ Len(page) \in Nat
      /\ \A k \in 1..Len(page) :
           page[k] = list[offset + k] /\ offset + k \in 1..n
  BY <1>2, <1>5
<1>7. \A k \in 1..Len(page) : page[k] \in S /\ Rank(S, page[k]) = offset + k
  BY <1>1, <1>6
<1>8. ASSUME NEW e \in S, offset < Rank(S, e), Rank(S, e) <= offset + Len(page)
      PROVE  \E k \in 1..Len(page) : page[k] = e
  <2>1. Rank(S, e) \in Nat
    BY RankFits
  <2>2. Rank(S, e) - offset \in 1..Len(page) /\ offset + (Rank(S, e) - offset) = Rank(S, e)
    BY <1>6, <1>8, <2>1
  <2>3. page[Rank(S, e) - offset] = e
    BY <1>1, <1>6, <2>2
  <2>4. QED
    BY <2>2, <2>3
<1>9. QED
  BY <1>3, <1>5, <1>6, <1>7, <1>8 DEF n

-----------------------------------------------------------------------------
(***************************************************************************)
(* The reads                                                               *)
(***************************************************************************)

\* A read that goes on: it is not at its end,
Going(t) == At(t, "call") => read[t].end = "no" /\ read[t].i < MaxRequests

\* whom it still has to get is behind the offset unless somebody went,
Missing(t) ==
  At(t, "call") /\ t \notin went =>
    /\ stayed[t] \subseteq members
    /\ \A e \in stayed[t] \ Got(t) : Rank(members, e) > read[t].offset

\* and whom it got is before it unless somebody came.
Repeating(t) ==
  t \notin came =>
    /\ \A i, j \in 1..Len(read[t].got) : read[t].got[i] = read[t].got[j] => i = j
    /\ At(t, "call") => \A e \in Got(t) \cap members : Rank(members, e) <= read[t].offset

ReadInv ==
  /\ TypeOK
  /\ MissedOnlyIfSomebodyWent
  /\ \A t \in TransactionThreads : Going(t) /\ Missing(t) /\ Repeating(t)

\* The members are finitely many numbers, before and after a step.
LEMMA MembersFinite ==
  ASSUME TypeOK
  PROVE  members \in SUBSET Int /\ IsFiniteSet(members)
BY ConnectionPoolFits, FS_Subset DEF TypeOK

\* Ranks grow with the list.
LEMMA RankGrows ==
  ASSUME NEW S \in SUBSET Int, IsFiniteSet(S), NEW T \in SUBSET S, NEW e \in T
  PROVE  Rank(T, e) <= Rank(S, e) /\ Rank(T, e) \in Nat /\ Rank(S, e) \in Nat
<1>1. {f \in S : f <= e} \in SUBSET S /\ {f \in T : f <= e} \in SUBSET {f \in S : f <= e}
  OBVIOUS
<1>2. IsFiniteSet({f \in S : f <= e})
  BY <1>1, FS_Subset
<1>3. /\ IsFiniteSet({f \in T : f <= e})
      /\ Cardinality({f \in T : f <= e}) <= Cardinality({f \in S : f <= e})
  BY <1>1, <1>2, FS_Subset
<1>4. QED
  BY <1>2, <1>3, FS_CardinalityType DEF Rank

\* The entries of a page come behind what a read got before.
LEMMA PageAppended ==
  ASSUME NEW before \in Seq(Int), NEW page \in Seq(Int)
  PROVE  /\ before \o page \in Seq(Int)
         /\ Len(before \o page) = Len(before) + Len(page)
         /\ \A i \in 1..Len(before) : (before \o page)[i] = before[i]
         /\ \A k \in 1..Len(page) : (before \o page)[Len(before) + k] = page[k]
<1>1. Len(before) \in Nat /\ Len(page) \in Nat
  OBVIOUS
<1>2. /\ before \o page \in Seq(Int)
      /\ Len(before \o page) = Len(before) + Len(page)
      /\ \A i \in 1..Len(before) + Len(page) :
           (before \o page)[i] = IF i <= Len(before) THEN before[i] ELSE page[i - Len(before)]
  BY ConcatProperties
<1>3. QED
  BY <1>1, <1>2

\* The read of a thread after its next answer.
LEMMA NextRead ==
  ASSUME TypeOK, NEW t \in TransactionThreads, read[t].end = "no", read[t].i < MaxRequests
  PROVE  LET response == Response(members, read[t].offset)
             next == AfterResponse(read[t], response)
             len == Len(read[t].got) IN
         /\ next \in Read
         /\ next.end = "no" => next.i < MaxRequests
         /\ response.count \in Nat
         /\ next.offset = read[t].offset + response.count
         /\ next.end = "complete" => next.offset = Cardinality(members)
         /\ Len(next.got) = len + response.count
         /\ \A i \in 1..len : next.got[i] = read[t].got[i]
         /\ \A k \in 1..response.count :
              next.got[len + k] \in members /\ Rank(members, next.got[len + k]) = read[t].offset + k
         /\ \A e \in members :
              read[t].offset < Rank(members, e) /\ Rank(members, e) <= next.offset =>
                \E k \in 1..response.count : next.got[len + k] = e
<1> DEFINE response == Response(members, read[t].offset)
           next == AfterResponse(read[t], response)
           len == Len(read[t].got)
           got == read[t].got \o response.entries
           total == Cardinality(members)
<1>1. members \in SUBSET Int /\ IsFiniteSet(members)
  BY MembersFinite
<1>2. /\ read[t].got \in Seq(Int) /\ len \in Nat
      /\ read[t].offset \in Nat
      /\ read[t].i \in 0..MaxRequests
  BY DEF TypeOK, Read
<1>3. /\ response.entries \in Seq(Int)
      /\ response.count \in Nat
      /\ Len(response.entries) = response.count
      /\ response.offset = read[t].offset
      /\ response.total = total
  BY <1>1, <1>2, ResponseFits
<1>4. /\ \A k \in 1..response.count :
           /\ response.entries[k] \in members
           /\ Rank(members, response.entries[k]) = read[t].offset + k
      /\ \A e \in members :
           read[t].offset < Rank(members, e) /\ Rank(members, e) <= read[t].offset + response.count =>
             \E k \in 1..response.count : response.entries[k] = e
  BY <1>1, <1>2, ResponseFits
<1> HIDE DEF response, total
<1>5. /\ got \in Seq(Int)
      /\ Len(got) = len + response.count
      /\ \A i \in 1..len : got[i] = read[t].got[i]
      /\ \A k \in 1..response.count : got[len + k] = response.entries[k]
  <2>1. /\ got \in Seq(Int)
        /\ Len(got) = len + Len(response.entries)
        /\ \A i \in 1..len : got[i] = read[t].got[i]
        /\ \A k \in 1..Len(response.entries) : got[len + k] = response.entries[k]
    BY <1>2, <1>3, PageAppended
  <2>2. QED
    BY <1>3, <2>1
<1>6. next = [got |-> got,
              offset |-> response.count + read[t].offset,
              i |-> read[t].i + 1,
              end |-> IF response.count + read[t].offset = total THEN "complete"
                      ELSE IF read[t].i + 1 = MaxRequests THEN "cut" ELSE "no"]
  BY <1>3 DEF AfterResponse, Subtotal, End
<1> HIDE DEF next, got, len
<1>7. /\ next.got = got
      /\ next.offset = response.count + read[t].offset
      /\ next.i = read[t].i + 1
      /\ next.end = IF response.count + read[t].offset = total THEN "complete"
                    ELSE IF read[t].i + 1 = MaxRequests THEN "cut" ELSE "no"
  BY <1>6
<1>8. /\ next.offset = read[t].offset + response.count
      /\ next.offset \in Nat
  BY <1>2, <1>3, <1>7
<1>9. /\ next.end \in {"no", "complete", "cut"}
      /\ next.end = "no" => next.i # MaxRequests
      /\ next.end = "complete" => next.offset = total
  BY <1>7
<1>10. next.i \in 0..MaxRequests /\ (next.end = "no" => next.i < MaxRequests)
  BY <1>2, <1>7, <1>9, PaginationFits
<1>11. next \in Read
  BY <1>5, <1>6, <1>7, <1>8, <1>9, <1>10 DEF Read
<1>12. /\ \A i \in 1..len : next.got[i] = read[t].got[i]
       /\ \A k \in 1..response.count : next.got[len + k] = response.entries[k]
  BY <1>5, <1>7
<1>13. /\ \A k \in 1..response.count :
            next.got[len + k] \in members /\ Rank(members, next.got[len + k]) = read[t].offset + k
       /\ \A e \in members :
            read[t].offset < Rank(members, e) /\ Rank(members, e) <= next.offset =>
              \E k \in 1..response.count : next.got[len + k] = e
  BY <1>4, <1>8, <1>12
<1>14. Len(next.got) = len + response.count
  BY <1>5, <1>7
<1>15. QED
  BY <1>3, <1>8, <1>9, <1>10, <1>11, <1>12, <1>13, <1>14 DEF next, len, response, total

\* Steps that leave the channel and all reads alone, and after which no other thread reads.
LEMMA ReadsStay ==
  ASSUME ReadInv, TypeOK', UNCHANGED <<members, read, stayed, came, went>>,
         \A t \in TransactionThreads : At(t, "call")' => At(t, "call")
  PROVE  ReadInv'
<1>1. MissedOnlyIfSomebodyWent'
  BY DEF ReadInv, MissedOnlyIfSomebodyWent, Got
<1>2. ASSUME NEW t \in TransactionThreads
      PROVE  Going(t)' /\ Missing(t)' /\ Repeating(t)'
  <2>1. Going(t) /\ Missing(t) /\ Repeating(t) /\ (At(t, "call")' => At(t, "call"))
    BY DEF ReadInv
  <2>2. QED
    BY <2>1 DEF Going, Missing, Repeating, Got
<1>3. QED
  BY <1>1, <1>2 DEF ReadInv

\* The types that the steps of the pool keep.
LEMMA PoolStepTypes ==
  ASSUME TypeOK, PoolInv', NEW t \in Threads,
         Request(t) \/ Lock(t) \/ TimesOut(t) \/ CheckToken(t) \/ HandlerEnds(t)
  PROVE  /\ TypeOK'
         /\ UNCHANGED <<members, read, stayed, came, went>>
<1>1. UNCHANGED <<members, read, stayed, came, went, changes>>
  BY DEF Request, Lock, TimesOut, CheckToken, HandlerEnds, channelVars, history
<1>2. th' \in [Threads -> Thread] /\ held' \subseteq Threads
  BY DEF PoolInv, PoolTypes
<1>3. mutex' \in Threads \cup {None}
  BY DEF TypeOK, Request, Lock, TimesOut, CheckToken, HandlerEnds
<1>4. served' \in 0..MaxServed
  BY ConnectionPoolFits DEF TypeOK, Request, Lock, TimesOut, CheckToken, HandlerEnds
<1>5. QED
  BY <1>1, <1>2, <1>3, <1>4 DEF TypeOK

LEMMA PoolStepsRead ==
  ASSUME ReadInv, PoolInv', NEW t \in Threads,
         Request(t) \/ Lock(t) \/ TimesOut(t) \/ CheckToken(t) \/ HandlerEnds(t)
  PROVE  ReadInv'
<1>1. TypeOK
  BY DEF ReadInv
<1>2. TypeOK' /\ UNCHANGED <<members, read, stayed, came, went>>
  BY <1>1, PoolStepTypes
<1>3. /\ th'[t].pc # "call"
      /\ \A u \in Threads \ {t} : th'[u] = th[u]
  <2>1. th \in [Threads -> Thread] /\ th[t] \in [pc : Pcs, stage : Stages]
    BY <1>1, ThreadShape DEF TypeOK
  <2>2. Request(t) => \E stage \in {"token", "call"} : th' = [th EXCEPT ![t] = [pc |-> "lock", stage |-> stage]]
    BY DEF Request
  <2>3. Lock(t) => th' = [th EXCEPT ![t].pc = "get"]
    BY DEF Lock
  <2>4. TimesOut(t) \/ HandlerEnds(t) => th' = [th EXCEPT ![t] = Idle]
    BY DEF TimesOut, HandlerEnds, Done
  <2>5. CheckToken(t) => \/ th' = [th EXCEPT ![t] = [pc |-> "lock", stage |-> "call"]]
                         \/ th' = [th EXCEPT ![t] = Idle]
    BY DEF CheckToken, Done
  <2>6. QED
    BY <2>1, <2>2, <2>3, <2>4, <2>5 DEF Idle
<1>4. \A u \in TransactionThreads : At(u, "call")' => At(u, "call")
  BY <1>3 DEF At, Threads
<1>5. QED
  BY <1>2, <1>4, ReadsStay

\* A read begins: nothing is got, and everybody who is a member is still to be got.
LEMMA GetReads ==
  ASSUME ReadInv, PoolInv', NEW t \in Threads, Get(t)
  PROVE  ReadInv'
<1>1. TypeOK
  BY DEF ReadInv
<1>2. /\ th' \in [Threads -> Thread] /\ held' \subseteq Threads
      /\ mutex' = None /\ members' = members /\ changes' = changes /\ served' = served
      /\ \A u \in Threads \ {t} : th'[u] = th[u]
  BY <1>1 DEF Get, PoolInv, PoolTypes, TypeOK
<1>3. CASE t \notin TransactionThreads
  <2>1. UNCHANGED <<read, stayed, came, went>>
    BY <1>3 DEF Get, history
  <2>2. TypeOK'
    BY <1>1, <1>2, <2>1 DEF TypeOK
  <2>3. \A u \in TransactionThreads : At(u, "call")' => At(u, "call")
    BY <1>2, <1>3 DEF At, Threads
  <2>4. QED
    BY <1>2, <2>1, <2>2, <2>3, ReadsStay
<1>4. CASE t \in TransactionThreads
  <2>1. /\ read' = [read EXCEPT ![t] = NewRead]
        /\ stayed' = [stayed EXCEPT ![t] = members]
        /\ came' = came \ {t}
        /\ went' = went \ {t}
    BY <1>4 DEF Get
  <2>2. NewRead \in Read /\ NewRead.end = "no" /\ NewRead.i < MaxRequests /\ NewRead.offset = 0
        /\ NewRead.got = <<>>
    BY PaginationFits DEF NewRead, Read
  <2>3. TypeOK'
    BY <1>1, <1>2, <2>1, <2>2 DEF TypeOK
  <2>4. read'[t] = NewRead /\ stayed'[t] = members /\ Got(t)' = {}
    BY <1>1, <1>4, <2>1, <2>2 DEF TypeOK, Got
  <2>5. Going(t)' /\ Missing(t)' /\ Repeating(t)'
    <3>1. \A e \in members : Rank(members, e) > 0
      <4>1. Cardinality(members) \in Nat /\ \A e \in members : Rank(members, e) \in 1..Cardinality(members)
        BY <1>1, MembersFinite, RankFits
      <4>2. QED
        BY <4>1
    <3>2. Missing(t)'
      BY <1>2, <2>2, <2>4, <3>1 DEF Missing
    <3>3. QED
      BY <2>2, <2>4, <3>2 DEF Going, Repeating
  <2>6. ASSUME NEW u \in TransactionThreads \ {t}
        PROVE  /\ Going(u)' /\ Missing(u)' /\ Repeating(u)'
               /\ read'[u].end = "complete" /\ u \notin went' => stayed'[u] \subseteq Got(u)'
    <3>1. read'[u] = read[u] /\ stayed'[u] = stayed[u] /\ Got(u)' = Got(u) /\ th'[u] = th[u]
      BY <1>1, <1>2, <2>1 DEF TypeOK, Got, Threads
    <3>2. (u \in came' <=> u \in came) /\ (u \in went' <=> u \in went)
      BY <2>1
    <3>3. /\ Going(u) /\ Missing(u) /\ Repeating(u)
          /\ read[u].end = "complete" /\ u \notin went => stayed[u] \subseteq Got(u)
      BY DEF ReadInv, MissedOnlyIfSomebodyWent
    <3>4. QED
      BY <1>2, <3>1, <3>2, <3>3 DEF Going, Missing, Repeating, At
  <2>7. MissedOnlyIfSomebodyWent'
    BY <2>2, <2>4, <2>6 DEF MissedOnlyIfSomebodyWent
  <2>8. QED
    BY <2>3, <2>5, <2>6, <2>7 DEF ReadInv
<1>5. QED
  BY <1>3, <1>4

\* What one thread reads is nothing to the others.
LEMMA OtherReads ==
  ASSUME ReadInv, UNCHANGED <<members, stayed, came, went>>,
         NEW t \in TransactionThreads, NEW u \in TransactionThreads \ {t},
         read'[u] = read[u], At(u, "call")' => At(u, "call")
  PROVE  /\ Going(u)' /\ Missing(u)' /\ Repeating(u)'
         /\ read'[u].end = "complete" /\ u \notin went' => stayed'[u] \subseteq Got(u)'
<1>1. /\ Going(u) /\ Missing(u) /\ Repeating(u)
      /\ read[u].end = "complete" /\ u \notin went => stayed[u] \subseteq Got(u)
  BY DEF ReadInv, MissedOnlyIfSomebodyWent
<1>2. QED
  BY <1>1 DEF Going, Missing, Repeating, Got

\* A page adds to what is got; whom it does not have is behind the next offset, and nobody who
\* was before the offset is on it.
LEMMA PageReads ==
  ASSUME ReadInv, PoolInv', NEW t \in Threads, ReadPage(t)
  PROVE  ReadInv'
<1> DEFINE response == Response(members, read[t].offset)
           next == AfterResponse(read[t], response)
           count == response.count
           len == Len(read[t].got)
<1>1. TypeOK /\ t \in TransactionThreads /\ At(t, "call")
  BY DEF ReadInv, ReadPage
<1>2. read[t].end = "no" /\ read[t].i < MaxRequests
  BY <1>1 DEF ReadInv, Going
<1>3. /\ read[t].got \in Seq(Int) /\ len \in Nat /\ read[t].offset \in Nat
      /\ DOMAIN read[t].got = 1..len
  BY <1>1 DEF TypeOK, Read
<1>4. /\ read' = [read EXCEPT ![t] = next]
      /\ UNCHANGED <<mutex, members, stayed, came, went, changes, served>>
      /\ next.end = "no" => UNCHANGED th
      /\ next.end # "no" => th' = [th EXCEPT ![t] = Idle]
  BY DEF ReadPage, history, Done
<1>5. /\ next \in Read
      /\ next.end = "no" => next.i < MaxRequests
      /\ count \in Nat
      /\ next.offset = read[t].offset + count
      /\ next.end = "complete" => next.offset = Cardinality(members)
  BY <1>1, <1>2, NextRead
<1>6. /\ Len(next.got) = len + count
      /\ \A i \in 1..len : next.got[i] = read[t].got[i]
      /\ \A k \in 1..count :
           next.got[len + k] \in members /\ Rank(members, next.got[len + k]) = read[t].offset + k
      /\ \A e \in members :
           read[t].offset < Rank(members, e) /\ Rank(members, e) <= next.offset =>
             \E k \in 1..count : next.got[len + k] = e
  BY <1>1, <1>2, NextRead
<1> HIDE DEF next, response, len
<1>7. TypeOK'
  BY <1>1, <1>4, <1>5 DEF TypeOK, PoolInv, PoolTypes
<1>8. read'[t] = next /\ \A u \in TransactionThreads \ {t} : read'[u] = read[u]
  BY <1>1, <1>4 DEF TypeOK
<1>9. /\ At(t, "call")' => next.end = "no"
      /\ \A u \in TransactionThreads \ {t} : At(u, "call")' => At(u, "call")
  BY <1>1, <1>4 DEF TypeOK, At, Idle, Threads
<1>10. \A i \in 1..len + count :
         \/ i \in 1..len
         \/ \E k \in 1..count : i = len + k
  <2>1. TAKE i \in 1..len + count
  <2>2. CASE i > len
    <3>1. i - len \in 1..count /\ i = len + (i - len)
      BY <1>3, <1>5, <2>2
    <3>2. QED
      BY <3>1
  <2>3. QED
    BY <1>3, <1>5, <2>2
<1>11. /\ Got(t) = {read[t].got[i] : i \in 1..len}
       /\ Got(t)' = {next.got[i] : i \in 1..len + count}
  <2>1. next.got \in Seq(Int)
    BY <1>5 DEF Read
  <2>2. DOMAIN next.got = 1..len + count
    BY <1>6, <2>1
  <2>3. QED
    BY <1>3, <1>8, <2>2 DEF Got
<1>12. /\ Got(t) \subseteq Got(t)'
       /\ \A k \in 1..count : next.got[len + k] \in Got(t)'
  <2>1. \A i \in 1..len : i \in 1..len + count
    BY <1>3, <1>5
  <2>2. \A k \in 1..count : len + k \in 1..len + count
    BY <1>3, <1>5
  <2>3. QED
    BY <1>6, <1>11, <2>1, <2>2
<1>13. \A e \in members : Rank(members, e) \in 1..Cardinality(members) /\ Cardinality(members) \in Nat
  BY <1>1, MembersFinite, RankFits
<1>14. ASSUME t \notin went
       PROVE  /\ stayed[t] \subseteq members
              /\ \A e \in stayed[t] \ Got(t)' : Rank(members, e) > next.offset
  <2>1. /\ stayed[t] \subseteq members
        /\ \A e \in stayed[t] \ Got(t) : Rank(members, e) > read[t].offset
    BY <1>1, <1>14 DEF ReadInv, Missing
  <2>2. ASSUME NEW e \in stayed[t] \ Got(t)', ~(Rank(members, e) > next.offset)
        PROVE  FALSE
    <3>1. e \in members /\ e \notin Got(t)
      BY <1>12, <2>1, <2>2
    <3>2. Rank(members, e) > read[t].offset /\ Rank(members, e) \in Nat
      BY <1>13, <2>1, <2>2, <3>1
    <3>3. read[t].offset < Rank(members, e) /\ Rank(members, e) <= next.offset
      BY <1>3, <1>5, <2>2, <3>2
    <3>4. QED
      BY <1>6, <1>12, <2>2, <3>1, <3>3
  <2>3. QED
    BY <2>1, <2>2
<1>15. Missing(t)'
  BY <1>4, <1>8, <1>14 DEF Missing
<1>16. next.end = "complete" /\ t \notin went => stayed[t] \subseteq Got(t)'
  <2>1. SUFFICES ASSUME next.end = "complete", t \notin went, NEW e \in stayed[t], e \notin Got(t)'
                 PROVE  FALSE
    OBVIOUS
  <2>2. e \in members /\ Rank(members, e) > Cardinality(members)
    BY <1>5, <1>14, <2>1
  <2>3. QED
    BY <1>13, <2>2
<1>17. ASSUME t \notin came
       PROVE  /\ \A i, j \in 1..len + count : next.got[i] = next.got[j] => i = j
              /\ \A e \in Got(t)' \cap members : Rank(members, e) <= next.offset
  <2>1. /\ \A i, j \in 1..len : read[t].got[i] = read[t].got[j] => i = j
        /\ \A e \in Got(t) \cap members : Rank(members, e) <= read[t].offset
    BY <1>1, <1>17 DEF ReadInv, Repeating, len
  <2>2. \A i \in 1..len, k \in 1..count : next.got[i] # next.got[len + k]
    <3>1. SUFFICES ASSUME NEW i \in 1..len, NEW k \in 1..count, next.got[i] = next.got[len + k]
                   PROVE  FALSE
      OBVIOUS
    <3>2. next.got[i] \in Got(t) /\ next.got[i] \in members
      BY <1>6, <1>11, <3>1
    <3>3. Rank(members, next.got[i]) <= read[t].offset /\ Rank(members, next.got[i]) = read[t].offset + k
      BY <1>6, <2>1, <3>1, <3>2
    <3>4. QED
      BY <1>3, <3>3
  <2>3. \A k, l \in 1..count : next.got[len + k] = next.got[len + l] => k = l
    BY <1>3, <1>6
  <2>4. ASSUME NEW i \in 1..len + count, NEW j \in 1..len + count, next.got[i] = next.got[j]
        PROVE  i = j
    <3>1. CASE i \in 1..len /\ j \in 1..len
      BY <1>6, <2>1, <2>4, <3>1
    <3>2. CASE i \in 1..len /\ \E k \in 1..count : j = len + k
      BY <2>2, <2>4, <3>2
    <3>3. CASE j \in 1..len /\ \E k \in 1..count : i = len + k
      BY <2>2, <2>4, <3>3
    <3>4. CASE \E k, l \in 1..count : i = len + k /\ j = len + l
      BY <2>3, <2>4, <3>4
    <3>5. QED
      BY <1>10, <3>1, <3>2, <3>3, <3>4
  <2>5. ASSUME NEW i \in 1..len + count, next.got[i] \in members
        PROVE  Rank(members, next.got[i]) <= next.offset
    <3>1. CASE i \in 1..len
      <4>1. next.got[i] \in Got(t)
        BY <1>6, <1>11, <3>1
      <4>2. Rank(members, next.got[i]) <= read[t].offset /\ Rank(members, next.got[i]) \in Nat
        BY <1>13, <2>1, <2>5, <4>1
      <4>3. QED
        BY <1>3, <1>5, <4>2
    <3>2. ASSUME NEW k \in 1..count, i = len + k
          PROVE  Rank(members, next.got[i]) <= next.offset
      <4>1. Rank(members, next.got[i]) = read[t].offset + k
        BY <1>6, <3>2
      <4>2. QED
        BY <1>3, <1>5, <4>1
    <3>3. QED
      BY <1>10, <3>1, <3>2
  <2>6. QED
    BY <1>11, <2>4, <2>5
<1>18. Repeating(t)'
  BY <1>4, <1>6, <1>8, <1>17 DEF Repeating
<1>19. Going(t)'
  BY <1>5, <1>8, <1>9 DEF Going
<1>20. \A u \in TransactionThreads \ {t} :
         /\ Going(u)' /\ Missing(u)' /\ Repeating(u)'
         /\ read'[u].end = "complete" /\ u \notin went' => stayed'[u] \subseteq Got(u)'
  BY <1>1, <1>4, <1>8, <1>9, OtherReads
<1>21. MissedOnlyIfSomebodyWent'
  BY <1>4, <1>8, <1>16, <1>20 DEF MissedOnlyIfSomebodyWent
<1>22. QED
  BY <1>7, <1>15, <1>18, <1>19, <1>20, <1>21 DEF ReadInv

\* Who enters moves others only further back, and spoils the promise not to repeat.
LEMMA EntersReads ==
  ASSUME ReadInv, PoolInv', NEW u \in RocketchatUsers, Enters(u)
  PROVE  ReadInv'
<1>1. TypeOK
  BY DEF ReadInv
<1>2. /\ UNCHANGED <<mutex, th, held, read, stayed, went, served>>
      /\ changes < MaxChanges /\ changes' = changes + 1
      /\ members' = members \cup {u}
      /\ came' = came \cup Reading
  BY DEF Enters
<1>3. TypeOK'
  BY <1>1, <1>2, ConnectionPoolFits DEF TypeOK, Reading
<1>4. members' \in SUBSET Int /\ IsFiniteSet(members') /\ members \in SUBSET members'
  BY <1>2, <1>3, ConnectionPoolFits, FS_Subset DEF TypeOK
<1>5. \A e \in members : /\ Rank(members, e) <= Rank(members', e)
                         /\ Rank(members, e) \in Nat /\ Rank(members', e) \in Nat
  BY <1>4, RankGrows
<1>6. ASSUME NEW t \in TransactionThreads
      PROVE  Going(t)' /\ Missing(t)' /\ Repeating(t)'
  <2>1. /\ Going(t) /\ Missing(t) /\ Repeating(t)
        /\ read'[t] = read[t] /\ Got(t)' = Got(t) /\ (At(t, "call")' <=> At(t, "call"))
        /\ read[t].offset \in Nat
    BY <1>1, <1>2 DEF ReadInv, Got, At, TypeOK, Read
  <2>2. Missing(t)'
    <3>1. SUFFICES ASSUME At(t, "call"), t \notin went, NEW e \in stayed[t] \ Got(t)
                   PROVE  e \in members /\ Rank(members', e) > read[t].offset
      BY <1>2, <1>4, <2>1 DEF Missing
    <3>2. e \in members /\ Rank(members, e) > read[t].offset
      BY <2>1, <3>1 DEF Missing
    <3>3. QED
      BY <1>5, <2>1, <3>2
  <2>3. Repeating(t)'
    <3>1. t \notin came' => t \notin came /\ ~At(t, "call")
      BY <1>2 DEF Reading
    <3>2. QED
      BY <2>1, <3>1 DEF Repeating
  <2>4. QED
    BY <2>1, <2>2, <2>3 DEF Going
<1>7. MissedOnlyIfSomebodyWent'
  BY <1>2 DEF ReadInv, MissedOnlyIfSomebodyWent, Got
<1>8. QED
  BY <1>3, <1>6, <1>7 DEF ReadInv

\* Who exits moves others only further to the front, and spoils the promise to miss nobody.
LEMMA ExitsReads ==
  ASSUME ReadInv, PoolInv', NEW u \in RocketchatUsers, Exits(u)
  PROVE  ReadInv'
<1>1. TypeOK
  BY DEF ReadInv
<1>2. /\ UNCHANGED <<mutex, th, held, read, came, served>>
      /\ changes < MaxChanges /\ changes' = changes + 1
      /\ members' = members \ {u}
      /\ stayed' = [t \in TransactionThreads |-> IF t \in Reading THEN stayed[t] \ {u} ELSE stayed[t]]
      /\ went' = went \cup Reading
  BY DEF Exits
<1>3. TypeOK'
  BY <1>1, <1>2, ConnectionPoolFits DEF TypeOK, Reading
<1>4. members \in SUBSET Int /\ IsFiniteSet(members) /\ members' \in SUBSET members
  BY <1>1, <1>2, MembersFinite
<1>5. \A e \in members' : /\ Rank(members', e) <= Rank(members, e)
                          /\ Rank(members, e) \in Nat /\ Rank(members', e) \in Nat
  BY <1>4, RankGrows
<1>6. ASSUME NEW t \in TransactionThreads
      PROVE  /\ Going(t)' /\ Missing(t)' /\ Repeating(t)'
             /\ read'[t].end = "complete" /\ t \notin went' => stayed'[t] \subseteq Got(t)'
  <2>1. /\ Going(t) /\ Missing(t) /\ Repeating(t)
        /\ read'[t] = read[t] /\ Got(t)' = Got(t) /\ (At(t, "call")' <=> At(t, "call"))
        /\ read[t].offset \in Nat
    BY <1>1, <1>2 DEF ReadInv, Got, At, TypeOK, Read
  <2>2. t \notin went' => t \notin went /\ ~At(t, "call")
    BY <1>2 DEF Reading
  <2>3. Missing(t)'
    BY <2>1, <2>2 DEF Missing
  <2>4. Repeating(t)'
    <3>1. ASSUME t \notin came, At(t, "call"), NEW e \in Got(t) \cap members'
          PROVE  Rank(members', e) <= read[t].offset
      <4>1. e \in members /\ Rank(members, e) <= read[t].offset
        BY <1>4, <2>1, <3>1 DEF Repeating
      <4>2. QED
        BY <1>5, <2>1, <3>1, <4>1
    <3>2. QED
      BY <1>2, <2>1, <3>1 DEF Repeating
  <2>5. read'[t].end = "complete" /\ t \notin went' => stayed'[t] \subseteq Got(t)'
    <3>1. stayed'[t] \subseteq stayed[t]
      BY <1>2
    <3>2. read[t].end = "complete" /\ t \notin went => stayed[t] \subseteq Got(t)
      BY DEF ReadInv, MissedOnlyIfSomebodyWent
    <3>3. QED
      BY <2>1, <2>2, <3>1, <3>2
  <2>6. QED
    BY <2>1, <2>3, <2>4, <2>5 DEF Going
<1>7. MissedOnlyIfSomebodyWent'
  BY <1>6 DEF MissedOnlyIfSomebodyWent
<1>8. QED
  BY <1>3, <1>6, <1>7 DEF ReadInv

LEMMA ReadStep ==
  ASSUME ReadInv, PoolInv', [Next]_vars
  PROVE  ReadInv'
<1>1. CASE UNCHANGED vars
  <2>1. UNCHANGED <<mutex, th, held, members, read, stayed, came, went, changes, served>>
    BY <1>1 DEF vars, channelVars, history
  <2>2. TypeOK'
    BY <2>1 DEF ReadInv, TypeOK
  <2>3. \A t \in TransactionThreads : At(t, "call")' => At(t, "call")
    BY <2>1 DEF At
  <2>4. QED
    BY <2>1, <2>2, <2>3, ReadsStay
<1>2. ASSUME NEW t \in Threads, Request(t) \/ Step(t) \/ TimesOut(t) \/ HandlerEnds(t)
      PROVE  ReadInv'
  BY <1>2, PoolStepsRead, GetReads, PageReads DEF Step
<1>3. ASSUME NEW u \in RocketchatUsers, Enters(u) \/ Exits(u)
      PROVE  ReadInv'
  BY <1>3, EntersReads, ExitsReads
<1>4. QED
  BY <1>1, <1>2, <1>3 DEF Next

LEMMA ReadInit ==
  ASSUME Init
  PROVE  ReadInv
<1>1. NewRead \in Read /\ NewRead.end = "no" /\ NewRead.got = <<>>
  BY PaginationFits DEF NewRead, Read
<1>2. TypeOK
  BY <1>1, IdleIsThread, ConnectionPoolFits DEF Init, TypeOK
<1>3. \A t \in TransactionThreads : ~At(t, "call") /\ read[t] = NewRead
  BY DEF Init, At, Idle, Threads
<1>4. QED
  BY <1>1, <1>2, <1>3 DEF ReadInv, MissedOnlyIfSomebodyWent, Going, Missing, Repeating

\* The pool, and for every read the ranks of the members it has and has not got, fit together in
\* every reachable state.
THEOREM Inductive == Spec => [](PoolInv /\ ReadInv)
<1>1. Init => PoolInv
  BY IdleIsThread, ConnectionPoolFits
  DEF Init, PoolInv, PoolTypes, PoolWaitsForWork, At, Idle, Threads
<1>2. Init => ReadInv
  BY ReadInit
<1>3. PoolInv /\ [Next]_vars => PoolInv'
  BY PoolStep
<1>4. PoolInv' /\ ReadInv /\ [Next]_vars => ReadInv'
  BY ReadStep
<1>5. QED
  BY <1>1, <1>2, <1>3, <1>4, PTL DEF Spec

\* The variables keep their types, for any lists, pages and threads.
THEOREM TypeCorrect == Spec => []TypeOK
<1>1. ReadInv => TypeOK
  BY DEF ReadInv
<1>2. QED
  BY <1>1, Inductive, PTL

\* A complete read has everybody who stayed a member, unless somebody left the channel during
\* the read (channels_members, groups_members and channels_list_joined of
\* api/rocketchat/v1.rs), for any size of the list and of its pages and any changes of it.
THEOREM MissesOnlyIfSomebodyWent == Spec => []MissedOnlyIfSomebodyWent
<1>1. ReadInv => MissedOnlyIfSomebodyWent
  BY DEF ReadInv
<1>2. QED
  BY <1>1, Inductive, PTL

\* A read has nobody twice, unless somebody entered the channel during the read.
THEOREM RepeatsOnlyIfSomebodyCame == Spec => []RepeatedOnlyIfSomebodyCame
<1>1. ASSUME ReadInv, NEW t \in TransactionThreads, t \notin came
      PROVE  Cardinality(Got(t)) = Len(read[t].got)
  <2> DEFINE got == read[t].got
             n == Len(got)
  <2>1. got \in Seq(Int) /\ n \in Nat /\ DOMAIN got = 1..n
    BY <1>1 DEF ReadInv, TypeOK, Read
  <2>2. \A i, j \in 1..n : got[i] = got[j] => i = j
    BY <1>1 DEF ReadInv, Repeating
  <2>3. Got(t) = {got[i] : i \in 1..n}
    BY <2>1 DEF Got
  <2> DEFINE f == [i \in 1..n |-> got[i]]
  <2>4. /\ f \in [1..n -> Got(t)]
        /\ \A i, j \in 1..n : f[i] = f[j] => i = j
        /\ \A e \in Got(t) : \E i \in 1..n : f[i] = e
    BY <2>2, <2>3
  <2> HIDE DEF f, n
  <2>5. f \in Bijection(1..n, Got(t))
    BY <2>4, Fun_IsBij
  <2>6. ExistsBijection(1..n, Got(t))
    BY <2>5 DEF ExistsBijection
  <2>7. Cardinality(Got(t)) = n
    BY <2>1, <2>6, FS_CountingElements
  <2>8. QED
    BY <2>7 DEF n
<1>2. ReadInv => RepeatedOnlyIfSomebodyCame
  BY <1>1 DEF RepeatedOnlyIfSomebodyCame
<1>3. QED
  BY <1>2, Inductive, PTL

=============================================================================
