------------------------ MODULE PostedEvents_proofs ------------------------
(***************************************************************************)
(* Proofs about the queue of posted events, for every number of gobjs and  *)
(* posts and every ceiling.                                                *)
(*                                                                         *)
(* NextCycle and OrderKept rest on the numbers of dl_add(): no two entries *)
(* have the same, and while a delivery is in progress last_id separates    *)
(* the entries that were waiting when it began from those posted since.    *)
(* No purge from the middle of the list can disturb either.                *)
(***************************************************************************)
EXTENDS PostedEvents, NaturalMin, SequenceTheorems, TLAPS

\* The list: the numbers of its entries are given by dl_add(), each once.
ListInv ==
    /\ \A m \in queue : m.id <= lastId
    /\ \A m, n \in queue : m.id = n.id => m = n
    /\ \A i \in delivered : i <= lastId

\* What last_id is worth during a delivery.
SnapshotInv ==
    /\ lastOne <= lastId
    /\ lastOne # 0 => \A m \in queue : m.id <= lastOne <=> m.id \notin fresh

\* With no posts by a gobj being destroyed, a source is alive or cleared.
SourceInv == \A m \in queue : m.src \in alive \cup {NoGobj}

\* Each number has the destination it was accepted for.
AccountInv == Len(accepted) = lastId /\ AllAccounted

-----------------------------------------------------------------------------

\* purge_posted_events(): what stays is an entry of the list with its number
\* and destination, and every entry for another destination stays.
LEMMA PurgedProperties ==
  ASSUME NEW g
  PROVE  /\ \A m \in Purged(g) : \E n \in queue :
              /\ n.dst # g
              /\ m = SourceCleared(n, g)
              /\ m.id = n.id /\ m.dst = n.dst
              /\ m.src = IF n.src = g THEN NoGobj ELSE n.src
         /\ \A n \in queue : n.dst # g =>
              \E m \in Purged(g) : m.id = n.id /\ m.dst = n.dst
<1>1. ASSUME NEW m \in Purged(g)
      PROVE  \E n \in queue : n.dst # g /\ m = SourceCleared(n, g)
  BY DEF Purged
<1>2. \A n \in queue : n.dst # g => SourceCleared(n, g) \in Purged(g)
  BY DEF Purged
<1>3. \A n : /\ SourceCleared(n, g).id = n.id
             /\ SourceCleared(n, g).dst = n.dst
             /\ SourceCleared(n, g).src = IF n.src = g THEN NoGobj ELSE n.src
  BY DEF SourceCleared
<1> QED
  BY <1>1, <1>2, <1>3

\* purge_posted_events() leaves entries of the list's type.
LEMMA PurgedTyping ==
  ASSUME TypeOK, NEW g
  PROVE  Purged(g) \subseteq Entry
<1> SUFFICES ASSUME NEW n \in queue
             PROVE  SourceCleared(n, g) \in Entry
  BY DEF Purged
<1>1. n \in Entry
  BY DEF TypeOK
<1> QED
  BY <1>1 DEF Entry, SourceCleared

\* The initial state has the types.
LEMMA TypingInit == Init => TypeOK
BY PostedAssumption, EmptySeq DEF Init, TypeOK

\* Each step keeps the types.
LEMMA TypingNext == TypeOK /\ [Next]_vars => TypeOK'
<1> SUFFICES ASSUME TypeOK, [Next]_vars PROVE TypeOK'
  OBVIOUS
<1> USE PostedAssumption
<1>1. ASSUME NEW dst \in Gobjs, NEW src \in Gobjs, dst \in alive, Post(dst, src)
      PROVE  TypeOK'
  <2>1. lastId \in Nat /\ lastId' = lastId + 1 /\ lastId' \in 1..MaxPosts
    BY <1>1 DEF Post, TypeOK
  <2>2. queue' \subseteq Entry
    BY <1>1, <2>1 DEF Post, TypeOK, Entry, Ids
  <2>3. accepted' \in Seq(Gobjs)
    BY <1>1, AppendProperties DEF Post, TypeOK
  <2>4. /\ lastOne' \in 0..MaxPosts
        /\ fresh' \subseteq Ids
        /\ delivered' \subseteq Ids
    BY <1>1, <2>1 DEF Post, TypeOK, Ids
  <2>5. alive' \subseteq Gobjs /\ destroying' \in Seq(Gobjs)
    BY <1>1 DEF Post, TypeOK
  <2> QED
    BY <2>1, <2>2, <2>3, <2>4, <2>5 DEF TypeOK
<1>2. CASE HandlerPosts
  <2>1. PICK dst \in alive,
             src \in alive \cup (IF PostsInDestroy THEN InDestroy ELSE {}) :
               Post(dst, src)
    BY <1>2 DEF HandlerPosts
  <2>2. InDestroy \subseteq Gobjs
    BY DEF TypeOK, InDestroy
  <2>3. dst \in Gobjs /\ src \in Gobjs
    BY <2>2 DEF TypeOK
  <2> QED
    BY <1>1, <2>1, <2>3
<1>3. ASSUME NEW g \in Gobjs, DestroyBegins(g) PROVE TypeOK'
  <2>1. queue' \subseteq Entry
    BY <1>3, PurgedTyping DEF DestroyBegins
  <2>2. destroying' \in Seq(Gobjs)
    BY <1>3, AppendProperties DEF DestroyBegins, TypeOK
  <2> QED
    BY <1>3, <2>1, <2>2 DEF DestroyBegins, TypeOK
<1>4. CASE DestroyEnds
  <2>1. \A i \in 1..Len(destroying) - 1 : destroying[i] \in Gobjs
    BY DEF TypeOK
  <2>2. Len(destroying) - 1 \in Int
    BY DEF TypeOK
  <2>3. destroying' \in Seq(Gobjs)
    BY <1>4, <2>1, <2>2, SubSeqProperties DEF DestroyEnds
  <2> QED
    BY <1>4, <2>3 DEF DestroyEnds, TypeOK
<1>5. CASE DeliveryBegins
  <2>1. PICK m \in queue : (\A n \in queue : n.id <= m.id) /\ lastOne' = m.id
    BY <1>5 DEF DeliveryBegins
  <2>2. lastOne' \in 0..MaxPosts
    BY <2>1 DEF TypeOK, Entry, Ids
  <2> QED
    BY <1>5, <2>2 DEF DeliveryBegins, TypeOK
<1>6. ASSUME NEW m \in queue, Deliver(m) PROVE TypeOK'
  <2>1. m.id \in Ids
    BY DEF TypeOK, Entry
  <2> QED
    BY <1>6, <2>1 DEF Deliver, TypeOK
<1>7. CASE DeliveryEnds
  BY <1>7 DEF DeliveryEnds, TypeOK
<1>8. CASE UNCHANGED vars
  BY <1>8 DEF vars, TypeOK
<1> QED
  BY <1>2, <1>3, <1>4, <1>5, <1>6, <1>7, <1>8 DEF Next

(***************************************************************************)
(* Type correctness of the queue of posted events (gobj_post_event,        *)
(* gobj_deliver_posted_events, gobj_destroy).                              *)
(***************************************************************************)
THEOREM PostedTyping == Spec => []TypeOK
BY TypingInit, TypingNext, PTL DEF Spec

-----------------------------------------------------------------------------

(***************************************************************************)
(* The delivery calls gobj_send_event() with a pointer that is still good: *)
(* no waiting event has a destination destroyed or being destroyed         *)
(* (gobj_post_event, purge_posted_events).                                 *)
(***************************************************************************)
THEOREM PostedNoDeadDestination == Spec => []NoDeadDestination
<1>1. Init => NoDeadDestination
  BY DEF Init, NoDeadDestination
<1>2. NoDeadDestination /\ [Next]_vars => NoDeadDestination'
  <2> SUFFICES ASSUME NoDeadDestination, [Next]_vars PROVE NoDeadDestination'
    OBVIOUS
  <2>1. ASSUME NEW dst \in alive, NEW src, Post(dst, src)
        PROVE  NoDeadDestination'
    BY <2>1 DEF Post, NoDeadDestination
  <2>2. CASE HandlerPosts
    BY <2>1, <2>2 DEF HandlerPosts
  <2>3. ASSUME NEW g \in Gobjs, DestroyBegins(g) PROVE NoDeadDestination'
    BY <2>3, PurgedProperties DEF DestroyBegins, NoDeadDestination
  <2>4. CASE DestroyEnds
    BY <2>4 DEF DestroyEnds, NoDeadDestination
  <2>5. CASE DeliveryBegins
    BY <2>5 DEF DeliveryBegins, NoDeadDestination
  <2>6. ASSUME NEW m \in queue, Deliver(m) PROVE NoDeadDestination'
    BY <2>6 DEF Deliver, NoDeadDestination
  <2>7. CASE DeliveryEnds
    BY <2>7 DEF DeliveryEnds, NoDeadDestination
  <2>8. CASE UNCHANGED vars
    BY <2>8 DEF vars, NoDeadDestination
  <2> QED
    BY <2>2, <2>3, <2>4, <2>5, <2>6, <2>7, <2>8 DEF Next
<1> QED
  BY <1>1, <1>2, PTL DEF Spec

(***************************************************************************)
(* If no gobj is the source of an event posted while it is being           *)
(* destroyed, no event is delivered with a pointer to a source already     *)
(* freed (purge_posted_events).                                            *)
(***************************************************************************)
THEOREM PostedNoDanglingSource ==
  ASSUME ~PostsInDestroy
  PROVE  Spec => []NoDanglingSource
<1>1. Init => SourceInv
  BY DEF Init, SourceInv
<1>2. SourceInv /\ [Next]_vars => SourceInv'
  <2> SUFFICES ASSUME SourceInv, [Next]_vars PROVE SourceInv'
    OBVIOUS
  <2>1. ASSUME NEW dst, NEW src \in alive, Post(dst, src)
        PROVE  SourceInv'
    BY <2>1 DEF Post, SourceInv
  <2>2. CASE HandlerPosts
    <3>1. \E dst, src \in alive : Post(dst, src)
      BY <2>2 DEF HandlerPosts
    <3> QED
      BY <2>1, <3>1
  <2>3. ASSUME NEW g \in Gobjs, DestroyBegins(g) PROVE SourceInv'
    BY <2>3, PurgedProperties DEF DestroyBegins, SourceInv
  <2>4. CASE DestroyEnds
    BY <2>4 DEF DestroyEnds, SourceInv
  <2>5. CASE DeliveryBegins
    BY <2>5 DEF DeliveryBegins, SourceInv
  <2>6. ASSUME NEW m \in queue, Deliver(m) PROVE SourceInv'
    BY <2>6 DEF Deliver, SourceInv
  <2>7. CASE DeliveryEnds
    BY <2>7 DEF DeliveryEnds, SourceInv
  <2>8. CASE UNCHANGED vars
    BY <2>8 DEF vars, SourceInv
  <2> QED
    BY <2>2, <2>3, <2>4, <2>5, <2>6, <2>7, <2>8 DEF Next
<1>3. SourceInv => NoDanglingSource
  BY DEF SourceInv, NoDanglingSource
<1> QED
  BY <1>1, <1>2, <1>3, PTL DEF Spec

-----------------------------------------------------------------------------

\* What dl_add() numbers: the list, the order, and last_id of a delivery.
NumberInv == ListInv /\ OrderKept /\ SnapshotInv

LEMMA NumberInit == Init => NumberInv
BY DEF Init, NumberInv, ListInv, OrderKept, SnapshotInv

\* A post gets a number above those waiting, those delivered and last_id.
LEMMA NumberPost ==
  ASSUME TypeOK, NumberInv, NEW dst, NEW src, Post(dst, src)
  PROVE  NumberInv'
<1>1. /\ lastId \in Nat /\ lastId' = lastId + 1
      /\ lastOne \in Nat /\ lastOne' = lastOne
      /\ delivered \subseteq Nat /\ delivered' = delivered
      /\ \A m \in queue : m.id \in Nat
  BY DEF TypeOK, Entry, Ids, Post
<1>2. PICK e : e.id = lastId + 1 /\ queue' = queue \cup {e}
  BY DEF Post
<1>3. fresh' = fresh \cup {lastId + 1}
  BY DEF Post
<1>4. ListInv'
  BY <1>1, <1>2 DEF NumberInv, ListInv
<1>5. SnapshotInv'
  <2>1. lastOne' <= lastId'
    BY <1>1 DEF NumberInv, SnapshotInv
  <2>2. ASSUME lastOne # 0, NEW m \in queue'
        PROVE  m.id <= lastOne <=> m.id \notin fresh'
    <3>1. CASE m = e
      <4>1. ~(m.id <= lastOne)
        BY <1>1, <1>2, <3>1 DEF NumberInv, SnapshotInv
      <4> QED
        BY <1>2, <1>3, <3>1, <4>1
    <3>2. CASE m \in queue
      <4>1. m.id # lastId + 1
        BY <1>1, <3>2 DEF NumberInv, ListInv
      <4> QED
        BY <1>3, <2>2, <3>2, <4>1 DEF NumberInv, SnapshotInv
    <3> QED
      BY <1>2, <3>1, <3>2
  <2> QED
    BY <1>1, <2>1, <2>2 DEF SnapshotInv
<1>6. OrderKept'
  BY <1>1, <1>2 DEF NumberInv, ListInv, OrderKept
<1> QED
  BY <1>4, <1>5, <1>6 DEF NumberInv

\* A purge takes entries out of the list and changes no number.
LEMMA NumberPurge ==
  ASSUME NumberInv, NEW g, DestroyBegins(g)
  PROVE  NumberInv'
<1>1. /\ queue' = Purged(g)
      /\ UNCHANGED <<lastId, lastOne, fresh, delivered>>
  BY DEF DestroyBegins
<1>2. ASSUME NEW m \in queue'
      PROVE  \E n \in queue : m = SourceCleared(n, g) /\ m.id = n.id
  BY <1>1, PurgedProperties
<1>3. ListInv'
  BY <1>1, <1>2 DEF NumberInv, ListInv
<1>4. OrderKept'
  BY <1>1, <1>2 DEF NumberInv, OrderKept
<1>5. SnapshotInv'
  BY <1>1, <1>2 DEF NumberInv, SnapshotInv
<1> QED
  BY <1>3, <1>4, <1>5 DEF NumberInv

\* The mark of a snapshot: all that waits is below it, nothing is fresh.
LEMMA NumberSnapshot ==
  ASSUME NumberInv, DeliveryBegins
  PROVE  NumberInv'
<1>1. PICK m \in queue : (\A n \in queue : n.id <= m.id) /\ lastOne' = m.id
  BY DEF DeliveryBegins
<1>2. fresh' = {} /\ UNCHANGED <<queue, lastId, delivered>>
  BY DEF DeliveryBegins
<1>3. SnapshotInv'
  BY <1>1, <1>2 DEF NumberInv, ListInv, SnapshotInv
<1> QED
  BY <1>2, <1>3 DEF NumberInv, ListInv, OrderKept

\* The first entry goes: what is left has greater numbers.
LEMMA NumberDeliver ==
  ASSUME TypeOK, NumberInv, NEW m \in queue, Deliver(m)
  PROVE  NumberInv'
<1>1. /\ queue' = queue \ {m}
      /\ delivered' = delivered \cup {m.id}
      /\ UNCHANGED <<lastId, lastOne, fresh>>
  BY DEF Deliver
<1>2. \A n \in queue : n.id \in Nat
  BY DEF TypeOK, Entry, Ids
<1>3. ListInv'
  BY <1>1 DEF NumberInv, ListInv
<1>4. \A n \in queue' : m.id < n.id
  BY <1>1, <1>2 DEF NumberInv, ListInv, Deliver, IsFirst
<1>5. OrderKept'
  BY <1>1, <1>4 DEF NumberInv, OrderKept
<1>6. SnapshotInv'
  BY <1>1 DEF NumberInv, SnapshotInv
<1> QED
  BY <1>3, <1>5, <1>6 DEF NumberInv

\* Each step keeps the numbering.
LEMMA NumberNext == TypeOK /\ NumberInv /\ [Next]_vars => NumberInv'
<1> SUFFICES ASSUME TypeOK, NumberInv, [Next]_vars PROVE NumberInv'
  OBVIOUS
<1>1. CASE HandlerPosts
  BY <1>1, NumberPost DEF HandlerPosts
<1>2. ASSUME NEW g \in Gobjs, DestroyBegins(g) PROVE NumberInv'
  BY <1>2, NumberPurge
<1>3. CASE DestroyEnds
  BY <1>3 DEF DestroyEnds, NumberInv, ListInv, OrderKept, SnapshotInv
<1>4. CASE DeliveryBegins
  BY <1>4, NumberSnapshot
<1>5. ASSUME NEW m \in queue, Deliver(m) PROVE NumberInv'
  BY <1>5, NumberDeliver
<1>6. CASE DeliveryEnds
  <2>1. lastOne' = 0 /\ UNCHANGED <<queue, lastId, delivered>> /\ lastId \in Nat
    BY <1>6 DEF DeliveryEnds, TypeOK
  <2> QED
    BY <2>1 DEF NumberInv, ListInv, OrderKept, SnapshotInv
<1>7. CASE UNCHANGED vars
  BY <1>7 DEF vars, NumberInv, ListInv, OrderKept, SnapshotInv
<1> QED
  BY <1>1, <1>2, <1>3, <1>4, <1>5, <1>6, <1>7 DEF Next

(***************************************************************************)
(* Events are delivered once and in the order of the posts, whatever is    *)
(* destroyed in between (gobj_deliver_posted_events, dl_add).              *)
(***************************************************************************)
THEOREM PostedOrderKept == Spec => []OrderKept
<1>1. NumberInv => OrderKept
  BY DEF NumberInv
<1> QED
  BY <1>1, TypingInit, TypingNext, NumberInit, NumberNext, PTL DEF Spec

\* The loop of a delivery ends at the first entry above last_id: then the
\* whole list is above it.
LEMMA EndsAboveSnapshot ==
  ASSUME TypeOK, DeliveryEnds
  PROVE  \A m \in queue : lastOne < m.id
<1> SUFFICES ASSUME NEW n \in queue PROVE lastOne < n.id
  OBVIOUS
<1>1. \A m \in queue : m.id \in Nat
  BY DEF TypeOK, Entry, Ids
<1>2. Pending \in SUBSET Nat /\ Pending # {}
  BY <1>1 DEF Pending
<1>3. PICK k \in Pending : \A x \in Pending : k <= x
  BY <1>2, MinExists
<1>4. PICK m \in queue : m.id = k
  BY <1>3 DEF Pending
<1>5. \A x \in queue : m.id <= x.id
  BY <1>3, <1>4 DEF Pending
<1>6. ~(m.id <= lastOne)
  BY <1>5 DEF DeliveryEnds, IsFirst, InSnapshot
<1>7. lastOne \in Nat
  BY DEF TypeOK
<1> QED
  BY <1>1, <1>5, <1>6, <1>7

(***************************************************************************)
(* An event is delivered in the cycle after the one it was posted in: a    *)
(* delivery takes none posted since it began, and ends only when all that  *)
(* is left was (gobj_deliver_posted_events).                               *)
(***************************************************************************)
THEOREM PostedNextCycle == Spec => NextCycle
<1> DEFINE Step ==
      /\ \A m \in queue : Deliver(m) => m.id \notin fresh
      /\ DeliveryEnds => Pending \subseteq fresh
<1>1. TypeOK /\ NumberInv => Step
  <2> SUFFICES ASSUME TypeOK, NumberInv PROVE Step
    OBVIOUS
  <2>1. ASSUME NEW m \in queue, Deliver(m) PROVE m.id \notin fresh
    BY <2>1 DEF Deliver, InSnapshot, NumberInv, SnapshotInv
  <2>2. ASSUME DeliveryEnds PROVE Pending \subseteq fresh
    <3> SUFFICES ASSUME NEW m \in queue PROVE m.id \in fresh
      BY DEF Pending
    <3>1. ~(m.id <= lastOne)
      <4>1. m.id \in Nat /\ lastOne \in Nat
        BY DEF TypeOK, Entry, Ids
      <4>2. lastOne < m.id
        BY <2>2, EndsAboveSnapshot
      <4> QED
        BY <4>1, <4>2
    <3> QED
      BY <2>2, <3>1 DEF DeliveryEnds, NumberInv, SnapshotInv
  <2> QED
    BY <2>1, <2>2
<1> QED
  BY <1>1, TypingInit, TypingNext, NumberInit, NumberNext, PTL
  DEF Spec, NextCycle

-----------------------------------------------------------------------------

\* Each step keeps the account of accepted events.
LEMMA AccountNext == TypeOK /\ AccountInv /\ [Next]_vars => AccountInv'
<1> SUFFICES ASSUME TypeOK, AccountInv, [Next]_vars PROVE AccountInv'
  OBVIOUS
<1>1. ASSUME NEW dst \in Gobjs, NEW src, Post(dst, src) PROVE AccountInv'
  <2>1. /\ lastId \in Nat /\ lastId' = lastId + 1
        /\ accepted \in Seq(Gobjs) /\ Len(accepted) = lastId
        /\ accepted' = Append(accepted, dst)
    BY <1>1 DEF Post, TypeOK, AccountInv
  <2>2. /\ Len(accepted') = lastId'
        /\ accepted'[lastId'] = dst
        /\ \A i \in 1..lastId : accepted'[i] = accepted[i]
    BY <2>1, AppendProperties
  <2>3. \E m \in queue' : m.id = lastId' /\ m.dst = dst
    <3> DEFINE e == [id |-> lastId', dst |-> dst, src |-> src]
    <3>1. e \in queue'
      BY <1>1 DEF Post
    <3>2. e.id = lastId' /\ e.dst = dst
      OBVIOUS
    <3> HIDE DEF e
    <3> QED
      BY <3>1, <3>2
  <2>4. delivered' = delivered /\ alive' = alive /\ queue \subseteq queue'
    BY <1>1 DEF Post
  <2>5. ASSUME NEW i \in 1..lastId'
        PROVE  \/ i \in delivered'
               \/ accepted'[i] \notin alive'
               \/ \E m \in queue' : m.id = i /\ m.dst = accepted'[i]
    <3>1. CASE i = lastId'
      BY <2>2, <2>3, <3>1
    <3>2. CASE i \in 1..lastId
      BY <2>2, <2>4, <3>2 DEF AccountInv, AllAccounted
    <3>3. i = lastId' \/ i \in 1..lastId
      BY <2>1
    <3> QED
      BY <3>1, <3>2, <3>3
  <2> QED
    BY <2>2, <2>5 DEF AccountInv, AllAccounted
<1>2. CASE HandlerPosts
  BY <1>1, <1>2 DEF HandlerPosts, TypeOK
<1>3. ASSUME NEW g \in Gobjs, DestroyBegins(g) PROVE AccountInv'
  <2>1. /\ queue' = Purged(g) /\ alive' = alive \ {g}
        /\ UNCHANGED <<lastId, accepted, delivered>>
    BY <1>3 DEF DestroyBegins
  <2>2. ASSUME NEW m \in queue, m.dst # g
        PROVE  \E n \in queue' : n.id = m.id /\ n.dst = m.dst
    BY <2>1, <2>2, PurgedProperties
  <2>3. ASSUME NEW i \in 1..lastId
        PROVE  \/ i \in delivered
               \/ accepted[i] \notin alive'
               \/ \E m \in queue' : m.id = i /\ m.dst = accepted[i]
    BY <2>1, <2>2 DEF AccountInv, AllAccounted
  <2> QED
    BY <2>1, <2>3 DEF AccountInv, AllAccounted
<1>4. CASE DestroyEnds
  BY <1>4 DEF DestroyEnds, AccountInv, AllAccounted
<1>5. CASE DeliveryBegins
  BY <1>5 DEF DeliveryBegins, AccountInv, AllAccounted
<1>6. ASSUME NEW m \in queue, Deliver(m) PROVE AccountInv'
  BY <1>6 DEF Deliver, AccountInv, AllAccounted
<1>7. CASE DeliveryEnds
  BY <1>7 DEF DeliveryEnds, AccountInv, AllAccounted
<1>8. CASE UNCHANGED vars
  BY <1>8 DEF vars, AccountInv, AllAccounted
<1> QED
  BY <1>2, <1>3, <1>4, <1>5, <1>6, <1>7, <1>8 DEF Next

(***************************************************************************)
(* An accepted event waits, was delivered, or lost its destination: no     *)
(* purge drops the event of a source that died (purge_posted_events).      *)
(***************************************************************************)
THEOREM PostedAllAccounted == Spec => []AllAccounted
<1>1. Init => AccountInv
  BY DEF Init, AccountInv, AllAccounted
<1>2. AccountInv => AllAccounted
  BY DEF AccountInv
<1> QED
  BY <1>1, <1>2, TypingInit, TypingNext, AccountNext, PTL DEF Spec
=============================================================================
