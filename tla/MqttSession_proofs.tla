------------------------- MODULE MqttSession_proofs -------------------------
(***************************************************************************)
(* Theorems about the queues of an MQTT session: their types, and that an  *)
(* answer always finds the one message that it is to.  A message id comes  *)
(* back after MaxMid others, whatever became of the message that had it    *)
(* (mqtt_mid_generate); a window of at most half of the ids, rounded up,   *)
(* makes sure that the message is settled by then.                         *)
(***************************************************************************)
EXTENDS MqttSession, NaturalMin, FiniteSetTheorems, SequenceTheorems, TLAPS

-----------------------------------------------------------------------------
(* Message ids. *)

\* How many ids were given after that one, if it is one of the last MaxMid
Age(last, mid) == IF mid <= last THEN last - mid ELSE last + MaxMid - mid

\* An id that is given is never 0, and is one that the peer can name.
LEMMA MidTypes ==
  ASSUME NEW mid \in 0..MaxMid, NEW n \in Nat \ {0}
  PROVE  MidAfter(mid, n) \in 1..MaxMid
<1>1. MaxMid \in Nat \ {0} /\ mid + n - 1 \in Nat
  BY MqttAssumption
<1>2. (mid + n - 1) % MaxMid \in 0..(MaxMid - 1)
  BY <1>1
<1> QED
  BY <1>1, <1>2 DEF MidAfter

\* As long as fewer than MaxMid are given at once, the ids wrap at most once.
LEMMA MidIs ==
  ASSUME NEW mid \in 0..MaxMid, NEW n \in 1..MaxMid
  PROVE  MidAfter(mid, n) = IF mid + n <= MaxMid THEN mid + n
                            ELSE mid + n - MaxMid
<1> DEFINE x == mid + n - 1
<1>1. MaxMid \in Nat \ {0} /\ x \in Nat
  BY MqttAssumption
<1>2. CASE mid + n <= MaxMid
  <2>1. x < MaxMid
    BY <1>1, <1>2
  <2>2. x % MaxMid = x
    BY <1>1, <2>1
  <2> QED
    BY <1>1, <1>2, <2>2 DEF MidAfter
<1>3. CASE mid + n > MaxMid
  <2>1. x \in MaxMid..(2 * MaxMid - 1)
    BY <1>1, <1>3
  <2> HIDE DEF x
  <2>2. x % MaxMid = x - MaxMid
    BY <1>1, <2>1
  <2> QED
    BY <1>1, <1>3, <2>2 DEF MidAfter, x
<1> QED
  BY <1>1, <1>2, <1>3

\* An id grows older by each one that is given after it, and does not come
\* back before MaxMid of them.
LEMMA AgeAfter ==
  ASSUME NEW last \in 0..MaxMid, NEW mid \in 1..MaxMid, NEW n \in 1..MaxMid,
         Age(last, mid) + n < MaxMid
  PROVE  Age(MidAfter(last, n), mid) = Age(last, mid) + n
<1>1. MaxMid \in Nat \ {0}
  BY MqttAssumption
<1> QED
  BY <1>1, MidIs DEF Age

\* Of n that are given at once, the k-th has n - k after it.
LEMMA AgeOfNew ==
  ASSUME NEW last \in 0..MaxMid, NEW n \in 1..MaxMid, NEW k \in 1..n
  PROVE  Age(MidAfter(last, n), MidAfter(last, k)) = n - k
<1>1. MaxMid \in Nat \ {0}
  BY MqttAssumption
<1> QED
  BY <1>1, MidIs DEF Age

\* Two ids are as old as each other only if they are the same.
LEMMA AgeTells ==
  ASSUME NEW last \in 0..MaxMid, NEW a \in 1..MaxMid, NEW b \in 1..MaxMid
  PROVE  /\ Age(last, a) \in 0..(MaxMid - 1)
         /\ Age(last, a) = Age(last, b) => a = b
<1>1. MaxMid \in Nat \ {0}
  BY MqttAssumption
<1> QED
  BY <1>1 DEF Age

-----------------------------------------------------------------------------
(* Sets in order. *)

\* Ordered lists a finite set of naturals, each once, from the least.
LEMMA OrderedDoes ==
  ASSUME NEW S \in SUBSET Nat, IsFiniteSet(S)
  PROVE  LET n == Cardinality(S)
         IN  /\ n \in Nat /\ Ordered(S) \in [1..n -> S]
             /\ \A x \in S : \E k \in 1..n : Ordered(S)[k] = x
             /\ \A k, l \in 1..n : k < l => Ordered(S)[k] < Ordered(S)[l]
<1> DEFINE n == Cardinality(S)
           Below(x) == {y \in S : y <= x}
           rank == [x \in S |-> Cardinality(Below(x))]
<1>1. n \in Nat
  BY FS_CardinalityType
<1>2. ASSUME NEW x \in S
      PROVE  IsFiniteSet(Below(x)) /\ rank[x] \in 1..n
  <2>1. Below(x) \in SUBSET S /\ x \in Below(x)
    OBVIOUS
  <2>2. IsFiniteSet(Below(x)) /\ Cardinality(Below(x)) <= n
    BY <2>1, FS_Subset
  <2>3. Cardinality(Below(x)) \in Nat /\ Cardinality(Below(x)) # 0
    BY <2>1, <2>2, FS_CardinalityType, FS_EmptySet
  <2>4. rank[x] = Cardinality(Below(x))
    OBVIOUS
  <2> HIDE DEF rank, Below
  <2> QED
    BY <1>1, <2>2, <2>3, <2>4
<1>3. ASSUME NEW x \in S, NEW y \in S, x < y
      PROVE  rank[x] < rank[y]
  <2>1. \A z \in S : z <= x => z <= y
    BY <1>3
  <2>2. Below(x) \in SUBSET Below(y)
    BY <2>1
  <2>3. y \in Below(y) /\ y \notin Below(x)
    BY <1>3
  <2>4. Cardinality(Below(x)) <= Cardinality(Below(y))
        /\ Cardinality(Below(x)) # Cardinality(Below(y))
    BY <1>2, <2>3, <2>2, FS_Subset
  <2>5. rank[x] \in Nat /\ rank[y] \in Nat
    BY <1>1, <1>2
  <2> QED
    BY <2>4, <2>5
<1>4. rank \in [S -> 1..n]
  BY <1>2
<1>5. \A x, y \in S : rank[x] = rank[y] => x = y
  <2>1. \A x, y \in S : x < y \/ y < x \/ x = y
    OBVIOUS
  <2> QED
    BY <1>3, <1>4, <2>1
<1>6. rank \in Injection(S, 1..n)
  BY <1>4, <1>5 DEF Injection, IsInjective
<1>7. rank \in Surjection(S, 1..n)
  <2>1. IsFiniteSet(1..n) /\ Cardinality(1..n) = n
    BY <1>1, FS_Interval
  <2> HIDE DEF rank
  <2> QED
    BY <1>6, <2>1, FS_Injection
<1>8. \A k \in 1..n : \E x \in S : rank[x] = k
  BY <1>7 DEF Surjection
<1>9. ASSUME NEW k \in 1..n
      PROVE  Ordered(S)[k] \in S /\ rank[Ordered(S)[k]] = k
  <2>1. \E x \in S : Cardinality({y \in S : y <= x}) = k
    BY <1>8
  <2>2. Ordered(S)[k] = CHOOSE x \in S : Cardinality({y \in S : y <= x}) = k
    BY DEF Ordered
  <2> QED
    BY <2>1, <2>2
<1>10. Ordered(S) \in [1..n -> S]
  BY <1>9 DEF Ordered
<1> HIDE DEF rank
<1>11. \A x \in S : rank[x] \in 1..n /\ Ordered(S)[rank[x]] = x
  BY <1>4, <1>5, <1>9
<1>12. ASSUME NEW k \in 1..n, NEW l \in 1..n, k < l
       PROVE  Ordered(S)[k] < Ordered(S)[l]
  <2>1. Ordered(S)[k] \in Nat /\ Ordered(S)[l] \in Nat
    BY <1>9
  <2>2. rank[Ordered(S)[k]] = k /\ rank[Ordered(S)[l]] = l
    BY <1>9
  <2>3. \A x, y \in S : x < y => rank[x] < rank[y]
    BY <1>3
  <2>4. Ordered(S)[l] < Ordered(S)[k] => l < k
    BY <1>9, <2>2, <2>3
  <2> QED
    BY <1>1, <1>12, <2>1, <2>2, <2>4
<1> QED
  BY <1>1, <1>10, <1>11, <1>12

\* The numbers from m + 1 on, in order
LEMMA OrderedRun ==
  ASSUME NEW m \in Nat, NEW n \in Nat, m <= n
  PROVE  /\ Cardinality((m + 1)..n) = n - m
         /\ \A k \in 1..(n - m) : Ordered((m + 1)..n)[k] = m + k
         /\ \A i \in (m + 1)..n : Cardinality({j \in (m + 1)..n : j <= i}) = i - m
<1> DEFINE S == (m + 1)..n
<1>1. Cardinality(S) = n - m
  <2>1. m + 1 \in Int /\ n \in Int
    OBVIOUS
  <2>2. Cardinality(S) = IF m + 1 > n THEN 0 ELSE n - (m + 1) + 1
    BY <2>1, FS_Interval
  <2>3. (IF m + 1 > n THEN 0 ELSE n - (m + 1) + 1) = n - m
    OBVIOUS
  <2> QED
    BY <2>2, <2>3
<1>2. ASSUME NEW i \in S
      PROVE  Cardinality({j \in S : j <= i}) = i - m
  <2>1. {j \in S : j <= i} = (m + 1)..i
    OBVIOUS
  <2>2. m + 1 \in Int /\ i \in Int /\ m + 1 <= i
    BY <1>2
  <2>3. Cardinality((m + 1)..i) = i - (m + 1) + 1
    BY <2>2, FS_Interval
  <2>4. i - (m + 1) + 1 = i - m
    BY <2>2
  <2> QED
    BY <2>1, <2>3, <2>4
<1>3. ASSUME NEW k \in 1..(n - m)
      PROVE  Ordered(S)[k] = m + k
  <2>1. m + k \in S
    BY <1>3
  <2>2. \A x \in S : Cardinality({y \in S : y <= x}) = x - m
    BY <1>2
  <2>3. \A x \in S : Cardinality({y \in S : y <= x}) = k <=> x = m + k
    BY <1>3, <2>2
  <2>4. Ordered(S)[k] = CHOOSE x \in S : Cardinality({y \in S : y <= x}) = k
    BY <1>1, <1>3 DEF Ordered
  <2> QED
    BY <2>1, <2>3, <2>4
<1> QED
  BY <1>1, <1>2, <1>3

-----------------------------------------------------------------------------
(* The types. *)

Entry == [id : Ids, mid : 0..MaxMid]

OutPacket == [type : {"PUBLISH"}, id : Ids, mid : 1..MaxMid, dup : BOOLEAN]
               \cup [type : {"PUBREL"}, mid : 1..MaxMid]

AnswerPacket == [type : {"PUBACK", "PUBREC", "PUBCOMP"}, mid : 1..MaxMid]

Sender == [state : [Ids -> States], inflight : Seq(Entry), queued : Seq(Ids),
           lastMid : 0..MaxMid, packets : Seq(OutPacket)]

Held == [id : Ids, mid : 1..MaxMid, row : Nat \ {0}]

Receiver == [held : Seq(Held), rows : Nat, delivered : [Ids -> Nat],
             packets : Seq(AnswerPacket)]

Limited(list) == MaxInflight > 0 => Len(list) <= MaxInflight

\* A sequence that is given by what it has at each place
LEMMA ListOf ==
  ASSUME NEW S, NEW n \in Nat, NEW f, f \in [1..n -> S]
  PROVE  f \in Seq(S) /\ Len(f) = n /\ DOMAIN f = 1..n
OBVIOUS

\* One after the other
LEMMA CatDoes ==
  ASSUME NEW S, NEW u \in Seq(S), NEW v \in Seq(S)
  PROVE  LET w == u \o v
         IN  /\ w \in Seq(S)
             /\ Len(u) \in Nat /\ Len(v) \in Nat /\ Len(w) = Len(u) + Len(v)
             /\ \A i \in 1..Len(u) : w[i] = u[i]
             /\ \A k \in 1..Len(v) : w[Len(u) + k] = v[k]
<1> DEFINE n == Len(u)
           m == Len(v)
           w == u \o v
<1>1. n \in Nat /\ m \in Nat
  BY LenProperties
<1>2. /\ w \in Seq(S) /\ Len(w) = n + m
      /\ \A i \in 1..(n + m) : w[i] = IF i <= n THEN u[i] ELSE v[i - n]
  BY ConcatProperties, Zenon
<1> HIDE DEF n, m, w
<1>3. \A i \in 1..n : w[i] = u[i]
  BY <1>1, <1>2
<1>4. ASSUME NEW k \in 1..m
      PROVE  w[n + k] = v[k]
  <2>1. n + k \in 1..(n + m) /\ ~(n + k <= n) /\ n + k - n = k
    BY <1>1
  <2> QED
    BY <1>1, <1>2, <2>1
<1> QED
  BY <1>1, <1>2, <1>3, <1>4, Zenon DEF n, m, w

\* The id that message__release_to_inflight() leaves to the i-th message, and
\* the packet that it sends for it
MidOf(s, redeliver, i) ==
    IF i \in TakesMid(s, redeliver)
    THEN MidAfter(s.lastMid, Cardinality({j \in TakesMid(s, redeliver) : j <= i}))
    ELSE s.inflight[i].mid

PacketOf(s, redeliver, i) ==
    LET id == s.inflight[i].id
        mid == MidOf(s, redeliver, i)
    IN  IF s.state[id] = "wait_for_pubcomp" THEN Packet("PUBREL", mid)
        ELSE Publish(id, mid, s.state[id] # "invalid")

\* The ids that message__release_to_inflight() leaves in the list.
LEMMA ReleaseMids ==
  ASSUME NEW s \in Sender, NEW redeliver \in BOOLEAN
  PROVE  LET sends == Sends(s, redeliver)
             new == TakesMid(s, redeliver)
         IN  /\ Len(s.inflight) \in Nat /\ DOMAIN s.inflight = 1..Len(s.inflight)
             /\ new \subseteq sends /\ sends \subseteq DOMAIN s.inflight
             /\ IsFiniteSet(sends) /\ IsFiniteSet(new)
             /\ Cardinality(sends) \in Nat /\ Cardinality(new) \in Nat
             /\ \A i \in DOMAIN s.inflight : s.inflight[i] \in Entry
             /\ \A i \in DOMAIN s.inflight : MidOf(s, redeliver, i) \in 0..MaxMid
             /\ \A i \in sends : /\ MidOf(s, redeliver, i) \in 1..MaxMid
                                 /\ PacketOf(s, redeliver, i) \in OutPacket
<1> DEFINE sends == Sends(s, redeliver)
           new == TakesMid(s, redeliver)
           n == Len(s.inflight)
<1>1. /\ n \in Nat /\ DOMAIN s.inflight = 1..n
      /\ \A i \in 1..n : s.inflight[i] \in Entry
  BY LenProperties DEF Sender
<1>2. new \subseteq sends /\ sends \subseteq 1..n
  BY <1>1 DEF Sends, TakesMid
<1>3. IsFiniteSet(1..n)
  BY <1>1, FS_Interval
<1>4. IsFiniteSet(sends) /\ IsFiniteSet(new)
  BY <1>2, <1>3, FS_Subset
<1>5. Cardinality(sends) \in Nat /\ Cardinality(new) \in Nat
  BY <1>4, FS_CardinalityType
<1>6. ASSUME NEW i \in new
      PROVE  MidOf(s, redeliver, i) \in 1..MaxMid
  <2> DEFINE upto == {j \in new : j <= i}
  <2>1. i \in upto /\ upto \in SUBSET new
    BY <1>2
  <2>2. IsFiniteSet(upto)
    BY <1>4, <2>1, FS_Subset
  <2>3. Cardinality(upto) \in Nat \ {0}
    BY <2>1, <2>2, FS_CardinalityType, FS_EmptySet
  <2>4. MidOf(s, redeliver, i) = MidAfter(s.lastMid, Cardinality(upto))
    BY <1>6 DEF MidOf
  <2> HIDE DEF upto
  <2> QED
    BY <2>3, <2>4, MidTypes DEF Sender
<1>7. \A i \in 1..n : i \notin new => MidOf(s, redeliver, i) = s.inflight[i].mid
  BY DEF MidOf
<1>8. \A i \in sends : i \notin new => /\ s.inflight[i].mid # 0
                                       /\ s.state[s.inflight[i].id] = "wait_for_pubcomp"
  BY DEF TakesMid
<1>9. MaxMid \in Nat \ {0}
  BY MqttAssumption
<1> HIDE DEF sends, new, n
<1>10. \A i \in 1..n : MidOf(s, redeliver, i) \in 0..MaxMid
  BY <1>1, <1>6, <1>7, <1>9 DEF Entry
<1>11. \A i \in sends : MidOf(s, redeliver, i) \in 1..MaxMid
  BY <1>1, <1>2, <1>6, <1>7, <1>8, <1>9 DEF Entry
<1>12. ASSUME NEW i \in sends
       PROVE  PacketOf(s, redeliver, i) \in OutPacket
  <2>1. s.inflight[i].id \in Ids /\ MidOf(s, redeliver, i) \in 1..MaxMid
    BY <1>1, <1>2, <1>11 DEF Entry
  <2> QED
    BY <2>1 DEF PacketOf, OutPacket, Packet, Publish
<1> QED
  BY <1>1, <1>2, <1>4, <1>5, <1>10, <1>11, <1>12 DEF sends, new, n

\* message__release_to_inflight() keeps the list and its order; it appends
\* what it sends, and changes the state of what it sends for the first time.
LEMMA ReleaseDoes ==
  ASSUME conf \in [server : Roles, qos : [Ids -> QosLevels]],
         NEW s \in Sender, NEW redeliver \in BOOLEAN
  PROVE  LET r == Release(s, redeliver)
             sends == Sends(s, redeliver)
             new == TakesMid(s, redeliver)
         IN  /\ r \in Sender
             /\ r.queued = s.queued
             /\ Len(r.inflight) = Len(s.inflight)
             /\ DOMAIN r.inflight = DOMAIN s.inflight
             /\ \A i \in DOMAIN s.inflight :
                  r.inflight[i] = [id |-> s.inflight[i].id,
                                   mid |-> MidOf(s, redeliver, i)]
             /\ r.lastMid = IF new = {} THEN s.lastMid
                            ELSE MidAfter(s.lastMid, Cardinality(new))
             /\ r.packets = s.packets \o [k \in 1..Cardinality(sends) |->
                               PacketOf(s, redeliver, Ordered(sends)[k])]
             /\ \A id \in Ids :
                  r.state[id] = IF /\ \E i \in sends : s.inflight[i].id = id
                                   /\ s.state[id] = "invalid"
                                THEN FirstWait(conf.qos[id]) ELSE s.state[id]
<1> DEFINE sends == Sends(s, redeliver)
           new == TakesMid(s, redeliver)
           n == Len(s.inflight)
           list == [i \in 1..n |-> [id |-> s.inflight[i].id,
                                    mid |-> MidOf(s, redeliver, i)]]
           last == IF new = {} THEN s.lastMid
                   ELSE MidAfter(s.lastMid, Cardinality(new))
           more == [k \in 1..Cardinality(sends) |->
                      PacketOf(s, redeliver, Ordered(sends)[k])]
           states == [id \in Ids |->
                        IF /\ id \in {s.inflight[i].id : i \in sends}
                           /\ s.state[id] = "invalid"
                        THEN FirstWait(conf.qos[id]) ELSE s.state[id]]
           r == Release(s, redeliver)
<1>1. r = [s EXCEPT !.inflight = list, !.lastMid = last,
                    !.packets = s.packets \o more, !.state = states]
  BY ReleaseMids, Zenon DEF Release, MidOf, PacketOf
<1>2. /\ n \in Nat /\ \A i \in 1..n : s.inflight[i] \in Entry
      /\ \A i \in 1..n : MidOf(s, redeliver, i) \in 0..MaxMid
  BY ReleaseMids
<1>3. list \in Seq(Entry) /\ Len(list) = n /\ DOMAIN list = 1..n
  <2>1. list \in [1..n -> Entry]
    BY <1>2 DEF Entry
  <2> HIDE DEF list, n
  <2> QED
    BY <1>2, <2>1, ListOf
<1>4. last \in 0..MaxMid
  <2>1. IsFiniteSet(new) /\ Cardinality(new) \in Nat
    BY ReleaseMids
  <2> HIDE DEF new
  <2>2. new # {} => Cardinality(new) \in Nat \ {0}
    BY <2>1, FS_EmptySet
  <2>3. s.lastMid \in 0..MaxMid
    BY DEF Sender
  <2>4. new # {} => MidAfter(s.lastMid, Cardinality(new)) \in 1..MaxMid
    BY <2>2, <2>3, MidTypes
  <2> QED
    BY <2>3, <2>4
<1>5. s.packets \o more \in Seq(OutPacket)
  <2>1. /\ sends \in SUBSET (1..n) /\ n \in Nat
        /\ IsFiniteSet(sends) /\ Cardinality(sends) \in Nat
    BY ReleaseMids
  <2>3. \A i \in sends : PacketOf(s, redeliver, i) \in OutPacket
    BY ReleaseMids
  <2> HIDE DEF sends
  <2>6. sends \in SUBSET Nat
    BY <2>1
  <2>2. \A k \in 1..Cardinality(sends) : Ordered(sends)[k] \in sends
    BY <2>1, <2>6, OrderedDoes
  <2>4. more \in [1..Cardinality(sends) -> OutPacket]
    BY <2>2, <2>3
  <2> HIDE DEF more
  <2>5. more \in Seq(OutPacket) /\ s.packets \in Seq(OutPacket)
    BY <2>1, <2>4, ListOf DEF Sender
  <2> QED
    BY <2>5, ConcatProperties
<1>6. states \in [Ids -> States]
  BY DEF Sender, States, FirstWait
<1>7. /\ r.inflight = list /\ r.lastMid = last /\ r.packets = s.packets \o more
      /\ r.state = states /\ r.queued = s.queued /\ r \in Sender
  <2> HIDE DEF list, last, more, states, r
  <2> QED
    BY <1>1, <1>3, <1>4, <1>5, <1>6 DEF Sender
<1> HIDE DEF r
<1>8. DOMAIN s.inflight = 1..n
  BY ReleaseMids
<1>9. \A i \in 1..n : list[i] = [id |-> s.inflight[i].id,
                                 mid |-> MidOf(s, redeliver, i)]
  OBVIOUS
<1>10. \A id \in Ids :
         states[id] = IF /\ \E i \in sends : s.inflight[i].id = id
                         /\ s.state[id] = "invalid"
                      THEN FirstWait(conf.qos[id]) ELSE s.state[id]
  OBVIOUS
<1> HIDE DEF list, states
<1>11. r.lastMid = IF new = {} THEN s.lastMid
                   ELSE MidAfter(s.lastMid, Cardinality(new))
  BY <1>7
<1>12. /\ r \in Sender /\ r.queued = s.queued /\ Len(r.inflight) = n
       /\ DOMAIN r.inflight = DOMAIN s.inflight
       /\ \A i \in DOMAIN s.inflight :
            r.inflight[i] = [id |-> s.inflight[i].id, mid |-> MidOf(s, redeliver, i)]
  BY ONLY <1>3, <1>7, <1>8, <1>9
<1>13. \A id \in Ids :
         r.state[id] = IF /\ \E i \in sends : s.inflight[i].id = id
                          /\ s.state[id] = "invalid"
                       THEN FirstWait(conf.qos[id]) ELSE s.state[id]
  BY ONLY <1>7, <1>10
<1>14. r.packets = s.packets \o more
  BY <1>7
<1> QED
  BY ONLY <1>11, <1>12, <1>13, <1>14 DEF r, n, sends, new, more

\* Without the element at a place of it
LEMMA RemoveAtDoes ==
  ASSUME NEW S, NEW q \in Seq(S), NEW i \in 1..Len(q)
  PROVE  /\ RemoveAt(q, i) \in Seq(S)
         /\ Len(RemoveAt(q, i)) = Len(q) - 1
         /\ \A j \in 1..(Len(q) - 1) :
              RemoveAt(q, i)[j] = IF j < i THEN q[j] ELSE q[j + 1]
<1> DEFINE n == Len(q)
           before == SubSeq(q, 1, i - 1)
           after == SubSeq(q, i + 1, n)
<1>1. n \in Nat /\ i \in 1..n /\ \A j \in 1..n : q[j] \in S
  BY LenProperties, ElementOfSeq
<1> HIDE DEF n
<1>2. /\ i - 1 \in Int /\ i + 1 \in Int /\ n \in Int
      /\ \A j \in 1..(i - 1) : q[j] \in S
      /\ \A j \in (i + 1)..n : q[j] \in S
  BY <1>1
<1>3. /\ before \in Seq(S) /\ Len(before) = IF 1 <= i - 1 THEN i - 1 - 1 + 1 ELSE 0
      /\ \A j \in 1..(i - 1 - 1 + 1) : before[j] = q[1 + j - 1]
  BY <1>2, SubSeqProperties
<1>4. /\ after \in Seq(S)
      /\ Len(after) = IF i + 1 <= n THEN n - (i + 1) + 1 ELSE 0
      /\ \A j \in 1..(n - (i + 1) + 1) : after[j] = q[i + 1 + j - 1]
  BY <1>2, SubSeqProperties
<1>5. /\ Len(before) = i - 1 /\ \A j \in 1..(i - 1) : before[j] = q[j]
      /\ Len(after) = n - i /\ \A j \in 1..(n - i) : after[j] = q[i + j]
  BY <1>1, <1>3, <1>4
<1>6. RemoveAt(q, i) = before \o after
  BY DEF RemoveAt, n
<1> HIDE DEF before, after
<1>7. /\ RemoveAt(q, i) \in Seq(S) /\ Len(RemoveAt(q, i)) = Len(before) + Len(after)
      /\ \A j \in 1..(Len(before) + Len(after)) :
           RemoveAt(q, i)[j] = IF j <= Len(before) THEN before[j]
                               ELSE after[j - Len(before)]
  <2>1. before \in Seq(S) /\ after \in Seq(S)
    BY <1>3, <1>4
  <2>2. /\ before \o after \in Seq(S)
        /\ Len(before \o after) = Len(before) + Len(after)
        /\ \A j \in 1..(Len(before) + Len(after)) :
             (before \o after)[j] = IF j <= Len(before) THEN before[j]
                                    ELSE after[j - Len(before)]
    BY <2>1, ConcatProperties, Zenon
  <2> QED
    BY <1>6, <2>2
<1>8. Len(RemoveAt(q, i)) = n - 1
  BY <1>1, <1>5, <1>7
<1>9. ASSUME NEW j \in 1..(n - 1)
      PROVE  RemoveAt(q, i)[j] = IF j < i THEN q[j] ELSE q[j + 1]
  <2>1. RemoveAt(q, i)[j] = IF j <= i - 1 THEN before[j] ELSE after[j - (i - 1)]
    <3>1. j \in 1..((i - 1) + (n - i))
      BY <1>1
    <3> QED
      BY ONLY <1>5, <1>7, <3>1
  <2>2. CASE j < i
    BY <1>1, <1>5, <2>1, <2>2
  <2>3. CASE ~(j < i)
    <3>1. j - (i - 1) \in 1..(n - i) /\ i + (j - (i - 1)) = j + 1
      BY <1>1, <2>3
    <3>2. after[j - (i - 1)] = q[j + 1]
      BY <1>5, <3>1
    <3> QED
      BY <1>1, <2>1, <2>3, <3>2
  <2> QED
    BY <2>2, <2>3
<1> QED
  BY <1>7, <1>8, <1>9 DEF n

\* The first place of some
LEMMA FirstDoes ==
  ASSUME NEW S, NEW list \in Seq(S), NEW P \in SUBSET DOMAIN list, P # {}
  PROVE  First(P) \in P /\ First(P) \in 1..Len(list)
<1>1. DOMAIN list = 1..Len(list) /\ Len(list) \in Nat
  BY LenProperties
<1>2. P \in SUBSET Nat
  BY <1>1
<1>3. \E i \in P : \A j \in P : i <= j
  BY <1>2, MinExists
<1> QED
  BY <1>1, <1>3 DEF First

\* The messages that are queued go inflight in their order, as many as fit.
LEMMA FillDoes ==
  ASSUME NEW s \in Sender
  PROVE  LET f == Fill(s)
             n == Len(s.inflight)
             q == Len(s.queued)
         IN  /\ f \in Sender
             /\ f.state = s.state /\ f.lastMid = s.lastMid /\ f.packets = s.packets
             /\ \E m \in 0..q :
                  /\ Len(f.inflight) = n + m /\ Len(f.queued) = q - m
                  /\ \A i \in 1..n : f.inflight[i] = s.inflight[i]
                  /\ \A i \in 1..m : f.inflight[n + i] = [id |-> s.queued[i], mid |-> 0]
                  /\ \A k \in 1..(q - m) : f.queued[k] = s.queued[m + k]
                  /\ m < q => ~Room(f.inflight)
                  /\ m > 0 /\ MaxInflight > 0 => n + m <= MaxInflight
<1> DEFINE f == Fill(s)
           n == Len(s.inflight)
           q == Len(s.queued)
           places == {i \in DOMAIN s.queued : MaxInflight = 0 \/ n + i <= MaxInflight}
           m == IF MaxInflight = 0 \/ n + q <= MaxInflight THEN q
                ELSE IF n <= MaxInflight THEN MaxInflight - n ELSE 0
           more == [i \in 1..m |-> [id |-> s.queued[i], mid |-> 0]]
           rest == SubSeq(s.queued, m + 1, q)
<1>1. /\ n \in Nat /\ q \in Nat /\ MaxInflight \in Nat /\ MaxMid \in Nat
      /\ DOMAIN s.queued = 1..q /\ \A i \in 1..q : s.queued[i] \in Ids
      /\ s.inflight \in Seq(Entry) /\ s.queued \in Seq(Ids)
  BY MqttAssumption, LenProperties DEF Sender
<1> HIDE DEF n, q
<1>0. n \in Nat /\ q \in Nat /\ MaxInflight \in Nat
  BY <1>1
<1>2. m \in 0..q
  BY <1>0
<1>3. places = 1..m
  BY <1>0, <1>1
<1>4. Cardinality(places) = m
  <2> HIDE DEF m, places
  <2>1. 1 \in Int /\ m \in Int /\ m >= 0
    BY <1>2
  <2>2. Cardinality(1..m) = IF 1 > m THEN 0 ELSE m - 1 + 1
    BY <2>1, FS_Interval
  <2>3. (IF 1 > m THEN 0 ELSE m - 1 + 1) = m
    BY <2>1
  <2> QED
    BY <1>3, <2>2, <2>3
<1>5. m < q => MaxInflight > 0 /\ n + m >= MaxInflight
  BY <1>0
<1>6. m > 0 /\ MaxInflight > 0 => n + m <= MaxInflight
  BY <1>0
<1>7. f = [s EXCEPT !.inflight = @ \o more, !.queued = rest]
  <2> HIDE DEF m
  <2>1. f = [s EXCEPT
               !.inflight = @ \o [i \in 1..Cardinality(places) |->
                                    [id |-> s.queued[i], mid |-> 0]],
               !.queued = SubSeq(@, Cardinality(places) + 1, Len(@))]
    BY DEF Fill, n
  <2> HIDE DEF f, places
  <2> QED
    BY <1>4, <2>1 DEF q
<1> HIDE DEF f, m
<1>8. more \in Seq(Entry) /\ Len(more) = m
  <2>1. more \in [1..m -> Entry]
    BY <1>1, <1>2 DEF Entry
  <2>2. m \in Nat
    BY <1>2
  <2> HIDE DEF more
  <2> QED
    BY <2>1, <2>2, ListOf
<1>9. \A i \in 1..m : more[i] = [id |-> s.queued[i], mid |-> 0]
  OBVIOUS
<1> HIDE DEF more
<1>10. /\ s.inflight \o more \in Seq(Entry)
       /\ Len(s.inflight \o more) = n + m
       /\ \A i \in 1..(n + m) : (s.inflight \o more)[i] =
                                  IF i <= n THEN s.inflight[i] ELSE more[i - n]
  BY <1>1, <1>8, ConcatProperties DEF n
<1>11. /\ rest \in Seq(Ids) /\ Len(rest) = IF m + 1 <= q THEN q - (m + 1) + 1 ELSE 0
       /\ \A k \in 1..(q - (m + 1) + 1) : rest[k] = s.queued[m + 1 + k - 1]
  <2>1. m + 1 \in Int /\ q \in Int /\ \A i \in (m + 1)..q : s.queued[i] \in Ids
    BY <1>1, <1>2
  <2> QED
    BY <2>1, SubSeqProperties
<1>12. Len(rest) = q - m /\ \A k \in 1..(q - m) : rest[k] = s.queued[m + k]
  BY <1>1, <1>2, <1>11
<1> HIDE DEF rest
<1>13. /\ f \in Sender /\ f.inflight = s.inflight \o more /\ f.queued = rest
       /\ f.state = s.state /\ f.lastMid = s.lastMid /\ f.packets = s.packets
  BY <1>7, <1>10, <1>11 DEF Sender
<1>14. /\ \A i \in 1..n : f.inflight[i] = s.inflight[i]
       /\ \A i \in 1..m : f.inflight[n + i] = [id |-> s.queued[i], mid |-> 0]
  <2>1. \A i \in 1..n : (s.inflight \o more)[i] = s.inflight[i]
    BY <1>1, <1>2, <1>10
  <2>2. ASSUME NEW i \in 1..m
        PROVE  (s.inflight \o more)[n + i] = more[i]
    <3>1. n \in Nat /\ m \in Nat /\ i \in Nat /\ 1 <= i /\ i <= m
      BY <1>0, <1>2
    <3>2. n + i \in 1..(n + m) /\ ~(n + i <= n) /\ n + i - n = i
      BY <3>1
    <3> DEFINE cat == s.inflight \o more
    <3>3. \A j \in 1..(n + m) : cat[j] = IF j <= n THEN s.inflight[j] ELSE more[j - n]
      BY <1>10
    <3> HIDE DEF cat
    <3>4. cat[n + i] = more[n + i - n]
      BY <3>1, <3>2, <3>3
    <3> QED
      BY <3>2, <3>4 DEF cat
  <2> QED
    BY <1>9, <1>13, <2>1, <2>2
<1>15. m < q => ~Room(f.inflight)
  BY <1>1, <1>2, <1>5, <1>10, <1>13 DEF Room
<1> QED
  BY <1>2, <1>6, <1>10, <1>12, <1>13, <1>14, <1>15 DEF f, n, q

\* new_msg() puts a message behind those inflight or behind those queued.
LEMMA NewMsgDoes ==
  ASSUME NEW s \in Sender, NEW id \in Ids
  PROVE  LET f == NewMsg(s, id)
             n == Len(s.inflight)
             q == Len(s.queued)
         IN  /\ f \in Sender
             /\ f.state = s.state /\ f.lastMid = s.lastMid /\ f.packets = s.packets
             /\ Room(s.inflight) =>
                  /\ f.queued = s.queued
                  /\ Len(f.inflight) = n + 1
                  /\ \A i \in 1..n : f.inflight[i] = s.inflight[i]
                  /\ f.inflight[n + 1] = [id |-> id, mid |-> 0]
             /\ ~Room(s.inflight) =>
                  /\ f.inflight = s.inflight
                  /\ Len(f.queued) = q + 1
                  /\ \A k \in 1..q : f.queued[k] = s.queued[k]
                  /\ f.queued[q + 1] = id
<1> DEFINE e == [id |-> id, mid |-> 0]
           f == NewMsg(s, id)
<1>1. e \in Entry /\ s.inflight \in Seq(Entry) /\ s.queued \in Seq(Ids)
  BY MqttAssumption DEF Entry, Sender
<1> HIDE DEF e
<1>2. /\ Append(s.inflight, e) \in Seq(Entry)
      /\ Len(Append(s.inflight, e)) = Len(s.inflight) + 1
      /\ \A i \in 1..Len(s.inflight) : Append(s.inflight, e)[i] = s.inflight[i]
      /\ Append(s.inflight, e)[Len(s.inflight) + 1] = e
  BY <1>1, AppendProperties
<1>3. /\ Append(s.queued, id) \in Seq(Ids)
      /\ Len(Append(s.queued, id)) = Len(s.queued) + 1
      /\ \A i \in 1..Len(s.queued) : Append(s.queued, id)[i] = s.queued[i]
      /\ Append(s.queued, id)[Len(s.queued) + 1] = id
  BY <1>1, AppendProperties
<1>4. f = IF Room(s.inflight) THEN [s EXCEPT !.inflight = Append(@, e)]
          ELSE [s EXCEPT !.queued = Append(@, id)]
  BY DEF NewMsg, e
<1> HIDE DEF f
<1>5. CASE Room(s.inflight)
  <2>1. /\ f \in Sender /\ f.inflight = Append(s.inflight, e) /\ f.queued = s.queued
        /\ f.state = s.state /\ f.lastMid = s.lastMid /\ f.packets = s.packets
    BY <1>2, <1>4, <1>5 DEF Sender
  <2> QED
    BY <1>2, <1>5, <2>1 DEF e, f
<1>6. CASE ~Room(s.inflight)
  <2>1. /\ f \in Sender /\ f.inflight = s.inflight /\ f.queued = Append(s.queued, id)
        /\ f.state = s.state /\ f.lastMid = s.lastMid /\ f.packets = s.packets
    BY <1>3, <1>4, <1>6 DEF Sender
  <2> QED
    BY <1>3, <1>6, <2>1 DEF f
<1> QED
  BY <1>5, <1>6

\* handle__pubackcomp() before it looks for more to send
Without(s, mid) ==
    LET i == First(WithMid(s.inflight, mid))
    IN  [s EXCEPT !.inflight = RemoveAt(@, i), !.state[s.inflight[i].id] = "none"]

\* The list without the message that is settled, if there is one.
LEMMA WithoutDoes ==
  ASSUME NEW s \in Sender, NEW mid, WithMid(s.inflight, mid) # {}
  PROVE  LET f == Without(s, mid)
             n == Len(s.inflight)
             x == First(WithMid(s.inflight, mid))
         IN  /\ x \in 1..n /\ s.inflight[x].mid = mid
             /\ f \in Sender
             /\ f.queued = s.queued /\ f.lastMid = s.lastMid /\ f.packets = s.packets
             /\ Len(f.inflight) = n - 1
             /\ \A i \in 1..(n - 1) :
                  f.inflight[i] = IF i < x THEN s.inflight[i] ELSE s.inflight[i + 1]
             /\ f.state = [s.state EXCEPT ![s.inflight[x].id] = "none"]
<1> DEFINE x == First(WithMid(s.inflight, mid))
           f == Without(s, mid)
           n == Len(s.inflight)
<1>1. s.inflight \in Seq(Entry) /\ n \in Nat /\ DOMAIN s.inflight = 1..n
  BY LenProperties DEF Sender
<1>2. x \in WithMid(s.inflight, mid)
  <2>1. WithMid(s.inflight, mid) \in SUBSET DOMAIN s.inflight
    BY DEF WithMid
  <2> QED
    BY <1>1, <2>1, FirstDoes
<1>3. x \in 1..n /\ s.inflight[x].mid = mid
  BY <1>1, <1>2 DEF WithMid
<1>4. s.inflight[x].id \in Ids
  <2> HIDE DEF x
  <2>1. s.inflight[x] \in Entry
    BY <1>1, <1>3, ElementOfSeq
  <2> QED
    BY <2>1 DEF Entry
<1>5. f = [s EXCEPT !.inflight = RemoveAt(@, x), !.state[s.inflight[x].id] = "none"]
  BY DEF Without
<1> HIDE DEF x, f
<1>6. /\ RemoveAt(s.inflight, x) \in Seq(Entry) /\ Len(RemoveAt(s.inflight, x)) = n - 1
      /\ \A j \in 1..(n - 1) : RemoveAt(s.inflight, x)[j] =
                                 IF j < x THEN s.inflight[j] ELSE s.inflight[j + 1]
  BY <1>1, <1>3, RemoveAtDoes
<1>7. [s.state EXCEPT ![s.inflight[x].id] = "none"] \in [Ids -> States]
  BY DEF Sender, States
<1>8. /\ f \in Sender /\ f.inflight = RemoveAt(s.inflight, x)
      /\ f.state = [s.state EXCEPT ![s.inflight[x].id] = "none"]
      /\ f.queued = s.queued /\ f.lastMid = s.lastMid /\ f.packets = s.packets
  BY <1>5, <1>6, <1>7 DEF Sender
<1> QED
  BY <1>3, <1>6, <1>8 DEF x, f

\* handle__pubackcomp() step by step.
LEMMA SettleIs ==
  ASSUME NEW s, NEW mid
  PROVE  Settle(s, mid) =
           Release(Refill(IF WithMid(s.inflight, mid) = {} THEN s ELSE Without(s, mid)),
                   FALSE)
BY DEF Settle, Without

\* handle__pubrec() notes it on the message, and answers with PUBREL.
LEMMA ReceivedDoes ==
  ASSUME NEW s \in Sender, NEW mid \in 1..MaxMid
  PROVE  LET f == Received(s, mid)
             found == WithMid(s.inflight, mid)
             id == s.inflight[First(found)].id
             c == Len(s.packets)
         IN  /\ f \in Sender
             /\ f.inflight = s.inflight /\ f.queued = s.queued /\ f.lastMid = s.lastMid
             /\ f.packets = Append(s.packets, Packet("PUBREL", mid))
             /\ f.state = IF found = {} THEN s.state
                          ELSE [s.state EXCEPT ![id] = "wait_for_pubcomp"]
<1> DEFINE found == WithMid(s.inflight, mid)
           id == s.inflight[First(found)].id
           f == Received(s, mid)
           p == Packet("PUBREL", mid)
           to == IF found = {} THEN s.state
                 ELSE [s.state EXCEPT ![id] = "wait_for_pubcomp"]
<1>1. s.packets \in Seq(OutPacket) /\ p \in OutPacket
  BY DEF Sender, Packet, OutPacket
<1>2. Append(s.packets, p) \in Seq(OutPacket)
  BY <1>1, AppendProperties
<1>3. to \in [Ids -> States]
  BY DEF Sender, States
<1>4. f = [s EXCEPT !.packets = Append(@, p), !.state = to]
  <2>1. CASE found = {}
    BY <2>1 DEF Received, Sender
  <2>2. CASE found # {}
    BY <2>2 DEF Received, Sender
  <2> QED
    BY <2>1, <2>2
<1> HIDE DEF to, p, f
<1>5. /\ f \in Sender /\ f.inflight = s.inflight /\ f.queued = s.queued
      /\ f.lastMid = s.lastMid /\ f.packets = Append(s.packets, p) /\ f.state = to
  BY <1>2, <1>3, <1>4 DEF Sender
<1> QED
  BY <1>5 DEF to, p, f

\* The rows of a session that are not settled, as tr2q_load() finds them
Pending(s) == {id \in Ids : s.state[id] # "none"}

\* There are finitely many pending rows.
LEMMA PendingFacts ==
  ASSUME NEW s
  PROVE  /\ Pending(s) \in SUBSET Nat /\ IsFiniteSet(Pending(s))
         /\ Cardinality(Pending(s)) \in Nat
<1>1. MaxMsgs \in Nat
  BY MqttAssumption
<1>2. Pending(s) \subseteq 1..MaxMsgs /\ 1 \in Int /\ MaxMsgs \in Int
  BY <1>1 DEF Pending, Ids
<1>3. IsFiniteSet(1..MaxMsgs)
  BY <1>2, FS_Interval
<1>4. IsFiniteSet(Pending(s))
  BY <1>2, <1>3, FS_Subset
<1>5. Cardinality(Pending(s)) \in Nat
  BY <1>4, FS_CardinalityType
<1> QED
  BY <1>1, <1>2, <1>4, <1>5

\* tr2q_load() makes one list of the pending rows, inflight then queued.
LEMMA LoadDoes ==
  ASSUME NEW s \in Sender
  PROVE  LET f == Load(s)
             rows == Ordered(Pending(s))
             q == Cardinality(Pending(s))
         IN  /\ f \in Sender
             /\ f.state = s.state /\ f.lastMid = s.lastMid /\ f.packets = s.packets
             /\ \E m \in 0..q :
                  /\ Len(f.inflight) = m /\ Len(f.queued) = q - m
                  /\ \A i \in 1..m : f.inflight[i] = [id |-> rows[i], mid |-> 0]
                  /\ \A k \in 1..(q - m) : f.queued[k] = rows[m + k]
                  /\ m < q => ~Room(f.inflight)
                  /\ m > 0 /\ MaxInflight > 0 => m <= MaxInflight
<1> DEFINE P == Pending(s)
           rows == Ordered(P)
           q == Cardinality(P)
           b == [s EXCEPT !.inflight = <<>>, !.queued = rows]
           f == Load(s)
<1>1. P \in SUBSET Nat /\ IsFiniteSet(P) /\ q \in Nat
  BY PendingFacts
<1>2. P \subseteq Ids
  BY DEF Pending
<1>3. f = Fill(b)
  BY DEF Load, Pending
<1> HIDE DEF P, f
<1>4. rows \in [1..q -> P]
  BY <1>1, OrderedDoes
<1> HIDE DEF rows, q
<1>5. rows \in [1..q -> Ids]
  BY <1>2, <1>4
<1>6. rows \in Seq(Ids) /\ Len(rows) = q
  BY <1>1, <1>5, ListOf
<1>7. /\ b \in Sender /\ b.inflight = <<>> /\ b.queued = rows
      /\ b.state = s.state /\ b.lastMid = s.lastMid /\ b.packets = s.packets
  <2>1. <<>> \in Seq(Entry)
    BY EmptySeq
  <2> QED
    BY <1>6, <2>1 DEF Sender
<1> HIDE DEF b
<1>8. Len(b.inflight) = 0 /\ Len(b.queued) = q
  BY <1>6, <1>7
<1>9. /\ f \in Sender
      /\ f.state = s.state /\ f.lastMid = s.lastMid /\ f.packets = s.packets
  BY <1>3, <1>7, FillDoes
<1>10. PICK m \in 0..Len(b.queued) :
         /\ Len(f.inflight) = Len(b.inflight) + m /\ Len(f.queued) = Len(b.queued) - m
         /\ \A i \in 1..m : f.inflight[Len(b.inflight) + i] =
                              [id |-> b.queued[i], mid |-> 0]
         /\ \A k \in 1..(Len(b.queued) - m) : f.queued[k] = b.queued[m + k]
         /\ m < Len(b.queued) => ~Room(f.inflight)
         /\ m > 0 /\ MaxInflight > 0 => Len(b.inflight) + m <= MaxInflight
  BY <1>3, <1>7, FillDoes
<1>11. /\ m \in 0..q /\ m \in Nat
       /\ Len(f.inflight) = m /\ Len(f.queued) = q - m
       /\ \A i \in 1..m : f.inflight[i] = [id |-> rows[i], mid |-> 0]
       /\ \A k \in 1..(q - m) : f.queued[k] = rows[m + k]
       /\ m < q => ~Room(f.inflight)
       /\ m > 0 /\ MaxInflight > 0 => m <= MaxInflight
  <2>1. m \in 0..q /\ m \in Nat
    BY <1>1, <1>8, <1>10
  <2>2. Len(f.inflight) = m /\ Len(f.queued) = q - m
    BY <1>8, <1>10, <2>1
  <2>3. \A i \in 1..m : Len(b.inflight) + i = i
    BY <1>8, <2>1
  <2>4. \A i \in 1..m : f.inflight[i] = [id |-> rows[i], mid |-> 0]
    BY <1>7, <1>10, <2>3
  <2>5. \A k \in 1..(q - m) : f.queued[k] = rows[m + k]
    BY <1>7, <1>8, <1>10
  <2>6. /\ m < q => ~Room(f.inflight)
        /\ m > 0 /\ MaxInflight > 0 => m <= MaxInflight
    BY <1>8, <1>10, <2>1
  <2> QED
    BY <2>1, <2>2, <2>4, <2>5, <2>6
<1> QED
  BY <1>9, <1>11 DEF P, rows, q, f

ConfType == conf \in [server : Roles, qos : [Ids -> QosLevels]]

\* message__queue() keeps the types and the limit.
LEMMA EnqueueTypes ==
  ASSUME ConfType, NEW s \in Sender, Limited(s.inflight), NEW id \in Ids
  PROVE  Enqueue(s, id) \in Sender /\ Limited(Enqueue(s, id).inflight)
<1> DEFINE b == [s EXCEPT !.state[id] = "invalid"]
           f == NewMsg(b, id)
<1>1. b \in Sender /\ b.inflight = s.inflight
  BY DEF Sender, States
<1>2. Len(s.inflight) \in Nat /\ MaxInflight \in Nat
  BY MqttAssumption, LenProperties DEF Sender
<1> HIDE DEF b
<1>3. /\ f \in Sender
      /\ Room(b.inflight) => Len(f.inflight) = Len(b.inflight) + 1
      /\ ~Room(b.inflight) => f.inflight = b.inflight
  BY <1>1, NewMsgDoes
<1>4. Limited(f.inflight)
  BY <1>1, <1>2, <1>3 DEF Room, Limited
<1>5. Enqueue(s, id) = Release(f, FALSE)
  BY DEF Enqueue, b, f
<1> HIDE DEF f
<1>6. /\ Release(f, FALSE) \in Sender
      /\ Len(Release(f, FALSE).inflight) = Len(f.inflight)
  BY <1>3, ReleaseDoes DEF ConfType
<1> QED
  BY <1>4, <1>5, <1>6 DEF Limited

\* So does db__message_dequeue_first().
LEMMA RefillTypes ==
  ASSUME NEW s \in Sender, Limited(s.inflight)
  PROVE  Refill(s) \in Sender /\ Limited(Refill(s).inflight)
<1>1. CASE ~conf.server
  BY <1>1 DEF Refill
<1>2. CASE conf.server
  <2> DEFINE f == Fill(s)
  <2>1. f \in Sender
    BY FillDoes
  <2>2. PICK m \in 0..Len(s.queued) :
          /\ Len(f.inflight) = Len(s.inflight) + m
          /\ m > 0 /\ MaxInflight > 0 => Len(s.inflight) + m <= MaxInflight
    BY FillDoes
  <2>3. Len(s.inflight) \in Nat /\ Len(s.queued) \in Nat /\ MaxInflight \in Nat
    BY MqttAssumption, LenProperties DEF Sender
  <2>4. m \in Nat
    BY <2>3
  <2> HIDE DEF f
  <2>5. Limited(f.inflight)
    BY <2>2, <2>3, <2>4 DEF Limited
  <2> QED
    BY <1>2, <2>1, <2>5 DEF Refill, f
<1> QED
  BY <1>1, <1>2

\* So does handle__pubackcomp().
LEMMA SettleTypes ==
  ASSUME ConfType, NEW s \in Sender, Limited(s.inflight), NEW mid
  PROVE  Settle(s, mid) \in Sender /\ Limited(Settle(s, mid).inflight)
<1> DEFINE b == IF WithMid(s.inflight, mid) = {} THEN s ELSE Without(s, mid)
           f == Refill(b)
<1>1. b \in Sender /\ Limited(b.inflight)
  <2>1. Len(s.inflight) \in Nat /\ MaxInflight \in Nat
    BY MqttAssumption, LenProperties DEF Sender
  <2>2. CASE WithMid(s.inflight, mid) = {}
    BY <2>2
  <2>3. CASE WithMid(s.inflight, mid) # {}
    <3>1. /\ Without(s, mid) \in Sender
          /\ Len(Without(s, mid).inflight) = Len(s.inflight) - 1
      BY <2>3, WithoutDoes
    <3> QED
      BY <2>1, <2>3, <3>1 DEF Limited
  <2> QED
    BY <2>2, <2>3
<1> HIDE DEF b
<1>2. f \in Sender /\ Limited(f.inflight)
  BY <1>1, RefillTypes
<1>3. Settle(s, mid) = Release(f, FALSE)
  BY SettleIs DEF b, f
<1> HIDE DEF f
<1>4. /\ Release(f, FALSE) \in Sender
      /\ Len(Release(f, FALSE).inflight) = Len(f.inflight)
  BY <1>2, ReleaseDoes DEF ConfType
<1> QED
  BY <1>2, <1>3, <1>4 DEF Limited

\* So does a connection that loads the rows and sends again.
LEMMA ConnectTypes ==
  ASSUME ConfType, NEW s \in Sender
  PROVE  /\ Release(Load(s), TRUE) \in Sender
         /\ Limited(Release(Load(s), TRUE).inflight)
<1> DEFINE f == Load(s)
<1>1. f \in Sender
  BY LoadDoes
<1>2. \E m \in 0..Cardinality(Pending(s)) :
        /\ Len(f.inflight) = m
        /\ m > 0 /\ MaxInflight > 0 => m <= MaxInflight
  BY LoadDoes
<1>3. MaxInflight \in Nat /\ Cardinality(Pending(s)) \in Nat
  BY MqttAssumption, PendingFacts
<1> HIDE DEF f
<1>4. Limited(f.inflight)
  BY <1>2, <1>3 DEF Limited
<1>5. /\ Release(f, TRUE) \in Sender
      /\ Len(Release(f, TRUE).inflight) = Len(f.inflight)
  BY <1>1, ReleaseDoes DEF ConfType
<1> QED
  BY <1>4, <1>5 DEF Limited, f

\* The rows that the receiver holds are rows that it appended.
RowsKnown(r) == \A k \in DOMAIN r.held : r.held[k].row <= r.rows

\* An answer changes only the packets on their way.
LEMMA AnswerTypes ==
  ASSUME NEW r \in Receiver, NEW mid \in 1..MaxMid,
         NEW type \in {"PUBACK", "PUBREC", "PUBCOMP"}
  PROVE  LET a == Answer(r, type, mid)
         IN  /\ a \in Receiver
             /\ a.held = r.held /\ a.rows = r.rows /\ a.delivered = r.delivered
             /\ a.packets = Append(r.packets, Packet(type, mid))
<1>1. Packet(type, mid) \in AnswerPacket /\ r.packets \in Seq(AnswerPacket)
  BY DEF Packet, AnswerPacket, Receiver
<1>2. Append(r.packets, Packet(type, mid)) \in Seq(AnswerPacket)
  BY <1>1, AppendProperties
<1> QED
  BY <1>2 DEF Answer, Receiver

\* The receiver drops a row that it holds.
LEMMA UnheldTypes ==
  ASSUME NEW r \in Receiver, RowsKnown(r), Limited(r.held),
         NEW places \in SUBSET DOMAIN r.held, places # {}
  PROVE  LET u == [r EXCEPT !.held = RemoveAt(@, First(places))]
         IN  /\ u \in Receiver /\ RowsKnown(u) /\ Limited(u.held)
             /\ u.rows = r.rows /\ u.delivered = r.delivered /\ u.packets = r.packets
<1> DEFINE x == First(places)
           n == Len(r.held)
           u == [r EXCEPT !.held = RemoveAt(@, x)]
<1>1. /\ r.held \in Seq(Held) /\ n \in Nat /\ DOMAIN r.held = 1..n /\ MaxInflight \in Nat
      /\ r.rows \in Nat /\ \A k \in 1..n : r.held[k] \in Held
  BY MqttAssumption, LenProperties, ElementOfSeq DEF Receiver
<1>2. x \in 1..n
  BY <1>1, FirstDoes
<1> HIDE DEF x
<1>3. /\ RemoveAt(r.held, x) \in Seq(Held)
      /\ Len(RemoveAt(r.held, x)) = n - 1
      /\ \A j \in 1..(n - 1) : RemoveAt(r.held, x)[j] =
                                 IF j < x THEN r.held[j] ELSE r.held[j + 1]
  BY <1>1, <1>2, RemoveAtDoes
<1>4. /\ u \in Receiver /\ u.held = RemoveAt(r.held, x)
      /\ u.rows = r.rows /\ u.delivered = r.delivered /\ u.packets = r.packets
  BY <1>3 DEF Receiver
<1> HIDE DEF u, n
<1>5. Limited(u.held)
  BY <1>1, <1>3, <1>4 DEF Limited, n
<1>6. DOMAIN u.held = 1..(n - 1)
  BY <1>3, <1>4, LenProperties
<1>7. RowsKnown(u)
  <2>1. \A j \in 1..(n - 1) : j \in 1..n /\ j + 1 \in 1..n
    BY <1>1
  <2> QED
    BY <1>1, <1>3, <1>4, <1>6, <2>1 DEF RowsKnown
<1> QED
  BY <1>4, <1>5, <1>7 DEF u, x

\* The receiver appends a row, if it has room.
LEMMA HeldTypes ==
  ASSUME NEW r \in Receiver, RowsKnown(r), Room(r.held),
         NEW id \in Ids, NEW mid \in 1..MaxMid
  PROVE  LET h == [r EXCEPT !.rows = @ + 1,
                            !.held = Append(@, [id |-> id, mid |-> mid,
                                                row |-> r.rows + 1])]
         IN  h \in Receiver /\ RowsKnown(h) /\ Limited(h.held) /\ h.packets = r.packets
<1> DEFINE e == [id |-> id, mid |-> mid, row |-> r.rows + 1]
           h == [r EXCEPT !.rows = @ + 1, !.held = Append(@, e)]
<1>1. /\ r.held \in Seq(Held) /\ Len(r.held) \in Nat /\ MaxInflight \in Nat
      /\ r.rows \in Nat /\ DOMAIN r.held = 1..Len(r.held)
      /\ \A k \in 1..Len(r.held) : r.held[k] \in Held
  BY MqttAssumption, LenProperties, ElementOfSeq DEF Receiver
<1>2. e \in Held /\ e.row = r.rows + 1
  BY <1>1 DEF Held
<1> HIDE DEF e
<1>3. /\ Append(r.held, e) \in Seq(Held)
      /\ Len(Append(r.held, e)) = Len(r.held) + 1
      /\ \A i \in 1..Len(r.held) : Append(r.held, e)[i] = r.held[i]
      /\ Append(r.held, e)[Len(r.held) + 1] = e
  BY <1>1, <1>2, AppendProperties
<1>4. /\ h \in Receiver /\ h.held = Append(r.held, e) /\ h.rows = r.rows + 1
      /\ h.packets = r.packets
  <2>1. r.rows + 1 \in Nat /\ Append(r.held, e) \in Seq(Held)
    BY <1>1, <1>3
  <2> QED
    BY <2>1 DEF Receiver
<1> HIDE DEF h
<1>5. Limited(h.held)
  BY <1>1, <1>3, <1>4 DEF Limited, Room
<1>6. DOMAIN h.held = 1..(Len(r.held) + 1)
  BY <1>3, <1>4, LenProperties
<1>7. RowsKnown(h)
  <2>1. \A k \in 1..Len(r.held) : r.held[k].row <= r.rows + 1
    <3>1. \A k \in 1..Len(r.held) : r.held[k].row \in Nat /\ r.held[k].row <= r.rows
      BY <1>1 DEF RowsKnown, Held
    <3> QED
      BY <1>1, <3>1
  <2>2. \A k \in 1..(Len(r.held) + 1) : k \in 1..Len(r.held) \/ k = Len(r.held) + 1
    BY <1>1
  <2> QED
    BY <1>1, <1>2, <1>3, <1>4, <1>6, <2>1, <2>2 DEF RowsKnown
<1> QED
  BY <1>4, <1>5, <1>7 DEF h, e

TypeInd ==
  /\ ConfType
  /\ accepted \in 0..MaxMsgs
  /\ out \in Sender /\ Limited(out.inflight)
  /\ in \in Receiver /\ RowsKnown(in) /\ Limited(in.held)
  /\ savedMid \in 0..MaxMid
  /\ cleanStart \in BOOLEAN
  /\ link \in Links
  /\ faults \in 0..MaxFaults

\* What the receiver reads in a packet.
LEMMA PublishPacket ==
  ASSUME NEW p \in OutPacket
  PROVE  /\ p.mid \in 1..MaxMid
         /\ p.type = "PUBLISH" => p.id \in Ids /\ p.dup \in BOOLEAN
         /\ p.type \in {"PUBLISH", "PUBREL"}
BY DEF OutPacket

\* db__message_remove_incoming_dup() drops one row at most.
LEMMA WithoutDupTypes ==
  ASSUME NEW r \in Receiver, RowsKnown(r), Limited(r.held), NEW p
  PROVE  LET u == WithoutDup(r, p)
         IN  u \in Receiver /\ RowsKnown(u) /\ Limited(u.held) /\ u.packets = r.packets
<1> DEFINE old == IF p.dup THEN Replaced(r, p.mid) ELSE {}
<1>1. old \in SUBSET DOMAIN r.held
  BY DEF Replaced, WithMid
<1>2. WithoutDup(r, p) = IF old = {} THEN r
                         ELSE [r EXCEPT !.held = RemoveAt(@, First(old))]
  BY DEF WithoutDup
<1> HIDE DEF old
<1>3. CASE old = {}
  BY <1>2, <1>3
<1>4. CASE old # {}
  BY <1>1, <1>2, <1>4, UnheldTypes
<1> QED
  BY <1>3, <1>4

\* What is passed on changes no row and no packet.
LEMMA DeliverTypes ==
  ASSUME NEW r \in Receiver, NEW id \in Ids
  PROVE  LET d == Deliver(r, id)
         IN  /\ d \in Receiver /\ d.held = r.held /\ d.rows = r.rows
             /\ d.packets = r.packets
<1> DEFINE count == [r.delivered EXCEPT ![id] = @ + 1]
<1>1. r.delivered \in [Ids -> Nat]
  BY DEF Receiver
<1>2. r.delivered[id] + 1 \in Nat
  BY <1>1
<1>3. count \in [Ids -> Nat]
  BY <1>1, <1>2
<1>4. Deliver(r, id) = [r EXCEPT !.delivered = count]
  BY DEF Deliver
<1> HIDE DEF count
<1> QED
  BY <1>3, <1>4 DEF Receiver

\* handle__publish_s() and handle__publish_c() keep the types and the limit.
LEMMA PublishTypes ==
  ASSUME ConfType, in \in Receiver, RowsKnown(in), Limited(in.held), link \in Links,
         NEW p \in OutPacket, p.type = "PUBLISH", HandlePublish(p)
  PROVE  in' \in Receiver /\ RowsKnown(in)' /\ Limited(in'.held) /\ link' \in Links
<1> DEFINE s == WithoutDup(in, p)
           h == [s EXCEPT !.rows = @ + 1,
                          !.held = Append(@, [id |-> p.id, mid |-> p.mid,
                                              row |-> s.rows + 1])]
<1>1. p.mid \in 1..MaxMid /\ p.id \in Ids
  BY PublishPacket
<1>2. s \in Receiver /\ RowsKnown(s) /\ Limited(s.held)
  BY WithoutDupTypes
<1> HIDE DEF s
<1>3. ASSUME in' = Answer(Deliver(in, p.id), "PUBACK", p.mid), UNCHANGED link
      PROVE  in' \in Receiver /\ RowsKnown(in)' /\ Limited(in'.held) /\ link' \in Links
  <2> DEFINE d == Deliver(in, p.id)
  <2>1. d \in Receiver /\ d.held = in.held /\ d.rows = in.rows
    BY <1>1, DeliverTypes
  <2> HIDE DEF d
  <2>2. in' \in Receiver /\ in'.held = in.held /\ in'.rows = in.rows
    BY <1>1, <1>3, <2>1, AnswerTypes DEF d
  <2> QED
    BY <1>3, <2>2 DEF RowsKnown
<1>4. ASSUME Room(s.held), in' = Answer(h, "PUBREC", p.mid), UNCHANGED link
      PROVE  in' \in Receiver /\ RowsKnown(in)' /\ Limited(in'.held) /\ link' \in Links
  <2>1. h \in Receiver /\ RowsKnown(h) /\ Limited(h.held)
    BY <1>1, <1>2, <1>4, HeldTypes
  <2> HIDE DEF h
  <2>2. in' \in Receiver /\ in'.held = h.held /\ in'.rows = h.rows
    BY <1>1, <1>4, <2>1, AnswerTypes
  <2> QED
    BY <1>4, <2>1, <2>2 DEF RowsKnown
<1>5. ASSUME in' = s, link' = IF link = "open" THEN "receiverCloses" ELSE link
      PROVE  in' \in Receiver /\ RowsKnown(in)' /\ Limited(in'.held) /\ link' \in Links
  BY <1>2, <1>5 DEF RowsKnown, Links
<1> QED
  BY <1>3, <1>4, <1>5 DEF HandlePublish, s

\* So does handle__pubrel().
LEMMA PubrelTypes ==
  ASSUME in \in Receiver, RowsKnown(in), Limited(in.held), link \in Links,
         NEW p \in OutPacket, HandlePubrel(p)
  PROVE  in' \in Receiver /\ RowsKnown(in)' /\ Limited(in'.held) /\ link' \in Links
<1> DEFINE found == WithMid(in.held, p.mid)
           u == [in EXCEPT !.held = RemoveAt(@, First(found))]
           d == Deliver(u, in.held[First(found)].id)
           r == IF found = {} THEN in ELSE d
<1>1. found \in SUBSET DOMAIN in.held /\ p.mid \in 1..MaxMid
  BY PublishPacket DEF WithMid
<1>2. in' = Answer(r, "PUBCOMP", p.mid) /\ UNCHANGED link
  BY DEF HandlePubrel
<1> HIDE DEF found
<1>3. r \in Receiver /\ RowsKnown(r) /\ Limited(r.held)
  <2>1. CASE found = {}
    BY <2>1
  <2>2. CASE found # {}
    <3>1. u \in Receiver /\ RowsKnown(u) /\ Limited(u.held)
      BY <1>1, <2>2, UnheldTypes
    <3> HIDE DEF u
    <3>2. First(found) \in 1..Len(in.held)
      BY <1>1, <2>2, FirstDoes DEF Receiver
    <3>3. in.held[First(found)].id \in Ids
      <4>1. in.held[First(found)] \in Held
        BY <3>2, ElementOfSeq DEF Receiver
      <4> QED
        BY <4>1 DEF Held
    <3>4. d \in Receiver /\ d.held = u.held /\ d.rows = u.rows
      BY <3>1, <3>3, DeliverTypes
    <3> HIDE DEF d
    <3> QED
      BY <2>2, <3>1, <3>4 DEF RowsKnown
  <2> QED
    BY <2>1, <2>2
<1> HIDE DEF r
<1>4. in' \in Receiver /\ in'.held = r.held /\ in'.rows = r.rows
  BY <1>1, <1>2, <1>3, AnswerTypes
<1> QED
  BY <1>2, <1>3, <1>4 DEF RowsKnown

\* close_queues() forgets lists and packets, and keeps the rows.
LEMMA ForgottenTypes ==
  ASSUME NEW s \in Sender
  PROVE  LET f == Forgotten(s)
         IN  /\ f \in Sender /\ Limited(f.inflight)
             /\ f.inflight = <<>> /\ f.queued = <<>> /\ f.packets = <<>>
             /\ f.state = s.state /\ f.lastMid = s.lastMid
<1>1. <<>> \in Seq(Entry) /\ <<>> \in Seq(Ids) /\ <<>> \in Seq(OutPacket)
  BY EmptySeq
<1>2. Limited(<<>>)
  BY MqttAssumption DEF Limited
<1> QED
  BY <1>1, <1>2 DEF Forgotten, Sender

\* The type invariant holds before the first connection,
LEMMA TypeStarts == Init => TypeInd
<1> SUFFICES ASSUME Init PROVE TypeInd
  OBVIOUS
<1>1. /\ <<>> \in Seq(Entry) /\ <<>> \in Seq(Ids) /\ <<>> \in Seq(OutPacket)
      /\ <<>> \in Seq(Held) /\ <<>> \in Seq(AnswerPacket)
  BY EmptySeq
<1>2. MaxMsgs \in Nat /\ MaxFaults \in Nat /\ MaxMid \in Nat /\ MaxInflight \in Nat
  BY MqttAssumption
<1>3. out \in Sender /\ Limited(out.inflight)
  BY <1>1, <1>2 DEF Init, Sender, States, Limited
<1>4. in \in Receiver /\ RowsKnown(in) /\ Limited(in.held)
  BY <1>1, <1>2 DEF Init, Receiver, RowsKnown, Limited
<1>5. cleanStart \in BOOLEAN
  BY MqttAssumption DEF Init
<1> QED
  BY <1>2, <1>3, <1>4, <1>5 DEF Init, TypeInd, ConfType, Links

\* every step keeps it,
LEMMA TypeStep == TypeInd /\ [Next]_vars => TypeInd'
<1> SUFFICES ASSUME TypeInd, [Next]_vars PROVE TypeInd'
  OBVIOUS
<1>0. /\ MaxMsgs \in Nat /\ MaxFaults \in Nat /\ MaxMid \in Nat
      /\ accepted \in 0..MaxMsgs
      /\ out \in Sender /\ Limited(out.inflight)
      /\ in \in Receiver /\ RowsKnown(in) /\ Limited(in.held)
      /\ ConfType /\ link \in Links
  BY MqttAssumption DEF TypeInd
<1> DEFINE InOK == in' \in Receiver /\ RowsKnown(in)' /\ Limited(in'.held)
           OutOK == out' \in Sender /\ Limited(out'.inflight)
<1>1. ASSUME UNCHANGED in
      PROVE  InOK
  BY <1>0, <1>1 DEF RowsKnown
<1>2. ASSUME UNCHANGED out
      PROVE  OutOK
  BY <1>0, <1>2
<1>3. ASSUME Fault
      PROVE  faults' \in 0..MaxFaults
  BY <1>0, <1>3 DEF Fault, TypeInd
<1> HIDE DEF InOK, OutOK
<1>a. CASE Accept
  <2>1. accepted + 1 \in Ids /\ accepted' \in 0..MaxMsgs
    BY <1>0, <1>a DEF Accept, Ids
  <2>2. OutOK
    <3>1. CASE SendMessage
      BY <1>0, <2>1, <3>1, EnqueueTypes DEF SendMessage, OutOK
    <3>2. CASE StoreMessage
      BY <1>0, <2>1, <3>2 DEF StoreMessage, OutOK, Sender, States
    <3>3. CASE RouteToClosing
      BY <1>2, <3>3 DEF RouteToClosing
    <3> QED
      BY <1>a, <3>1, <3>2, <3>3 DEF Accept
  <2> QED
    BY <1>1, <1>a, <2>1, <2>2 DEF Accept, TypeInd, ConfType, InOK, OutOK
<1>b. CASE ReceiverReads
  <2> DEFINE p == Head(out.packets)
  <2>1. out.packets \in Seq(OutPacket) /\ out.packets # <<>>
    BY <1>0, <1>b DEF ReceiverReads, Sender
  <2>2. p \in OutPacket /\ Tail(out.packets) \in Seq(OutPacket)
    BY <2>1, HeadTailProperties
  <2>3. OutOK
    BY <1>0, <1>b, <2>2 DEF ReceiverReads, Sender, OutOK
  <2>4. IF p.type = "PUBLISH" THEN HandlePublish(p) ELSE HandlePubrel(p)
    BY <1>b DEF ReceiverReads
  <2> HIDE DEF p
  <2>5. InOK /\ link' \in Links
    BY <1>0, <2>2, <2>4, PublishTypes, PubrelTypes DEF InOK
  <2> QED
    BY <1>b, <2>3, <2>5 DEF ReceiverReads, TypeInd, ConfType, InOK, OutOK
<1>c. CASE SenderReads
  <2> DEFINE a == Head(in.packets)
  <2>1. in.packets \in Seq(AnswerPacket) /\ in.packets # <<>>
    BY <1>0, <1>c DEF SenderReads, Receiver
  <2>2. a \in AnswerPacket /\ Tail(in.packets) \in Seq(AnswerPacket)
    BY <2>1, HeadTailProperties
  <2>3. in' \in Receiver /\ in'.held = in.held /\ in'.rows = in.rows
    BY <1>0, <1>c, <2>2 DEF SenderReads, Receiver
  <2>4. InOK
    BY <1>0, <2>3 DEF InOK, RowsKnown
  <2>5. out' = IF a.type = "PUBREC" THEN Received(out, a.mid) ELSE Settle(out, a.mid)
    BY <1>c DEF SenderReads
  <2> HIDE DEF a
  <2>6. a.mid \in 1..MaxMid
    BY <2>2 DEF AnswerPacket
  <2>7. Received(out, a.mid) \in Sender
        /\ Received(out, a.mid).inflight = out.inflight
    BY <1>0, <2>6, ReceivedDoes
  <2>8. Settle(out, a.mid) \in Sender /\ Limited(Settle(out, a.mid).inflight)
    BY <1>0, SettleTypes
  <2>9. OutOK
    BY <1>0, <2>5, <2>7, <2>8 DEF OutOK
  <2> QED
    BY <1>c, <2>4, <2>9 DEF SenderReads, TypeInd, ConfType, InOK, OutOK
<1>d. CASE Connect
  <2> DEFINE s == [out EXCEPT !.lastMid = IF conf.server THEN savedMid ELSE 0]
  <2>1. s \in Sender
    <3>1. (IF conf.server THEN savedMid ELSE 0) \in 0..MaxMid
      BY <1>0 DEF TypeInd
    <3> QED
      BY <1>0, <3>1 DEF Sender
  <2>2. out' = Release(Load(s), TRUE)
    BY <1>d DEF Connect
  <2> HIDE DEF s
  <2>3. OutOK
    BY <1>0, <2>1, <2>2, ConnectTypes DEF OutOK
  <2> QED
    BY <1>1, <1>d, <2>3 DEF Connect, TypeInd, ConfType, Links, InOK, OutOK
<1>e. CASE Close
  BY <1>1, <1>2, <1>3, <1>e DEF Close, TypeInd, ConfType, Links, InOK, OutOK
<1>f. CASE Disconnect
  <2> DEFINE o == Forgotten(out)
             i == [in EXCEPT !.packets = <<>>]
  <2>1. o \in Sender /\ Limited(o.inflight) /\ o.inflight = <<>>
    BY <1>0, ForgottenTypes
  <2>2. <<>> \in Seq(AnswerPacket) /\ <<>> \in Seq(Held)
    BY EmptySeq
  <2>3. i \in Receiver /\ i.held = in.held /\ i.rows = in.rows
    BY <1>0, <2>2 DEF Receiver
  <2>4. /\ out' = IF cleanStart /\ conf.server THEN OutDeleted(o) ELSE o
        /\ in' = IF cleanStart /\ ~conf.server THEN InDeleted(i) ELSE i
        /\ savedMid' = out.lastMid /\ cleanStart' = FALSE /\ link' = "closed"
        /\ faults' = faults \/ Fault
        /\ UNCHANGED <<conf, accepted>>
    BY <1>f DEF Disconnect
  <2> HIDE DEF o, i
  <2>5. OutDeleted(o) \in Sender /\ OutDeleted(o).inflight = <<>>
    BY <2>1 DEF OutDeleted, Sender, States
  <2>6. OutOK
    BY <2>1, <2>4, <2>5 DEF OutOK
  <2>7. /\ InDeleted(i) \in Receiver /\ RowsKnown(InDeleted(i))
        /\ Limited(InDeleted(i).held)
    <3>1. /\ InDeleted(i) \in Receiver /\ InDeleted(i).held = <<>>
      BY <2>2, <2>3 DEF InDeleted, Receiver
    <3> QED
      BY <3>1, MqttAssumption DEF RowsKnown, Limited
  <2>8. InOK
    BY <1>0, <2>3, <2>4, <2>7 DEF InOK, RowsKnown
  <2>9. savedMid' \in 0..MaxMid /\ faults' \in 0..MaxFaults
    BY <1>0, <1>3, <2>4 DEF Sender, TypeInd
  <2> QED
    BY <2>4, <2>6, <2>8, <2>9 DEF TypeInd, ConfType, Links, InOK, OutOK
<1>g. CASE BrokerCrashes
  <2>1. OutOK
    BY <1>0, <1>g, ForgottenTypes DEF BrokerCrashes, OutOK
  <2>2. <<>> \in Seq(AnswerPacket)
    BY EmptySeq
  <2>3. in' \in Receiver /\ in'.held = in.held /\ in'.rows = in.rows
    BY <1>0, <1>g, <2>2 DEF BrokerCrashes, Receiver
  <2>4. InOK
    BY <1>0, <2>3 DEF InOK, RowsKnown
  <2> QED
    BY <1>3, <1>g, <2>1, <2>4 DEF BrokerCrashes, TypeInd, ConfType, Links, InOK, OutOK
<1>h. CASE UNCHANGED vars
  BY <1>1, <1>2, <1>h DEF vars, TypeInd, ConfType, InOK, OutOK
<1> QED
  BY <1>a, <1>b, <1>c, <1>d, <1>e, <1>f, <1>g, <1>h DEF Next

\* and says what the runs check.
LEMMA TypeTells == TypeInd => TypeOK
<1> SUFFICES ASSUME TypeInd PROVE TypeOK
  OBVIOUS
<1>1. /\ out.inflight \in Seq([id : Ids, mid : 0..MaxMid]) /\ out.queued \in Seq(Ids)
      /\ out.state \in [Ids -> States] /\ out.lastMid \in 0..MaxMid
      /\ in.delivered \in [Ids -> Nat]
  BY DEF TypeInd, Sender, Receiver, Entry
<1>2. in.held \in Seq([id : Ids, mid : 1..MaxMid, row : 1..in.rows])
  <2>1. /\ in.held \in Seq(Held) /\ Len(in.held) \in Nat /\ in.rows \in Nat
        /\ DOMAIN in.held = 1..Len(in.held) /\ in.held \in [1..Len(in.held) -> Held]
    BY LenProperties DEF TypeInd, Receiver
  <2>2. ASSUME NEW k \in 1..Len(in.held)
        PROVE  in.held[k] \in [id : Ids, mid : 1..MaxMid, row : 1..in.rows]
    <3> DEFINE h == in.held[k]
               last == in.rows
    <3>1. h \in Held /\ last \in Nat
      BY <2>1
    <3>2. h.row <= last
      BY DEF TypeInd, RowsKnown
    <3> HIDE DEF h, last
    <3>3. h \in [id : Ids, mid : 1..MaxMid, row : 1..last]
      BY ONLY <3>1, <3>2 DEF Held
    <3> QED
      BY <3>3 DEF h, last
  <2>3. in.held \in [1..Len(in.held) -> [id : Ids, mid : 1..MaxMid, row : 1..in.rows]]
    BY <2>1, <2>2
  <2> QED
    BY <2>1, <2>3, ListOf
<1> QED
  BY <1>1, <1>2 DEF TypeInd, TypeOK, ConfType, Limited

\* Whatever the ends and their connection do, both queues keep to their
\* limit, and the rows, the ids and the packets are what the code takes them
\* for (new_msg, message__release_to_inflight, handle__publish_s).
THEOREM MqttTyping == Spec => []TypeOK
BY TypeStarts, TypeStep, TypeTells, PTL DEF Spec

-----------------------------------------------------------------------------
(* The messages inflight and the packets on their way.                       *)

\* The rows that were sent, in this connection or in an earlier one
Begun(s) == {id \in Ids : s.state[id] \notin {"none", "invalid"}}

StatesFit(s) ==
  \A id \in Ids :
    /\ s.state[id] = "wait_for_puback" => conf.qos[id] = 1
    /\ s.state[id] \in {"wait_for_pubrec", "wait_for_pubcomp"} => conf.qos[id] = 2

\* Of the first m messages inflight: they are different, and were sent
Lists(s, m) ==
  /\ \A i, j \in 1..m : s.inflight[i].id = s.inflight[j].id => i = j
  /\ \A i \in 1..m : s.inflight[i].id \in Begun(s)

\* each has an id of its own
Mids(s, m) ==
  /\ \A i \in 1..m : s.inflight[i].mid # 0
  /\ \A i, j \in 1..m : s.inflight[i].mid = s.inflight[j].mid => i = j

\* What a packet on its way says about the message that it is about
Fits(s, p, id) ==
  /\ p.type = "PUBLISH" => p.id = id /\ s.state[id] = FirstWait(conf.qos[id])
  /\ p.type = "PUBACK" => s.state[id] = "wait_for_puback"
  /\ p.type = "PUBREC" => s.state[id] = "wait_for_pubrec"
  /\ p.type \in {"PUBREL", "PUBCOMP"} => s.state[id] = "wait_for_pubcomp"

\* The answers on their way, then the packets that are to be answered: in the
\* order in which the sender will hear of them
Pipe(a, s) == a \o s.packets

\* A message has at most one packet on its way, and every packet has one.
Tokens(s, P, m) ==
  /\ Len(P) <= m
  /\ \A p \in 1..Len(P) : \E i \in 1..m : /\ P[p].mid = s.inflight[i].mid
                                          /\ Fits(s, P[p], s.inflight[i].id)
  /\ \A p, r \in 1..Len(P) : P[p].mid = P[r].mid => p = r

FirstPass(p) == p.type \in {"PUBLISH", "PUBACK", "PUBREC"}

\* Since a message took its id, as many others took theirs as there are places
\* behind it in the window; of those whose packets are before its own, no more
\* than a second window, for a message of QoS 2 goes through it twice.
Ages(s, P, c, m) ==
  \A i \in 1..m :
    LET a == Age(s.lastMid, s.inflight[i].mid)
    IN  /\ \A p \in 1..Len(P) : P[p].mid = s.inflight[i].mid =>
             a + p <= IF FirstPass(P[p]) THEN m ELSE MaxInflight + m - 1
        /\ (\A p \in 1..Len(P) : P[p].mid # s.inflight[i].mid) =>
             a + c + 1 <= MaxInflight + m - 1

\* What message__release_to_inflight() sends, m of n messages being sent
\* before, and its own part of the invariants
Releases(s, redeliver, m) ==
  /\ Sends(s, redeliver) = (m + 1)..Len(s.inflight)
  /\ TakesMid(s, redeliver) = (m + 1)..Len(s.inflight)
  /\ \A i, j \in 1..Len(s.inflight) : s.inflight[i].id = s.inflight[j].id => i = j
  /\ \A i \in 1..m : s.inflight[i].id \in Begun(s)
  /\ \A i \in (m + 1)..Len(s.inflight) : s.state[s.inflight[i].id] # "none"

\* and what it leaves
Released(s, r, m) ==
  LET n == Len(s.inflight)
      c == Len(s.packets)
  IN  /\ r \in Sender /\ r.queued = s.queued
      /\ Len(r.inflight) = n /\ Len(r.packets) = c + n - m
      /\ \A i \in 1..n : r.inflight[i].id = s.inflight[i].id
      /\ \A i \in 1..m : r.inflight[i] = s.inflight[i]
      /\ \A k \in 1..(n - m) : r.inflight[m + k].mid = MidAfter(s.lastMid, k)
      /\ r.lastMid = IF m = n THEN s.lastMid ELSE MidAfter(s.lastMid, n - m)
      /\ \A p \in 1..c : r.packets[p] = s.packets[p]
      /\ \A k \in 1..(n - m) :
           r.packets[c + k] =
             IF s.state[s.inflight[m + k].id] = "wait_for_pubcomp"
             THEN Packet("PUBREL", MidAfter(s.lastMid, k))
             ELSE Publish(s.inflight[m + k].id, MidAfter(s.lastMid, k),
                          s.state[s.inflight[m + k].id] # "invalid")
      /\ \A id \in Ids :
           r.state[id] = IF /\ \E i \in (m + 1)..n : s.inflight[i].id = id
                            /\ s.state[id] = "invalid"
                         THEN FirstWait(conf.qos[id]) ELSE s.state[id]

\* message__release_to_inflight() sends what is behind place m, with the next
\* ids in turn.
LEMMA ReleaseRun ==
  ASSUME ConfType, NEW s \in Sender, NEW redeliver \in BOOLEAN,
         NEW m \in 0..Len(s.inflight), Releases(s, redeliver, m)
  PROVE  Released(s, Release(s, redeliver), m)
<1> DEFINE r == Release(s, redeliver)
           n == Len(s.inflight)
           c == Len(s.packets)
           new == (m + 1)..n
           more == [k \in 1..Cardinality(new) |->
                      PacketOf(s, redeliver, Ordered(new)[k])]
<1>1. /\ n \in Nat /\ c \in Nat /\ m \in Nat /\ m <= n /\ DOMAIN s.inflight = 1..n
      /\ s.packets \in Seq(OutPacket)
  BY LenProperties DEF Sender
<1>2. /\ Sends(s, redeliver) = new /\ TakesMid(s, redeliver) = new
  BY DEF Releases
<1> HIDE DEF n, new
<1>3. /\ Cardinality(new) = n - m
      /\ \A k \in 1..(n - m) : Ordered(new)[k] = m + k
      /\ \A i \in new : Cardinality({j \in new : j <= i}) = i - m
  BY <1>1, OrderedRun DEF new
<1>4. new = {} <=> m = n
  BY <1>1 DEF new
<1>5. /\ r \in Sender /\ r.queued = s.queued
      /\ Len(r.inflight) = n /\ DOMAIN r.inflight = 1..n
      /\ \A i \in 1..n : r.inflight[i] = [id |-> s.inflight[i].id,
                                         mid |-> MidOf(s, redeliver, i)]
      /\ r.lastMid = IF new = {} THEN s.lastMid ELSE MidAfter(s.lastMid, Cardinality(new))
      /\ r.packets = s.packets \o more
      /\ \A id \in Ids : r.state[id] = IF /\ \E i \in new : s.inflight[i].id = id
                                          /\ s.state[id] = "invalid"
                                       THEN FirstWait(conf.qos[id]) ELSE s.state[id]
  <2>1. /\ r \in Sender /\ r.queued = s.queued
        /\ Len(r.inflight) = n /\ DOMAIN r.inflight = DOMAIN s.inflight
        /\ \A i \in DOMAIN s.inflight :
             r.inflight[i] = [id |-> s.inflight[i].id, mid |-> MidOf(s, redeliver, i)]
    BY ReleaseDoes DEF ConfType, n
  <2>2. r.lastMid = IF TakesMid(s, redeliver) = {} THEN s.lastMid
                    ELSE MidAfter(s.lastMid, Cardinality(TakesMid(s, redeliver)))
    BY ReleaseDoes DEF ConfType
  <2>3. r.packets = s.packets \o [k \in 1..Cardinality(Sends(s, redeliver)) |->
                       PacketOf(s, redeliver, Ordered(Sends(s, redeliver))[k])]
    BY ReleaseDoes DEF ConfType
  <2>4. \A id \in Ids :
          r.state[id] = IF /\ \E i \in Sends(s, redeliver) : s.inflight[i].id = id
                           /\ s.state[id] = "invalid"
                        THEN FirstWait(conf.qos[id]) ELSE s.state[id]
    BY ReleaseDoes DEF ConfType
  <2> HIDE DEF r
  <2>5. r.packets = s.packets \o more
    BY <1>2, <2>3
  <2> HIDE DEF more
  <2> QED
    BY <1>1, <1>2, <2>1, <2>2, <2>4, <2>5
<1>6. \A i \in new : MidOf(s, redeliver, i) = MidAfter(s.lastMid, i - m)
  BY <1>2, <1>3 DEF MidOf
<1>7. \A i \in 1..m : MidOf(s, redeliver, i) = s.inflight[i].mid
  <2>1. \A i \in 1..m : i \notin new
    BY <1>1 DEF new
  <2> QED
    BY <1>2, <2>1 DEF MidOf
<1>8. \A i \in 1..m : r.inflight[i] = s.inflight[i]
  <2>1. \A i \in 1..m : i \in 1..n
    BY <1>1
  <2>2. \A i \in 1..m : s.inflight[i] \in Entry
    BY <1>1, <2>1, ElementOfSeq DEF Sender, n
  <2>3. \A i \in 1..m : s.inflight[i] = [id |-> s.inflight[i].id,
                                        mid |-> s.inflight[i].mid]
    BY <2>2 DEF Entry
  <2> HIDE DEF r
  <2> QED
    BY <1>5, <1>7, <2>1, <2>3
<1>9. \A k \in 1..(n - m) : m + k \in new /\ m + k \in 1..n /\ m + k - m = k
  BY <1>1 DEF new
<1>10. \A k \in 1..(n - m) : MidOf(s, redeliver, m + k) = MidAfter(s.lastMid, k)
  BY <1>6, <1>9
<1> DEFINE Laid(k) == IF s.state[s.inflight[m + k].id] = "wait_for_pubcomp"
                      THEN Packet("PUBREL", MidAfter(s.lastMid, k))
                      ELSE Publish(s.inflight[m + k].id, MidAfter(s.lastMid, k),
                                   s.state[s.inflight[m + k].id] # "invalid")
<1>11. \A k \in 1..(n - m) : PacketOf(s, redeliver, m + k) = Laid(k)
  BY <1>10 DEF PacketOf
<1>12. more = [k \in 1..(n - m) |-> PacketOf(s, redeliver, Ordered(new)[k])]
  BY <1>3
<1>13. \A k \in 1..(n - m) : more[k] = PacketOf(s, redeliver, m + k)
  BY <1>3, <1>12
<1> HIDE DEF r, more, c, Laid
<1>14. more \in Seq(OutPacket) /\ Len(more) = n - m
  <2>1. \A i \in new : PacketOf(s, redeliver, i) \in OutPacket
    BY <1>2, ReleaseMids
  <2>2. more \in [1..(n - m) -> OutPacket]
    BY <1>3, <1>9, <1>12, <2>1
  <2>3. n - m \in Nat
    BY <1>1
  <2> QED
    BY <2>2, <2>3, ListOf
<1>15. /\ Len(r.packets) = c + (n - m)
       /\ \A p \in 1..c : r.packets[p] = s.packets[p]
       /\ \A k \in 1..(n - m) : r.packets[c + k] = more[k]
  <2>1. /\ s.packets \in Seq(OutPacket) /\ more \in Seq(OutPacket)
        /\ r.packets = s.packets \o more
    BY <1>1, <1>5, <1>14
  <2>2. /\ s.packets \o more \in Seq(OutPacket)
        /\ Len(s.packets) \in Nat /\ Len(more) \in Nat
        /\ Len(s.packets \o more) = Len(s.packets) + Len(more)
        /\ \A p \in 1..Len(s.packets) : (s.packets \o more)[p] = s.packets[p]
        /\ \A k \in 1..Len(more) : (s.packets \o more)[Len(s.packets) + k] = more[k]
    BY ONLY <2>1, CatDoes
  <2>3. /\ Len(r.packets) = Len(s.packets) + Len(more)
        /\ \A p \in 1..Len(s.packets) : r.packets[p] = s.packets[p]
        /\ \A k \in 1..Len(more) : r.packets[Len(s.packets) + k] = more[k]
    BY <2>1, <2>2, Zenon
  <2> QED
    BY <1>14, <2>3 DEF c
<1>16. \A p \in 1..c : r.packets[p] = s.packets[p]
  BY <1>15
<1>17. \A k \in 1..(n - m) : r.packets[c + k] = Laid(k)
  BY <1>11, <1>13, <1>15
<1>18. c + (n - m) = c + n - m
  BY <1>1
<1>19. \A k \in 1..(n - m) : r.inflight[m + k].mid = MidAfter(s.lastMid, k)
  <2>1. \A i \in 1..n : r.inflight[i] = [id |-> s.inflight[i].id,
                                         mid |-> MidOf(s, redeliver, i)]
    BY <1>5
  <2>2. ASSUME NEW i \in 1..n
        PROVE  r.inflight[i].mid = MidOf(s, redeliver, i)
    <3>1. r.inflight[i] = [id |-> s.inflight[i].id, mid |-> MidOf(s, redeliver, i)]
      BY <2>1
    <3> QED
      BY <3>1
  <2> QED
    BY <1>9, <1>10, <2>2
<1>20. r.lastMid = IF m = n THEN s.lastMid ELSE MidAfter(s.lastMid, n - m)
  BY <1>3, <1>4, <1>5
<1>21. ASSUME NEW i \in 1..n
       PROVE  r.inflight[i].id = s.inflight[i].id
  <2>1. r.inflight[i] = [id |-> s.inflight[i].id, mid |-> MidOf(s, redeliver, i)]
    BY <1>5
  <2> QED
    BY <2>1
<1>22. /\ r \in Sender /\ r.queued = s.queued /\ Len(r.inflight) = n
       /\ Len(r.packets) = c + n - m
  BY <1>5, <1>15, <1>18
<1>23. \A id \in Ids : r.state[id] = IF /\ \E i \in new : s.inflight[i].id = id
                                         /\ s.state[id] = "invalid"
                                      THEN FirstWait(conf.qos[id]) ELSE s.state[id]
  BY <1>5
<1> QED
  BY <1>8, <1>16, <1>17, <1>19, <1>20, <1>21, <1>22, <1>23
     DEF r, n, c, new, Laid, Released

\* A sender's counter of mids and its states.
LEMMA SenderFields ==
  ASSUME NEW s \in Sender
  PROVE  s.lastMid \in 0..MaxMid /\ s.state \in [Ids -> States]
BY DEF Sender

\* A window that holds a message at all is a number, and so are its mids.
LEMMA WindowIs ==
  ASSUME MaxInflight > 0
  PROVE  MaxInflight \in Nat \ {0} /\ MaxMid \in Nat \ {0}
BY MqttAssumption

\* What is in the lists of the sender.
LEMMA InflightType ==
  ASSUME NEW s \in Sender
  PROVE  /\ Len(s.inflight) \in Nat /\ Len(s.queued) \in Nat /\ Len(s.packets) \in Nat
         /\ DOMAIN s.inflight = 1..Len(s.inflight)
         /\ \A i \in 1..Len(s.inflight) : /\ s.inflight[i].id \in Ids
                                          /\ s.inflight[i].mid \in 0..MaxMid
         /\ \A k \in 1..Len(s.queued) : s.queued[k] \in Ids
         /\ \A p \in 1..Len(s.packets) : s.packets[p] \in OutPacket
<1>1. /\ s.inflight \in Seq(Entry) /\ s.queued \in Seq(Ids)
      /\ s.packets \in Seq(OutPacket)
  BY DEF Sender
<1>2. \A i \in 1..Len(s.inflight) : s.inflight[i] \in Entry
  BY <1>1, ElementOfSeq
<1>3. \A i \in 1..Len(s.inflight) : /\ s.inflight[i].id \in Ids
                                    /\ s.inflight[i].mid \in 0..MaxMid
  BY <1>2 DEF Entry
<1> QED
  BY <1>1, <1>3, LenProperties, ElementOfSeq

\* What was sent has an id of its own, in the window.
LEMMA MidsAre ==
  ASSUME NEW s \in Sender, NEW m \in 0..Len(s.inflight), Mids(s, m)
  PROVE  /\ m \in Nat
         /\ \A i \in 1..m : s.inflight[i].mid \in 1..MaxMid /\ s.inflight[i].id \in Ids
<1> DEFINE l == Len(s.inflight)
<1>1. /\ l \in Nat
      /\ \A i \in 1..l : s.inflight[i].id \in Ids /\ s.inflight[i].mid \in 0..MaxMid
  BY InflightType
<1>2. \A i \in 1..m : s.inflight[i].mid # 0
  BY DEF Mids
<1>3. m \in 0..l
  OBVIOUS
<1> HIDE DEF l
<1>4. m \in Nat /\ \A i \in 1..m : i \in 1..l
  BY ONLY <1>1, <1>3
<1>5. MaxMid \in Nat
  BY MqttAssumption
<1> QED
  BY ONLY <1>1, <1>2, <1>4, <1>5

\* What is sent is begun, with the state of its QoS; nothing else changes.
LEMMA ReleaseStates ==
  ASSUME ConfType, NEW s \in Sender, NEW redeliver \in BOOLEAN,
         NEW m \in 0..Len(s.inflight), Releases(s, redeliver, m), StatesFit(s)
  PROVE  LET r == Release(s, redeliver)
             n == Len(s.inflight)
         IN  /\ StatesFit(r) /\ Lists(r, n)
             /\ \A id \in Ids : r.state[id] = "none" <=> s.state[id] = "none"
             /\ \A i \in 1..m : r.state[r.inflight[i].id] = s.state[s.inflight[i].id]
             /\ \A id \in Ids : (\A i \in 1..n : s.inflight[i].id # id) =>
                                  r.state[id] = s.state[id]
<1> DEFINE r == Release(s, redeliver)
           n == Len(s.inflight)
<1>1. /\ n \in Nat /\ m \in Nat /\ m <= n
      /\ \A i \in 1..n : s.inflight[i].id \in Ids
  BY InflightType
<1>2. /\ \A i \in 1..n : r.inflight[i].id = s.inflight[i].id
      /\ \A id \in Ids :
           r.state[id] = IF /\ \E i \in (m + 1)..n : s.inflight[i].id = id
                            /\ s.state[id] = "invalid"
                         THEN FirstWait(conf.qos[id]) ELSE s.state[id]
  <2>1. Released(s, r, m)
    BY ReleaseRun
  <2> HIDE DEF r
  <2> QED
    BY <2>1 DEF Released
<1> HIDE DEF r, n
<1>3. \A id \in Ids : conf.qos[id] \in {1, 2}
  BY MqttAssumption DEF ConfType
<1>4. \A id \in Ids : FirstWait(conf.qos[id]) =
                        IF conf.qos[id] = 1 THEN "wait_for_puback" ELSE "wait_for_pubrec"
  BY DEF FirstWait
<1>5. \A id \in Ids : \/ r.state[id] = s.state[id]
                      \/ s.state[id] = "invalid" /\ r.state[id] = FirstWait(conf.qos[id])
  BY <1>2
<1>6. StatesFit(r)
  BY <1>3, <1>4, <1>5 DEF StatesFit
<1>7. \A id \in Ids : r.state[id] = "none" <=> s.state[id] = "none"
  BY <1>4, <1>5
<1>8. \A i, j \in 1..n : r.inflight[i].id = r.inflight[j].id => i = j
  BY <1>2 DEF Releases, n
<1>9. ASSUME NEW i \in 1..m
      PROVE  /\ r.state[r.inflight[i].id] = s.state[s.inflight[i].id]
             /\ r.inflight[i].id \in Begun(r)
  <2>1. i \in 1..n /\ s.inflight[i].id \in Begun(s)
    BY <1>1 DEF Releases
  <2> QED
    BY <1>1, <1>2, <2>1 DEF Begun
<1>10. ASSUME NEW i \in (m + 1)..n
       PROVE  r.inflight[i].id \in Begun(r)
  <2>1. i \in 1..n /\ s.state[s.inflight[i].id] # "none"
    BY <1>1 DEF Releases, n
  <2>2. r.inflight[i].id = s.inflight[i].id /\ s.inflight[i].id \in Ids
    BY <1>1, <1>2, <2>1
  <2>3. r.state[s.inflight[i].id] \notin {"none", "invalid"}
    BY <1>2, <1>4, <2>1, <2>2
  <2> QED
    BY <2>2, <2>3 DEF Begun
<1>11. \A i \in 1..n : i \in 1..m \/ i \in (m + 1)..n
  BY <1>1
<1>12. Lists(r, n)
  BY <1>8, <1>9, <1>10, <1>11 DEF Lists
<1>13. ASSUME NEW id \in Ids, \A i \in 1..n : s.inflight[i].id # id
       PROVE  r.state[id] = s.state[id]
  <2>1. \A i \in (m + 1)..n : i \in 1..n
    BY <1>1
  <2> QED
    BY <1>2, <1>13, <2>1
<1> QED
  BY <1>6, <1>7, <1>9, <1>12, <1>13 DEF r, n

\* The ids of a window that is not yet its second one behind do not come back.
LEMMA Reach ==
  ASSUME MaxInflight > 0, NEW s \in Sender, NEW m \in 0..Len(s.inflight),
         NEW P, Len(P) \in Nat, NEW c \in Nat, Mids(s, m), Ages(s, P, c, m)
  PROVE  \A i \in 1..m : /\ s.inflight[i].mid \in 1..MaxMid
                         /\ Age(s.lastMid, s.inflight[i].mid) \in Nat
                         /\ Age(s.lastMid, s.inflight[i].mid) <= MaxInflight + m - 2
<1> SUFFICES ASSUME NEW i \in 1..m
             PROVE  /\ s.inflight[i].mid \in 1..MaxMid
                    /\ Age(s.lastMid, s.inflight[i].mid) \in Nat
                    /\ Age(s.lastMid, s.inflight[i].mid) <= MaxInflight + m - 2
  OBVIOUS
<1> DEFINE age == Age(s.lastMid, s.inflight[i].mid)
<1>1. MaxInflight \in Nat \ {0} /\ MaxMid \in Nat \ {0} /\ m \in Nat /\ i \in Nat /\ 1 <= m
  BY MqttAssumption, InflightType
<1>2. s.inflight[i].mid \in 1..MaxMid
  BY InflightType DEF Mids
<1>3. age \in 0..(MaxMid - 1)
  BY <1>2, AgeTells DEF Sender
<1>4. /\ \A p \in 1..Len(P) : P[p].mid = s.inflight[i].mid =>
           age + p <= IF FirstPass(P[p]) THEN m ELSE MaxInflight + m - 1
      /\ (\A p \in 1..Len(P) : P[p].mid # s.inflight[i].mid) =>
           age + c + 1 <= MaxInflight + m - 1
  BY DEF Ages
<1> HIDE DEF age
<1>6. ASSUME NEW p \in 1..Len(P), P[p].mid = s.inflight[i].mid
      PROVE  age <= MaxInflight + m - 2
  <2>1. age + p <= IF FirstPass(P[p]) THEN m ELSE MaxInflight + m - 1
    BY <1>4, <1>6
  <2>2. p \in Nat /\ 1 <= p
    BY <1>6
  <2>3. age + p <= MaxInflight + m - 1
    BY <1>1, <1>3, <2>1, <2>2
  <2> QED
    BY <1>1, <1>3, <2>2, <2>3
<1>7. age <= MaxInflight + m - 2
  <2>1. CASE \A p \in 1..Len(P) : P[p].mid # s.inflight[i].mid
    BY <1>1, <1>3, <1>4, <2>1
  <2>2. CASE \E p \in 1..Len(P) : P[p].mid = s.inflight[i].mid
    BY <1>6, <2>2
  <2> QED
    BY <2>1, <2>2
<1>8. MaxMid - 1 \in Nat /\ age \in Nat
  BY <1>1, <1>3
<1> QED
  BY <1>2, <1>7, <1>8 DEF age

\* The ids that are given are the youngest; the others age by their number.
LEMMA ReleaseAges ==
  ASSUME MaxInflight > 0, MaxMid >= 2 * MaxInflight - 1,
         NEW s \in Sender, NEW m \in 0..Len(s.inflight), Len(s.inflight) <= MaxInflight,
         NEW P, Len(P) \in Nat, NEW c \in Nat, Mids(s, m), Ages(s, P, c, m)
  PROVE  LET g == Len(s.inflight) - m
             last == IF g = 0 THEN s.lastMid ELSE MidAfter(s.lastMid, g)
         IN  /\ \A i \in 1..m : Age(last, s.inflight[i].mid) =
                                  Age(s.lastMid, s.inflight[i].mid) + g
             /\ \A k \in 1..g : /\ MidAfter(s.lastMid, k) \in 1..MaxMid
                                /\ Age(last, MidAfter(s.lastMid, k)) = g - k
<1> DEFINE g == Len(s.inflight) - m
           last == IF g = 0 THEN s.lastMid ELSE MidAfter(s.lastMid, g)
<1>1. /\ MaxInflight \in Nat \ {0} /\ MaxMid \in Nat \ {0} /\ m \in Nat
      /\ Len(s.inflight) \in Nat /\ g \in Nat /\ g <= MaxInflight - m
      /\ s.lastMid \in 0..MaxMid
  <2>1. Len(s.inflight) \in Nat
    BY InflightType
  <2> QED
    BY <2>1, MqttAssumption DEF Sender
<1>2. g <= MaxMid
  BY <1>1
<1> HIDE DEF g
<1>3. ASSUME NEW i \in 1..m
      PROVE  Age(last, s.inflight[i].mid) = Age(s.lastMid, s.inflight[i].mid) + g
  <2> DEFINE age == Age(s.lastMid, s.inflight[i].mid)
  <2>1. /\ s.inflight[i].mid \in 1..MaxMid /\ age \in Nat
        /\ age <= MaxInflight + m - 2
    BY Reach
  <2> HIDE DEF age
  <2>2. age + g < MaxMid
    BY <1>1, <2>1
  <2>3. CASE g = 0
    BY <2>1, <2>3 DEF age
  <2>4. CASE g # 0
    <3>1. g \in 1..MaxMid
      BY <1>1, <1>2, <2>4
    <3> QED
      BY <1>1, <2>1, <2>2, <2>4, <3>1, AgeAfter DEF age
  <2> QED
    BY <2>3, <2>4 DEF age
<1>4. ASSUME NEW k \in 1..g
      PROVE  /\ MidAfter(s.lastMid, k) \in 1..MaxMid
             /\ Age(last, MidAfter(s.lastMid, k)) = g - k
  <2>1. k \in Nat \ {0} /\ g \in 1..MaxMid /\ g # 0
    BY <1>1, <1>2
  <2> QED
    BY <1>1, <2>1, MidTypes, AgeOfNew
<1> QED
  BY <1>3, <1>4 DEF g

\* The pipe is the answers, then the packets.
LEMMA PipeDoes ==
  ASSUME NEW a \in Seq(AnswerPacket), NEW s \in Sender
  PROVE  /\ Len(a) \in Nat /\ Len(s.packets) \in Nat
         /\ Len(Pipe(a, s)) = Len(a) + Len(s.packets) /\ Len(Pipe(a, s)) \in Nat
         /\ \A p \in 1..Len(a) : Pipe(a, s)[p] = a[p]
         /\ \A k \in 1..Len(s.packets) : Pipe(a, s)[Len(a) + k] = s.packets[k]
<1> DEFINE P == Pipe(a, s)
           T == AnswerPacket \cup OutPacket
<1>1. a \in Seq(T) /\ s.packets \in Seq(T)
  <2>1. s.packets \in Seq(OutPacket)
    BY DEF Sender
  <2> HIDE DEF T
  <2>2. AnswerPacket \subseteq T /\ OutPacket \subseteq T
    BY DEF T
  <2> QED
    BY <2>1, <2>2, SeqMonotonic
<1> HIDE DEF T
<1>2. /\ a \o s.packets \in Seq(T)
      /\ Len(a) \in Nat /\ Len(s.packets) \in Nat
      /\ Len(a \o s.packets) = Len(a) + Len(s.packets)
      /\ \A i \in 1..Len(a) : (a \o s.packets)[i] = a[i]
      /\ \A k \in 1..Len(s.packets) : (a \o s.packets)[Len(a) + k] = s.packets[k]
  BY <1>1, CatDoes
<1>3. P = a \o s.packets
  BY DEF Pipe
<1> HIDE DEF P
<1>4. /\ Len(a) \in Nat /\ Len(s.packets) \in Nat
      /\ Len(P) = Len(a) + Len(s.packets)
      /\ \A p \in 1..Len(a) : P[p] = a[p]
      /\ \A k \in 1..Len(s.packets) : P[Len(a) + k] = s.packets[k]
  BY <1>2, <1>3, Zenon
<1>5. Len(P) \in Nat
  BY <1>4
<1> QED
  BY <1>4, <1>5 DEF P

\* A list becomes another by g elements at its end.
Extends(u, v, g) == Len(v) = Len(u) + g /\ \A p \in 1..Len(u) : v[p] = u[p]

\* What is on its way then
PipeExtends(a, s, r, g) ==
  /\ Len(Pipe(a, s)) = Len(a) + Len(s.packets) /\ Len(Pipe(a, s)) \in Nat
  /\ Len(a) \in Nat
  /\ Len(Pipe(a, r)) = Len(Pipe(a, s)) + g
  /\ \A p \in 1..Len(Pipe(a, s)) : Pipe(a, r)[p] = Pipe(a, s)[p]
  /\ \A k \in 1..g : Pipe(a, r)[Len(Pipe(a, s)) + k] = r.packets[Len(s.packets) + k]

\* The packets that are sent come behind all others.
LEMMA PipeGrows ==
  ASSUME NEW a \in Seq(AnswerPacket), NEW s \in Sender, NEW r \in Sender,
         NEW g \in Nat, Extends(s.packets, r.packets, g)
  PROVE  PipeExtends(a, s, r, g)
<1> DEFINE P == Pipe(a, s)
           Q == Pipe(a, r)
           c == Len(a)
           l == Len(s.packets)
<1> HIDE DEF P, Q
<1>1. /\ c \in Nat /\ l \in Nat /\ Len(P) = c + l
      /\ \A i \in 1..c : P[i] = a[i]
      /\ \A k \in 1..l : P[c + k] = s.packets[k]
  BY PipeDoes DEF P
<1>2. /\ Len(Q) = c + Len(r.packets)
      /\ \A i \in 1..c : Q[i] = a[i]
      /\ \A k \in 1..Len(r.packets) : Q[c + k] = r.packets[k]
  BY PipeDoes DEF Q
<1>3. Len(r.packets) = l + g /\ \A k \in 1..l : r.packets[k] = s.packets[k]
  BY DEF Extends
<1> HIDE DEF c, l
<1>5. /\ c \in Nat /\ l \in Nat /\ Len(P) = c + l /\ Len(Q) = c + (l + g)
      /\ \A i \in 1..c : P[i] = a[i] /\ Q[i] = a[i]
      /\ \A k \in 1..l : P[c + k] = s.packets[k]
      /\ \A k \in 1..(l + g) : Q[c + k] = r.packets[k]
  BY <1>1, <1>2, <1>3
<1>6. ASSUME NEW p \in 1..(c + l)
      PROVE  Q[p] = P[p]
  <2>1. CASE p <= c
    BY <1>5, <2>1
  <2>2. CASE p > c
    <3> DEFINE k == p - c
    <3>1. k \in 1..l /\ k \in 1..(l + g) /\ p = c + k
      BY <1>5, <2>2
    <3> HIDE DEF k
    <3>2. P[c + k] = s.packets[k] /\ Q[c + k] = r.packets[k]
      BY <1>5, <3>1
    <3>3. r.packets[k] = s.packets[k]
      BY <1>3, <3>1
    <3> QED
      BY <3>1, <3>2, <3>3
  <2> QED
    BY <1>5, <2>1, <2>2
<1>7. ASSUME NEW k \in 1..g
      PROVE  Q[c + l + k] = r.packets[l + k]
  <2>1. l + k \in 1..(l + g) /\ c + l + k = c + (l + k)
    BY <1>5
  <2> QED
    BY <1>5, <2>1
<1>8. Len(P) = c + l /\ Len(P) \in Nat /\ Len(Q) = Len(P) + g
  BY <1>5
<1> QED
  BY <1>5, <1>6, <1>7, <1>8 DEF P, Q, c, l, PipeExtends

\* Every message inflight has a packet on its way.
Covered(s, P, m) ==
  \A i \in 1..m : \E p \in 1..Len(P) : P[p].mid = s.inflight[i].mid

\* message__release_to_inflight() keeps the ids apart and the packets in place.
LEMMA ReleaseKeeps ==
  ASSUME ConfType, MaxInflight > 0, MaxMid >= 2 * MaxInflight - 1,
         NEW s \in Sender, NEW redeliver \in BOOLEAN, NEW a \in Seq(AnswerPacket),
         NEW m \in 0..Len(s.inflight), Len(s.inflight) <= MaxInflight,
         Releases(s, redeliver, m), StatesFit(s), Mids(s, m),
         Tokens(s, Pipe(a, s), m), Ages(s, Pipe(a, s), Len(a), m)
  PROVE  LET r == Release(s, redeliver)
             n == Len(s.inflight)
         IN  /\ Mids(r, n) /\ Tokens(r, Pipe(a, r), n)
             /\ Ages(r, Pipe(a, r), Len(a), n)
             /\ Covered(s, Pipe(a, s), m) => Covered(r, Pipe(a, r), n)
<1> DEFINE r == Release(s, redeliver)
           n == Len(s.inflight)
           g == n - m
           P == Pipe(a, s)
           Q == Pipe(a, r)
           L == Len(P)
           Old(i) == Age(s.lastMid, s.inflight[i].mid)
           New(i) == Age(r.lastMid, r.inflight[i].mid)
           mid(k) == MidAfter(s.lastMid, k)
<1>1. /\ n \in Nat /\ m \in Nat /\ m <= n /\ g \in Nat /\ n = m + g /\ n <= MaxInflight
      /\ MaxInflight \in Nat \ {0} /\ MaxMid \in Nat \ {0}
      /\ \A i \in 1..n : s.inflight[i].id \in Ids /\ s.inflight[i].mid \in 0..MaxMid
  <2>1. /\ n \in Nat /\ m \in 0..n /\ n <= MaxInflight
        /\ \A i \in 1..n : s.inflight[i].id \in Ids /\ s.inflight[i].mid \in 0..MaxMid
    BY InflightType
  <2>2. MaxInflight \in Nat \ {0} /\ MaxMid \in Nat \ {0}
    BY WindowIs
  <2> HIDE DEF n
  <2>3. m \in Nat /\ m <= n /\ g \in Nat /\ n = m + g
    BY ONLY <2>1
  <2> QED
    BY ONLY <2>1, <2>2, <2>3
<1>2. /\ r \in Sender /\ Len(r.packets) = Len(s.packets) + g
      /\ \A i \in 1..n : r.inflight[i].id = s.inflight[i].id
      /\ \A i \in 1..m : r.inflight[i] = s.inflight[i]
      /\ \A k \in 1..g : r.inflight[m + k].mid = mid(k)
      /\ r.lastMid = IF g = 0 THEN s.lastMid ELSE MidAfter(s.lastMid, g)
      /\ \A p \in 1..Len(s.packets) : r.packets[p] = s.packets[p]
      /\ \A k \in 1..g :
           r.packets[Len(s.packets) + k] =
             IF s.state[s.inflight[m + k].id] = "wait_for_pubcomp"
             THEN Packet("PUBREL", mid(k))
             ELSE Publish(s.inflight[m + k].id, mid(k),
                          s.state[s.inflight[m + k].id] # "invalid")
      /\ \A id \in Ids :
           r.state[id] = IF /\ \E i \in (m + 1)..n : s.inflight[i].id = id
                            /\ s.state[id] = "invalid"
                         THEN FirstWait(conf.qos[id]) ELSE s.state[id]
  <2>1. Len(s.packets) \in Nat
    BY InflightType
  <2>2. Len(s.packets) + n - m = Len(s.packets) + g /\ (m = n <=> g = 0)
    BY <1>1, <2>1
  <2>3. Released(s, r, m)
    BY ReleaseRun
  <2> HIDE DEF r
  <2> QED
    BY <2>2, <2>3 DEF Released
<1>3. L \in Nat /\ Len(a) \in Nat /\ L <= m
  BY PipeDoes DEF Tokens
<1> HIDE DEF r, n, g, P, Q
<1>4. /\ Len(Q) = L + g
      /\ \A p \in 1..L : Q[p] = P[p]
      /\ \A k \in 1..g : Q[L + k] = r.packets[Len(s.packets) + k]
  <2>1. /\ Len(r.packets) = Len(s.packets) + g /\ r \in Sender /\ g \in Nat
        /\ \A p \in 1..Len(s.packets) : r.packets[p] = s.packets[p]
    BY <1>1, <1>2
  <2>2. /\ Len(Pipe(a, r)) = Len(Pipe(a, s)) + g
        /\ \A p \in 1..Len(Pipe(a, s)) : Pipe(a, r)[p] = Pipe(a, s)[p]
        /\ \A k \in 1..g : Pipe(a, r)[Len(Pipe(a, s)) + k] =
                              r.packets[Len(s.packets) + k]
    <3>1. Extends(s.packets, r.packets, g)
      BY ONLY <2>1 DEF Extends
    <3>2. a \in Seq(AnswerPacket) /\ s \in Sender /\ r \in Sender /\ g \in Nat
      BY <2>1
    <3>3. PipeExtends(a, s, r, g)
      BY ONLY <3>1, <3>2, PipeGrows
    <3> QED
      BY ONLY <3>3 DEF PipeExtends
  <2> QED
    BY <2>2 DEF P, Q
<1>5. /\ \A i \in 1..m : Age(r.lastMid, s.inflight[i].mid) = Old(i) + g
      /\ \A k \in 1..g : mid(k) \in 1..MaxMid /\ Age(r.lastMid, mid(k)) = g - k
  BY <1>1, <1>2, <1>3, ReleaseAges DEF P, n, g
<1>6. \A i \in 1..m : Old(i) \in Nat /\ s.inflight[i].mid \in 1..MaxMid
  BY <1>3, Reach DEF P
<1> HIDE DEF L, Old, mid
<1>7. \A i \in 1..m : r.inflight[i].mid = s.inflight[i].mid /\ New(i) = Old(i) + g
  BY <1>2, <1>5
<1>8. \A k \in 1..g : r.inflight[m + k].mid = mid(k) /\ New(m + k) = g - k
  BY <1>2, <1>5
<1>9. \A i \in 1..n : \/ i \in 1..m
                      \/ \E k \in 1..g : i = m + k
  <2>1. \A i \in 1..n : i \in 1..m \/ (i - m \in 1..g /\ i = m + (i - m))
    BY <1>1
  <2> QED
    BY <2>1
<1>10. \A i \in 1..n : r.inflight[i].mid \in 1..MaxMid
  BY <1>5, <1>6, <1>7, <1>8, <1>9
<1>11. \A i, j \in 1..n : New(i) = New(j) => i = j
  \* the old ones are older than the new ones
  <2>1. ASSUME NEW i \in 1..m, NEW j \in 1..m, New(i) = New(j)
        PROVE  i = j
    <3>1. s.inflight[i].mid \in 1..MaxMid /\ s.inflight[j].mid \in 1..MaxMid
      BY <1>6
    <3>2. Old(i) = Old(j)
      BY <1>1, <1>6, <1>7, <2>1
    <3>3. s.inflight[i].mid = s.inflight[j].mid
      BY <3>1, <3>2, AgeTells DEF Old, Sender
    <3> QED
      BY <3>3 DEF Mids
  <2>2. ASSUME NEW i \in 1..m, NEW k \in 1..g
        PROVE  New(i) # New(m + k)
    <3>1. New(i) = Old(i) + g /\ Old(i) \in Nat /\ New(m + k) = g - k
      BY <1>6, <1>7, <1>8
    <3>2. g \in Nat /\ k \in 1..g
      BY <1>1
    <3> HIDE DEF New
    <3> QED
      BY ONLY <3>1, <3>2
  <2>3. ASSUME NEW k \in 1..g, NEW l \in 1..g, New(m + k) = New(m + l)
        PROVE  k = l
    <3>1. New(m + k) = g - k /\ New(m + l) = g - l
      BY <1>8
    <3> HIDE DEF New
    <3>2. g - k = g - l
      BY <2>3, <3>1
    <3> QED
      BY <1>1, <3>2
  <2> HIDE DEF New
  <2> QED
    BY <1>9, <2>1, <2>2, <2>3
<1>12. Mids(r, n)
  <2>1. \A i \in 1..n : r.inflight[i].mid # 0
    BY <1>1, <1>10
  <2>2. \A i, j \in 1..n : r.inflight[i].mid = r.inflight[j].mid => i = j
    BY <1>11
  <2> QED
    BY <2>1, <2>2 DEF Mids
<1> HIDE DEF New
<1>13. \A k \in 1..g : Q[L + k].mid = r.inflight[m + k].mid
  <2> SUFFICES ASSUME NEW k \in 1..g
               PROVE  Q[L + k].mid = r.inflight[m + k].mid
    OBVIOUS
  <2> DEFINE id == s.inflight[m + k].id
             dup == s.state[id] # "invalid"
  <2>1. Q[L + k] = IF s.state[id] = "wait_for_pubcomp" THEN Packet("PUBREL", mid(k))
                   ELSE Publish(id, mid(k), dup)
    BY <1>2, <1>4
  <2> HIDE DEF id, dup
  <2>2. Q[L + k].mid = mid(k)
    BY <2>1 DEF Packet, Publish
  <2> QED
    BY <1>8, <2>2
<1>14. \A p \in 1..(L + g) : \/ p \in 1..L
                             \/ \E k \in 1..g : p = L + k
  <2>1. \A p \in 1..(L + g) : p \in 1..L \/ (p - L \in 1..g /\ p = L + (p - L))
    BY <1>1, <1>3
  <2> QED
    BY <2>1
<1>15. ASSUME NEW p \in 1..L
       PROVE  \E i \in 1..m : /\ Q[p].mid = r.inflight[i].mid
                              /\ Fits(r, Q[p], r.inflight[i].id)
  <2>1. PICK i \in 1..m : /\ P[p].mid = s.inflight[i].mid
                          /\ Fits(s, P[p], s.inflight[i].id)
    BY DEF Tokens, L, P
  <2>2. Q[p] = P[p] /\ r.inflight[i] = s.inflight[i]
    BY <1>2, <1>4
  <2>3. r.state[s.inflight[i].id] = s.state[s.inflight[i].id]
    <3>1. r.state[r.inflight[i].id] = s.state[s.inflight[i].id]
      BY ReleaseStates DEF r
    <3> QED
      BY <2>2, <3>1
  <2>4. Fits(r, Q[p], s.inflight[i].id)
    BY <2>1, <2>2, <2>3 DEF Fits
  <2> QED
    BY <2>1, <2>2, <2>4
<1>16. ASSUME NEW k \in 1..g
       PROVE  Fits(r, Q[L + k], r.inflight[m + k].id)
  <2> DEFINE id == s.inflight[m + k].id
  <2>1. m + k \in 1..n /\ m + k \in (m + 1)..n
    BY <1>1
  <2>2. id \in Ids /\ r.inflight[m + k].id = id
    BY <1>1, <1>2, <2>1
  <2>3. s.state[id] \in States \ {"none"}
    BY <2>1, <2>2 DEF Releases, Sender, n
  <2>4. r.state[id] = IF s.state[id] = "invalid" THEN FirstWait(conf.qos[id])
                      ELSE s.state[id]
    BY <1>2, <2>1, <2>2
  <2>5. Q[L + k] = IF s.state[id] = "wait_for_pubcomp" THEN Packet("PUBREL", mid(k))
                   ELSE Publish(id, mid(k), s.state[id] # "invalid")
    BY <1>2, <1>4
  <2> HIDE DEF id
  <2>6. CASE s.state[id] = "wait_for_pubcomp"
    BY <2>2, <2>4, <2>5, <2>6 DEF Fits, Packet
  <2>7. CASE s.state[id] # "wait_for_pubcomp"
    <3>1. r.state[id] = FirstWait(conf.qos[id])
      BY <2>2, <2>3, <2>4, <2>7 DEF StatesFit, FirstWait, States
    <3>2. Q[L + k] = Publish(id, mid(k), s.state[id] # "invalid")
      BY <2>5, <2>7
    <3> QED
      BY <2>2, <3>1, <3>2 DEF Fits, Publish
  <2> QED
    BY <2>6, <2>7
<1>17. \A p \in 1..L, k \in 1..g : Q[p].mid # Q[L + k].mid
  <2> SUFFICES ASSUME NEW p \in 1..L, NEW k \in 1..g, Q[p].mid = Q[L + k].mid
               PROVE  FALSE
    OBVIOUS
  <2>1. PICK i \in 1..m : Q[p].mid = r.inflight[i].mid
    BY <1>15
  <2>2. r.inflight[i].mid = r.inflight[m + k].mid
    BY <1>13, <2>1
  <2>3. i \in 1..n /\ m + k \in 1..n /\ i # m + k
    BY <1>1
  <2> QED
    BY <1>12, <2>2, <2>3 DEF Mids
<1>18. Tokens(r, Q, n)
  <2>1. Len(Q) <= n
    BY <1>1, <1>3, <1>4
  <2>2. ASSUME NEW p \in 1..Len(Q)
        PROVE  \E i \in 1..n : /\ Q[p].mid = r.inflight[i].mid
                               /\ Fits(r, Q[p], r.inflight[i].id)
    <3>1. CASE p \in 1..L
      <4>1. \A i \in 1..m : i \in 1..n
        BY <1>1
      <4> QED
        BY <1>15, <3>1, <4>1
    <3>2. ASSUME NEW k \in 1..g, p = L + k
          PROVE  \E i \in 1..n : /\ Q[p].mid = r.inflight[i].mid
                                 /\ Fits(r, Q[p], r.inflight[i].id)
      <4>1. m + k \in 1..n
        BY <1>1
      <4> QED
        BY <1>13, <1>16, <3>2, <4>1
    <3> QED
      BY <1>4, <1>14, <3>1, <3>2
  <2>3. ASSUME NEW p \in 1..Len(Q), NEW q \in 1..Len(Q), Q[p].mid = Q[q].mid
        PROVE  p = q
    <3>1. CASE p \in 1..L /\ q \in 1..L
      <4>1. P[p].mid = P[q].mid
        BY <1>4, <2>3, <3>1
      <4> QED
        BY <3>1, <4>1 DEF Tokens, L, P
    <3>2. ASSUME NEW k \in 1..g, NEW l \in 1..g, p = L + k, q = L + l
          PROVE  p = q
      <4>1. r.inflight[m + k].mid = r.inflight[m + l].mid
        BY <1>13, <2>3, <3>2
      <4>2. m + k \in 1..n /\ m + l \in 1..n /\ k \in Nat /\ l \in Nat
        BY <1>1
      <4>3. m + k = m + l
        BY <1>12, <4>1, <4>2 DEF Mids
      <4> QED
        BY <1>1, <3>2, <4>2, <4>3
    <3>3. /\ ~(p \in 1..L /\ \E k \in 1..g : q = L + k)
          /\ ~(q \in 1..L /\ \E k \in 1..g : p = L + k)
      BY <1>17, <2>3
    <3>4. /\ p \in 1..L \/ \E k \in 1..g : p = L + k
          /\ q \in 1..L \/ \E k \in 1..g : q = L + k
      BY <1>4, <1>14
    <3> QED
      BY <3>1, <3>2, <3>3, <3>4
  <2> QED
    BY <2>1, <2>2, <2>3 DEF Tokens
<1>19. Ages(r, Q, Len(a), n)
  <2>1. ASSUME NEW i \in 1..m
        PROVE  /\ \A p \in 1..Len(Q) : Q[p].mid = r.inflight[i].mid =>
                    New(i) + p <= IF FirstPass(Q[p]) THEN n ELSE MaxInflight + n - 1
               /\ (\A p \in 1..Len(Q) : Q[p].mid # r.inflight[i].mid) =>
                    New(i) + Len(a) + 1 <= MaxInflight + n - 1
    <3>1. /\ \A p \in 1..L : P[p].mid = s.inflight[i].mid =>
               Old(i) + p <= IF FirstPass(P[p]) THEN m ELSE MaxInflight + m - 1
          /\ (\A p \in 1..L : P[p].mid # s.inflight[i].mid) =>
               Old(i) + Len(a) + 1 <= MaxInflight + m - 1
      BY DEF Ages, L, P, Old
    <3>2. Old(i) \in Nat /\ New(i) = Old(i) + g /\ r.inflight[i].mid = s.inflight[i].mid
      BY <1>6, <1>7
    <3>3. ASSUME NEW p \in 1..Len(Q), Q[p].mid = r.inflight[i].mid
          PROVE  New(i) + p <= IF FirstPass(Q[p]) THEN n ELSE MaxInflight + n - 1
      <4>1. p \in 1..L
        <5>1. ASSUME NEW k \in 1..g, p = L + k
              PROVE  FALSE
          <6>1. r.inflight[m + k].mid = r.inflight[i].mid
            BY <1>13, <3>3, <5>1
          <6>2. i \in 1..n /\ m + k \in 1..n /\ i # m + k
            BY <1>1
          <6> QED
            BY <1>12, <6>1, <6>2 DEF Mids
        <5> QED
          BY <1>4, <1>14, <5>1
      <4>2. Old(i) + p <= IF FirstPass(Q[p]) THEN m ELSE MaxInflight + m - 1
        BY <1>4, <3>1, <3>2, <3>3, <4>1
      <4>3. p \in Nat
        BY <4>1
      <4> QED
        BY <1>1, <3>2, <4>2, <4>3
    <3>4. ASSUME \A p \in 1..Len(Q) : Q[p].mid # r.inflight[i].mid
          PROVE  New(i) + Len(a) + 1 <= MaxInflight + n - 1
      <4>1. \A p \in 1..L : p \in 1..Len(Q)
        BY <1>1, <1>3, <1>4
      <4>2. \A p \in 1..L : P[p].mid # s.inflight[i].mid
        BY <1>4, <3>2, <3>4, <4>1
      <4> QED
        BY <1>1, <1>3, <3>1, <3>2, <4>2
    <3> QED
      BY <3>3, <3>4
  <2>2. ASSUME NEW k \in 1..g
        PROVE  /\ \A p \in 1..Len(Q) : Q[p].mid = r.inflight[m + k].mid =>
                    New(m + k) + p <= IF FirstPass(Q[p]) THEN n ELSE MaxInflight + n - 1
               /\ \E p \in 1..Len(Q) : Q[p].mid = r.inflight[m + k].mid
    <3>1. L + k \in 1..Len(Q) /\ Q[L + k].mid = r.inflight[m + k].mid
      BY <1>1, <1>3, <1>4, <1>13
    <3>2. ASSUME NEW p \in 1..Len(Q), Q[p].mid = r.inflight[m + k].mid
          PROVE  New(m + k) + p <= IF FirstPass(Q[p]) THEN n ELSE MaxInflight + n - 1
      <4>1. p = L + k
        BY <1>18, <3>1, <3>2 DEF Tokens
      <4> DEFINE v == New(m + k) + p
      <4>2. New(m + k) = g - k
        BY <1>8
      <4>3. v <= n /\ v \in Int /\ n <= MaxInflight + n - 1
        BY <1>1, <1>3, <4>1, <4>2
      <4> HIDE DEF v
      <4>4. v <= MaxInflight + n - 1
        BY ONLY <1>1, <4>3
      <4>5. v <= IF FirstPass(Q[p]) THEN n ELSE MaxInflight + n - 1
        BY ONLY <4>3, <4>4
      <4> QED
        BY <4>5 DEF v
    <3> QED
      BY <3>1, <3>2
  <2>3. ASSUME NEW i \in 1..n
        PROVE  /\ \A p \in 1..Len(Q) : Q[p].mid = r.inflight[i].mid =>
                    New(i) + p <= IF FirstPass(Q[p]) THEN n ELSE MaxInflight + n - 1
               /\ (\A p \in 1..Len(Q) : Q[p].mid # r.inflight[i].mid) =>
                    New(i) + Len(a) + 1 <= MaxInflight + n - 1
    BY <1>9, <2>1, <2>2
  <2> QED
    BY <2>3 DEF Ages, New
<1>20. ASSUME Covered(s, P, m)
       PROVE  Covered(r, Q, n)
  <2>1. ASSUME NEW i \in 1..m
        PROVE  \E p \in 1..Len(Q) : Q[p].mid = r.inflight[i].mid
    <3>1. PICK p \in 1..L : P[p].mid = s.inflight[i].mid
      BY <1>20 DEF Covered, L
    <3>2. p \in 1..Len(Q) /\ Q[p].mid = r.inflight[i].mid
      BY <1>1, <1>3, <1>4, <1>7, <3>1
    <3> QED
      BY <3>2
  <2>2. ASSUME NEW k \in 1..g
        PROVE  \E p \in 1..Len(Q) : Q[p].mid = r.inflight[m + k].mid
    <3>1. L + k \in 1..Len(Q)
      BY <1>1, <1>3, <1>4
    <3> QED
      BY <1>13, <3>1
  <2> QED
    BY <1>9, <2>1, <2>2 DEF Covered
<1> QED
  BY <1>12, <1>18, <1>19, <1>20 DEF r, n, P, Q

\* The first answer is read.
LEMMA PipeHead ==
  ASSUME NEW a \in Seq(AnswerPacket), a # <<>>, NEW s \in Sender
  PROVE  /\ Len(a) \in Nat \ {0} /\ Len(Tail(a)) = Len(a) - 1
         /\ Tail(a) \in Seq(AnswerPacket) /\ Head(a) \in AnswerPacket
         /\ Len(Pipe(a, s)) \in Nat \ {0}
         /\ Pipe(a, s)[1] = Head(a)
         /\ Len(Pipe(Tail(a), s)) = Len(Pipe(a, s)) - 1
         /\ \A p \in 1..(Len(Pipe(a, s)) - 1) : Pipe(Tail(a), s)[p] = Pipe(a, s)[p + 1]
<1> DEFINE b == Tail(a)
           P == Pipe(a, s)
           Q == Pipe(b, s)
           c == Len(a)
           l == Len(s.packets)
<1>1. /\ b \in Seq(AnswerPacket) /\ Head(a) \in AnswerPacket /\ Len(b) = c - 1
      /\ \A i \in 1..Len(b) : b[i] = a[i + 1]
  BY HeadTailProperties
<1>2. c \in Nat \ {0} /\ Head(a) = a[1]
  BY EmptySeq
<1> HIDE DEF b, P, Q
<1>3. /\ l \in Nat /\ Len(P) = c + l
      /\ \A i \in 1..c : P[i] = a[i]
      /\ \A k \in 1..l : P[c + k] = s.packets[k]
  BY PipeDoes DEF P
<1>4. /\ Len(Q) = Len(b) + l
      /\ \A i \in 1..Len(b) : Q[i] = b[i]
      /\ \A k \in 1..l : Q[Len(b) + k] = s.packets[k]
  BY <1>1, PipeDoes DEF Q
<1> HIDE DEF c, l
<1>5. Len(Q) = Len(P) - 1 /\ Len(P) \in Nat \ {0} /\ P[1] = Head(a)
  BY <1>1, <1>2, <1>3, <1>4
<1>6. ASSUME NEW p \in 1..(Len(P) - 1)
      PROVE  Q[p] = P[p + 1]
  <2>1. p \in Nat /\ 1 <= p /\ p <= c + l - 1
    BY <1>2, <1>3
  <2>2. CASE p <= c - 1
    <3>1. p \in 1..Len(b) /\ p + 1 \in 1..c
      BY <1>1, <1>2, <2>1, <2>2
    <3> QED
      BY <1>1, <1>3, <1>4, <3>1
  <2>3. CASE p > c - 1
    <3> DEFINE k == p - (c - 1)
    <3>1. k \in 1..l /\ p = Len(b) + k /\ p + 1 = c + k
      BY <1>1, <1>2, <1>3, <2>1, <2>3
    <3> HIDE DEF k
    <3>2. Q[Len(b) + k] = s.packets[k] /\ P[c + k] = s.packets[k]
      BY <1>3, <1>4, <3>1
    <3> QED
      BY <3>1, <3>2
  <2> QED
    BY <1>2, <2>1, <2>2, <2>3
<1> QED
  BY <1>1, <1>2, <1>5, <1>6 DEF b, P, Q, c

\* The first packet that is to be answered is read,
LEMMA PipeRead ==
  ASSUME NEW a \in Seq(AnswerPacket), NEW s \in Sender, s.packets # <<>>,
         NEW t \in Sender, t.packets = Tail(s.packets)
  PROVE  LET q == Len(a) + 1
             P == Pipe(a, s)
         IN  /\ q \in 1..Len(P) /\ Len(P) \in Nat
             /\ P[q] = Head(s.packets) /\ Head(s.packets) \in OutPacket
             /\ Len(Pipe(a, t)) = Len(P) - 1
             /\ \A p \in 1..(Len(P) - 1) :
                  Pipe(a, t)[p] = IF p < q THEN P[p] ELSE P[p + 1]
             \* and answered
             /\ \A e \in AnswerPacket :
                  /\ Append(a, e) \in Seq(AnswerPacket)
                  /\ Len(Append(a, e)) = q
                  /\ Len(Pipe(Append(a, e), t)) = Len(P)
                  /\ \A p \in 1..Len(P) :
                       Pipe(Append(a, e), t)[p] = IF p = q THEN e ELSE P[p]
<1> DEFINE c == Len(a)
           l == Len(s.packets)
           P == Pipe(a, s)
           Q == Pipe(a, t)
<1>1. s.packets \in Seq(OutPacket)
  BY DEF Sender
<1>2. /\ Len(t.packets) = l - 1 /\ Head(s.packets) \in OutPacket
      /\ \A i \in 1..(l - 1) : t.packets[i] = s.packets[i + 1]
  BY <1>1, HeadTailProperties
<1>3. l \in Nat \ {0} /\ Head(s.packets) = s.packets[1]
  BY <1>1, EmptySeq
<1> HIDE DEF P, Q
<1>4. /\ c \in Nat /\ Len(P) = c + l /\ Len(P) \in Nat
      /\ \A i \in 1..c : P[i] = a[i]
      /\ \A k \in 1..l : P[c + k] = s.packets[k]
  BY PipeDoes DEF P
<1>5. /\ Len(Q) = c + (l - 1)
      /\ \A i \in 1..c : Q[i] = a[i]
      /\ \A k \in 1..(l - 1) : Q[c + k] = t.packets[k]
  <2>1. /\ Len(Q) = Len(a) + Len(t.packets)
        /\ \A p \in 1..Len(a) : Q[p] = a[p]
        /\ \A k \in 1..Len(t.packets) : Q[Len(a) + k] = t.packets[k]
    BY ONLY a \in Seq(AnswerPacket), t \in Sender, PipeDoes DEF Q
  <2>2. Len(t.packets) = l - 1
    BY <1>2
  <2> QED
    BY ONLY <2>1, <2>2
<1>6. ASSUME NEW e \in AnswerPacket
      PROVE  /\ Append(a, e) \in Seq(AnswerPacket) /\ Len(Append(a, e)) = c + 1
             /\ Len(Pipe(Append(a, e), t)) = c + l
             /\ \A i \in 1..c : Pipe(Append(a, e), t)[i] = a[i]
             /\ Pipe(Append(a, e), t)[c + 1] = e
             /\ \A k \in 1..(l - 1) : Pipe(Append(a, e), t)[c + 1 + k] = t.packets[k]
  <2> DEFINE b == Append(a, e)
             R == Pipe(b, t)
  <2>1. /\ b \in Seq(AnswerPacket) /\ Len(b) = c + 1
        /\ \A i \in 1..c : b[i] = a[i]
        /\ b[c + 1] = e
    BY AppendProperties
  <2> HIDE DEF b, R
  <2>2. /\ Len(R) = Len(b) + Len(t.packets)
        /\ \A i \in 1..Len(b) : R[i] = b[i]
        /\ \A k \in 1..Len(t.packets) : R[Len(b) + k] = t.packets[k]
    BY <2>1, PipeDoes DEF R
  <2>3. Len(R) = c + l /\ c + 1 \in 1..(c + 1) /\ \A i \in 1..c : i \in 1..(c + 1)
    <3>1. l - 1 \in Nat /\ Len(R) = c + 1 + (l - 1)
      BY <1>2, <1>3, <2>1, <2>2
    <3>2. c \in Nat /\ l \in Nat
      BY <1>3, <1>4
    <3> HIDE DEF c, l
    <3> QED
      BY <3>1, <3>2
  <2>4. R[c + 1] = e /\ \A i \in 1..c : R[i] = a[i]
    BY <2>1, <2>2, <2>3
  <2>5. \A k \in 1..(l - 1) : R[c + 1 + k] = t.packets[k]
    BY <1>2, <2>1, <2>2
  <2> QED
    BY <2>1, <2>3, <2>4, <2>5 DEF b, R
<1> HIDE DEF c, l
<1>7. ASSUME NEW p \in 1..(c + l)
      PROVE  \/ p \in 1..c
             \/ p = c + 1
             \/ \E k \in 1..(l - 1) : p = c + 1 + k /\ k \in Nat
  <2>1. p \in 1..c \/ p = c + 1
        \/ (p - (c + 1) \in 1..(l - 1) /\ p = c + 1 + (p - (c + 1)) /\ p - (c + 1) \in Nat)
    BY <1>3, <1>4
  <2> QED
    BY <2>1
<1>8. ASSUME NEW k \in 1..(l - 1)
      PROVE  P[c + 1 + k] = t.packets[k]
  <2>1. k + 1 \in 1..l /\ c + 1 + k = c + (k + 1)
    BY <1>3, <1>4
  <2> QED
    BY <1>2, <1>4, <2>1
<1>9. P[c + 1] = Head(s.packets) /\ c + 1 \in 1..Len(P)
  BY <1>3, <1>4
<1>10. ASSUME NEW p \in 1..(Len(P) - 1)
       PROVE  Q[p] = IF p < c + 1 THEN P[p] ELSE P[p + 1]
  <2>1. CASE p \in 1..c
    <3>1. p < c + 1
      BY <1>4, <2>1
    <3> QED
      BY <1>4, <1>5, <2>1, <3>1
  <2>2. CASE p \notin 1..c
    <3> DEFINE k == p - c
    <3>1. k \in 1..(l - 1) /\ p = c + k /\ p + 1 = c + 1 + k /\ ~(p < c + 1)
      BY <1>3, <1>4, <2>2
    <3> HIDE DEF k
    <3>2. Q[c + k] = t.packets[k] /\ P[c + 1 + k] = t.packets[k]
      BY <1>5, <1>8, <3>1
    <3> QED
      BY <3>1, <3>2
  <2> QED
    BY <2>1, <2>2
<1>11. ASSUME NEW e \in AnswerPacket, NEW p \in 1..Len(P)
       PROVE  Pipe(Append(a, e), t)[p] = IF p = c + 1 THEN e ELSE P[p]
  <2> DEFINE R == Pipe(Append(a, e), t)
  <2>1. /\ \A i \in 1..c : R[i] = a[i]
        /\ R[c + 1] = e
        /\ \A k \in 1..(l - 1) : R[c + 1 + k] = t.packets[k]
    BY <1>6
  <2> HIDE DEF R
  <2>2. ASSUME p \in 1..c
        PROVE  R[p] = IF p = c + 1 THEN e ELSE P[p]
    BY <1>4, <2>1, <2>2
  <2>3. ASSUME p = c + 1
        PROVE  R[p] = IF p = c + 1 THEN e ELSE P[p]
    BY <2>1, <2>3
  <2>4. ASSUME NEW k \in 1..(l - 1), p = c + 1 + k, k \in Nat
        PROVE  R[p] = IF p = c + 1 THEN e ELSE P[p]
    BY <1>3, <1>4, <1>8, <2>1, <2>4
  <2> QED
    BY <1>4, <1>7, <2>2, <2>3, <2>4 DEF R
<1>12. Len(Q) = Len(P) - 1
  BY <1>3, <1>4, <1>5
<1> QED
  BY <1>2, <1>4, <1>6, <1>9, <1>10, <1>11, <1>12 DEF P, Q, c

\* A packet is answered: the answer takes its place.
LEMMA TokenAnswered ==
  ASSUME NEW s, NEW m \in Nat, NEW P, NEW Q, NEW q \in 1..Len(P), NEW e,
         Len(P) \in Nat, Len(Q) = Len(P),
         \A p \in 1..Len(P) : Q[p] = IF p = q THEN e ELSE P[p],
         e.mid = P[q].mid, FirstPass(e) = FirstPass(P[q]),
         \A i \in 1..m : Fits(s, P[q], s.inflight[i].id) => Fits(s, e, s.inflight[i].id),
         Tokens(s, P, m)
  PROVE  /\ Tokens(s, Q, m)
         /\ Covered(s, P, m) => Covered(s, Q, m)
         /\ \A c, d : Covered(s, P, m) /\ Ages(s, P, c, m) => Ages(s, Q, d, m)
<1>1. \A p \in 1..Len(P) : /\ Q[p].mid = P[p].mid /\ FirstPass(Q[p]) = FirstPass(P[p])
                           /\ p # q => Q[p] = P[p]
  OBVIOUS
<1>2. Q[q] = e
  OBVIOUS
<1>3. ASSUME NEW p \in 1..Len(P)
      PROVE  \E i \in 1..m : /\ Q[p].mid = s.inflight[i].mid
                             /\ Fits(s, Q[p], s.inflight[i].id)
  <2>1. PICK i \in 1..m : /\ P[p].mid = s.inflight[i].mid
                          /\ Fits(s, P[p], s.inflight[i].id)
    BY DEF Tokens
  <2>2. Fits(s, Q[p], s.inflight[i].id)
    BY <1>1, <1>2, <2>1
  <2> QED
    BY <1>1, <2>1, <2>2
<1>4. Tokens(s, Q, m)
  BY <1>1, <1>3 DEF Tokens
<1>5. Covered(s, P, m) => Covered(s, Q, m)
  BY <1>1 DEF Covered
<1>6. ASSUME NEW c, NEW d, Covered(s, P, m), Ages(s, P, c, m)
      PROVE  Ages(s, Q, d, m)
  BY <1>1, <1>5, <1>6 DEF Ages, Covered
<1> QED
  BY <1>4, <1>5, <1>6

\* A packet is refused: the other packets close up.
LEMMA TokenLost ==
  ASSUME MaxInflight > 0, NEW s \in Sender, NEW m \in 0..Len(s.inflight), Mids(s, m),
         NEW P, NEW Q, NEW q \in 1..Len(P),
         Len(P) \in Nat, Len(Q) = Len(P) - 1,
         \A p \in 1..(Len(P) - 1) : Q[p] = IF p < q THEN P[p] ELSE P[p + 1],
         Tokens(s, P, m)
  PROVE  /\ Tokens(s, Q, m)
         /\ \A c \in Nat :
               Ages(s, P, c, m) /\ q = c + 1 /\ FirstPass(P[q]) => Ages(s, Q, c, m)
<1> DEFINE L == Len(P)
           at(p) == IF p < q THEN p ELSE p + 1
<1>1. /\ L \in Nat /\ Len(Q) = L - 1 /\ m \in Nat /\ MaxInflight \in Nat \ {0} /\ q \in 1..L
      /\ MaxMid \in Nat \ {0} /\ s.lastMid \in 0..MaxMid
      /\ \A i \in 1..m : s.inflight[i].mid \in 1..MaxMid
  <2>1. m \in Nat /\ \A i \in 1..m : s.inflight[i].mid \in 1..MaxMid
    BY MidsAre
  <2>2. MaxInflight \in Nat \ {0} /\ MaxMid \in Nat \ {0}
    BY WindowIs
  <2>3. s.lastMid \in 0..MaxMid
    BY SenderFields
  <2> QED
    BY <2>1, <2>2, <2>3
<1> HIDE DEF L
<1>2. \A p \in 1..(L - 1) : Q[p] = P[at(p)] /\ at(p) \in 1..L /\ p <= at(p)
  BY <1>1 DEF L
<1>3. \A p, r \in 1..(L - 1) : at(p) = at(r) => p = r
  BY <1>1
<1>4. \A p \in 1..L : p = q \/ \E r \in 1..(L - 1) : p = at(r) /\ r <= p
  <2> SUFFICES ASSUME NEW p \in 1..L, p # q
               PROVE  \E r \in 1..(L - 1) : p = at(r) /\ r <= p
    OBVIOUS
  <2>1. CASE p < q
    <3>1. p \in 1..(L - 1) /\ p = at(p) /\ p <= p
      BY <1>1, <2>1
    <3> HIDE DEF at
    <3> QED
      BY <3>1
  <2>2. CASE p > q
    <3>1. p - 1 \in 1..(L - 1) /\ p = at(p - 1) /\ p - 1 <= p
      BY <1>1, <2>2
    <3> HIDE DEF at
    <3> QED
      BY <3>1
  <2> QED
    BY <1>1, <2>1, <2>2
<1> HIDE DEF at
<1>5. Tokens(s, Q, m)
  <2>1. Len(Q) <= m
    BY <1>1 DEF Tokens, L
  <2>2. ASSUME NEW p \in 1..(L - 1)
        PROVE  \E i \in 1..m : /\ Q[p].mid = s.inflight[i].mid
                               /\ Fits(s, Q[p], s.inflight[i].id)
    <3>1. Q[p] = P[at(p)] /\ at(p) \in 1..L
      BY <1>2
    <3>2. \E i \in 1..m : /\ P[at(p)].mid = s.inflight[i].mid
                          /\ Fits(s, P[at(p)], s.inflight[i].id)
      BY <3>1 DEF Tokens, L
    <3> QED
      BY <3>1, <3>2
  <2>3. ASSUME NEW p \in 1..(L - 1), NEW r \in 1..(L - 1), Q[p].mid = Q[r].mid
        PROVE  p = r
    <3>1. at(p) = at(r)
      <4>1. \A x, y \in 1..L : P[x].mid = P[y].mid => x = y
        BY DEF Tokens, L
      <4>2. /\ Q[p] = P[at(p)] /\ at(p) \in 1..L
            /\ Q[r] = P[at(r)] /\ at(r) \in 1..L
        BY <1>2
      <4> QED
        BY ONLY <2>3, <4>1, <4>2
    <3> QED
      BY <1>3, <3>1
  <2> QED
    BY <1>1, <2>1, <2>2, <2>3 DEF Tokens
<1>6. ASSUME NEW c \in Nat, Ages(s, P, c, m), q = c + 1, FirstPass(P[q])
      PROVE  Ages(s, Q, c, m)
  <2> SUFFICES ASSUME NEW i \in 1..m
               PROVE  LET a == Age(s.lastMid, s.inflight[i].mid)
                      IN  /\ \A p \in 1..Len(Q) : Q[p].mid = s.inflight[i].mid =>
                               a + p <= IF FirstPass(Q[p]) THEN m ELSE MaxInflight + m - 1
                          /\ (\A p \in 1..Len(Q) : Q[p].mid # s.inflight[i].mid) =>
                               a + c + 1 <= MaxInflight + m - 1
    BY DEF Ages
  <2> DEFINE a == Age(s.lastMid, s.inflight[i].mid)
  <2>1. a \in 0..(MaxMid - 1)
    BY <1>1, AgeTells
  <2>2. /\ \A p \in 1..L : P[p].mid = s.inflight[i].mid =>
             a + p <= IF FirstPass(P[p]) THEN m ELSE MaxInflight + m - 1
        /\ (\A p \in 1..L : P[p].mid # s.inflight[i].mid) =>
             a + c + 1 <= MaxInflight + m - 1
    BY <1>6 DEF Ages, L
  <2> HIDE DEF a
  <2>3. ASSUME NEW p \in 1..(L - 1), Q[p].mid = s.inflight[i].mid
        PROVE  a + p <= IF FirstPass(Q[p]) THEN m ELSE MaxInflight + m - 1
    <3>1. a + at(p) <= IF FirstPass(Q[p]) THEN m ELSE MaxInflight + m - 1
      BY <1>2, <2>2, <2>3
    <3>2. at(p) \in Nat /\ p \in Nat /\ p <= at(p)
      BY <1>2
    <3> QED
      BY <1>1, <2>1, <3>1, <3>2
  <2>4. ASSUME \A p \in 1..(L - 1) : Q[p].mid # s.inflight[i].mid
        PROVE  a + c + 1 <= MaxInflight + m - 1
    <3>1. CASE P[q].mid = s.inflight[i].mid
      <4>1. a + q <= m
        BY <1>1, <1>6, <2>2, <3>1
      <4> QED
        BY <1>1, <1>6, <2>1, <4>1
    <3>2. CASE P[q].mid # s.inflight[i].mid
      <4>1. \A p \in 1..L : P[p].mid # s.inflight[i].mid
        BY <1>2, <1>4, <2>4, <3>2
      <4> QED
        BY <2>2, <4>1
    <3> QED
      BY <3>1, <3>2
  <2> QED
    BY <1>1, <2>3, <2>4 DEF a
<1> QED
  BY <1>5, <1>6

\* What is known of the first messages inflight, when others come behind them
LEMMA Extended ==
  ASSUME NEW s, NEW t, NEW m \in Nat, NEW P, NEW c, t.lastMid = s.lastMid,
         \A i \in 1..m : /\ t.inflight[i] = s.inflight[i]
                         /\ t.state[s.inflight[i].id] = s.state[s.inflight[i].id]
  PROVE  /\ Mids(s, m) => Mids(t, m)
         /\ Tokens(s, P, m) => Tokens(t, P, m)
         /\ Covered(s, P, m) => Covered(t, P, m)
         /\ Ages(s, P, c, m) => Ages(t, P, c, m)
<1>1. \A p \in 1..Len(P), i \in 1..m :
        Fits(s, P[p], s.inflight[i].id) => Fits(t, P[p], t.inflight[i].id)
  BY DEF Fits
<1>2. Mids(s, m) => Mids(t, m)
  BY DEF Mids
<1>3. ASSUME Tokens(s, P, m)
      PROVE  Tokens(t, P, m)
  <2>1. ASSUME NEW p \in 1..Len(P)
        PROVE  \E i \in 1..m : /\ P[p].mid = t.inflight[i].mid
                               /\ Fits(t, P[p], t.inflight[i].id)
    <3>1. PICK i \in 1..m : /\ P[p].mid = s.inflight[i].mid
                            /\ Fits(s, P[p], s.inflight[i].id)
      BY <1>3 DEF Tokens
    <3> QED
      BY <1>1, <3>1
  <2> QED
    BY <1>3, <2>1 DEF Tokens
<1>4. ASSUME Covered(s, P, m)
      PROVE  Covered(t, P, m)
  <2>1. ASSUME NEW i \in 1..m
        PROVE  \E p \in 1..Len(P) : P[p].mid = t.inflight[i].mid
    <3>1. t.inflight[i] = s.inflight[i]
      OBVIOUS
    <3>2. \E p \in 1..Len(P) : P[p].mid = s.inflight[i].mid
      BY ONLY <1>4, <2>1 DEF Covered
    <3> QED
      BY ONLY <3>1, <3>2
  <2> QED
    BY ONLY <2>1 DEF Covered
<1>5. Ages(s, P, c, m) => Ages(t, P, c, m)
  <2> SUFFICES ASSUME Ages(s, P, c, m) PROVE Ages(t, P, c, m)
    OBVIOUS
  <2>1. ASSUME NEW i \in 1..m
        PROVE  Age(t.lastMid, t.inflight[i].mid) = Age(s.lastMid, s.inflight[i].mid)
    OBVIOUS
  <2>2. \A i \in 1..m : t.inflight[i].mid = s.inflight[i].mid
    OBVIOUS
  <2> QED
    BY ONLY <2>1, <2>2, Ages(s, P, c, m) DEF Ages
<1> QED
  BY <1>2, <1>3, <1>4, <1>5

\* PUBREC is answered: PUBREL goes behind all others, into the second window.
LEMMA TokenMoved ==
  ASSUME MaxInflight > 0, NEW s \in Sender, NEW m \in 0..Len(s.inflight),
         m <= MaxInflight, Mids(s, m), Lists(s, m), NEW x \in 1..m,
         NEW t, t.inflight = s.inflight, t.lastMid = s.lastMid,
         t.state = [s.state EXCEPT ![s.inflight[x].id] = "wait_for_pubcomp"],
         NEW P, Len(P) \in Nat \ {0}, Tokens(s, P, m),
         P[1].type = "PUBREC", P[1].mid = s.inflight[x].mid,
         NEW Q, Len(Q) = Len(P), \A p \in 1..(Len(P) - 1) : Q[p] = P[p + 1],
         Q[Len(P)] = Packet("PUBREL", P[1].mid)
  PROVE  /\ Tokens(t, Q, m)
         /\ Covered(s, P, m) => Covered(t, Q, m)
         /\ \A c \in Nat \ {0} : Ages(s, P, c, m) => Ages(t, Q, c - 1, m)
<1> DEFINE L == Len(P)
           X == s.inflight[x].id
<1>1. /\ L \in Nat \ {0} /\ Len(Q) = L /\ m \in Nat /\ MaxInflight \in Nat \ {0}
      /\ MaxMid \in Nat \ {0} /\ s.lastMid \in 0..MaxMid
      /\ \A i \in 1..m : s.inflight[i].mid \in 1..MaxMid /\ s.inflight[i].id \in Ids
      /\ s.state \in [Ids -> States]
  <2>1. /\ m \in Nat
        /\ \A i \in 1..m : s.inflight[i].mid \in 1..MaxMid /\ s.inflight[i].id \in Ids
    BY MidsAre
  <2>2. MaxInflight \in Nat \ {0} /\ MaxMid \in Nat \ {0}
    BY WindowIs
  <2>3. s.lastMid \in 0..MaxMid /\ s.state \in [Ids -> States]
    BY SenderFields
  <2> QED
    BY <2>1, <2>2, <2>3
<1>2. /\ L <= m
      /\ \A p \in 1..L : \E i \in 1..m : /\ P[p].mid = s.inflight[i].mid
                                         /\ Fits(s, P[p], s.inflight[i].id)
      /\ \A p, r \in 1..L : P[p].mid = P[r].mid => p = r
  BY DEF Tokens
<1>3. /\ \A i \in 1..m : s.inflight[i].id = X => i = x
      /\ \A i \in 1..m : s.inflight[i].mid = s.inflight[x].mid => i = x
  BY DEF Lists, Mids
<1>4. X \in Ids /\ t.state[X] = "wait_for_pubcomp"
      /\ \A id \in Ids : id # X => t.state[id] = s.state[id]
  BY <1>1
<1> HIDE DEF L, X
<1>5. ASSUME NEW p \in 1..L
      PROVE  \/ p = L /\ Q[p] = Packet("PUBREL", P[1].mid) /\ Q[p].mid = P[1].mid
                /\ ~FirstPass(Q[p])
             \/ /\ p \in 1..(L - 1) /\ p + 1 \in 1..L /\ Q[p] = P[p + 1]
                /\ P[p + 1].mid # P[1].mid
  <2>1. CASE p = L
    BY <2>1 DEF Packet, FirstPass, L
  <2>2. CASE p # L
    <3>1. p \in 1..(L - 1) /\ p + 1 \in 1..L /\ p + 1 # 1 /\ 1 \in 1..L
      BY <1>1, <2>2
    <3>2. Q[p] = P[p + 1]
      BY <3>1 DEF L
    <3> QED
      BY <1>2, <3>1, <3>2
  <2> QED
    BY <2>1, <2>2
<1>6. Tokens(t, Q, m)
  <2>1. ASSUME NEW p \in 1..L
        PROVE  \E i \in 1..m : /\ Q[p].mid = t.inflight[i].mid
                               /\ Fits(t, Q[p], t.inflight[i].id)
    <3>1. CASE p \in 1..(L - 1) /\ p + 1 \in 1..L /\ Q[p] = P[p + 1]
               /\ P[p + 1].mid # P[1].mid
      <4>1. PICK i \in 1..m : /\ P[p + 1].mid = s.inflight[i].mid
                              /\ Fits(s, P[p + 1], s.inflight[i].id)
        BY <1>2, <3>1
      <4>2. i # x
        BY <3>1, <4>1
      <4>3. s.inflight[i].id # X /\ s.inflight[i].id \in Ids
        BY <1>1, <1>3, <4>2
      <4>4. Fits(t, P[p + 1], s.inflight[i].id)
        BY <1>4, <4>1, <4>3 DEF Fits
      <4> QED
        BY <3>1, <4>1, <4>4
    <3>2. CASE Q[p] = Packet("PUBREL", P[1].mid)
      <4>1. Q[p].mid = s.inflight[x].mid
        BY <3>2 DEF Packet
      <4>2. Fits(t, Q[p], X)
        BY <1>4, <3>2 DEF Fits, Packet
      <4> QED
        BY <4>1, <4>2 DEF X
    <3> QED
      BY <1>5, <3>1, <3>2
  <2>2. ASSUME NEW p \in 1..L, NEW r \in 1..L, Q[p].mid = Q[r].mid
        PROVE  p = r
    <3>1. CASE /\ p \in 1..(L - 1) /\ p + 1 \in 1..L /\ Q[p] = P[p + 1]
               /\ r \in 1..(L - 1) /\ r + 1 \in 1..L /\ Q[r] = P[r + 1]
      <4>1. p + 1 = r + 1
        BY ONLY <1>2, <2>2, <3>1
      <4> QED
        BY ONLY <1>1, <2>2, <4>1
    <3> QED
      BY <1>5, <2>2, <3>1
  <2> QED
    BY <1>1, <1>2, <2>1, <2>2 DEF Tokens
<1>7. ASSUME NEW i \in 1..m, NEW p \in 1..L, P[p].mid = s.inflight[i].mid
      PROVE  \E r \in 1..L : Q[r].mid = t.inflight[i].mid
  <2>1. CASE p = 1
    <3>1. L \in 1..L /\ Q[L].mid = P[1].mid
      BY <1>1, <1>5 DEF Packet
    <3> QED
      BY <1>7, <2>1, <3>1
  <2>2. CASE p # 1
    <3>1. p - 1 \in 1..(L - 1) /\ p - 1 \in 1..L /\ p - 1 + 1 = p /\ p - 1 # L
      BY <1>1, <2>2
    <3>2. Q[p - 1] = P[p]
      BY <1>5, <3>1
    <3> QED
      BY <1>7, <3>1, <3>2
  <2> QED
    BY <2>1, <2>2
<1>8. Covered(s, P, m) => Covered(t, Q, m)
  BY <1>1, <1>7 DEF Covered, L
<1>9. ASSUME NEW c \in Nat \ {0}, Ages(s, P, c, m)
      PROVE  Ages(t, Q, c - 1, m)
  <2> SUFFICES ASSUME NEW i \in 1..m
               PROVE  LET a == Age(t.lastMid, t.inflight[i].mid)
                      IN  /\ \A p \in 1..Len(Q) : Q[p].mid = t.inflight[i].mid =>
                               a + p <= IF FirstPass(Q[p]) THEN m ELSE MaxInflight + m - 1
                          /\ (\A p \in 1..Len(Q) : Q[p].mid # t.inflight[i].mid) =>
                               a + (c - 1) + 1 <= MaxInflight + m - 1
    BY DEF Ages
  <2> DEFINE a == Age(s.lastMid, s.inflight[i].mid)
  <2>1. a \in 0..(MaxMid - 1)
    BY <1>1, AgeTells
  <2>2. /\ \A p \in 1..L : P[p].mid = s.inflight[i].mid =>
             a + p <= IF FirstPass(P[p]) THEN m ELSE MaxInflight + m - 1
        /\ (\A p \in 1..L : P[p].mid # s.inflight[i].mid) =>
             a + c + 1 <= MaxInflight + m - 1
    BY <1>9 DEF Ages, L
  <2> HIDE DEF a
  <2>3. ASSUME NEW p \in 1..L, Q[p].mid = s.inflight[i].mid
        PROVE  a + p <= IF FirstPass(Q[p]) THEN m ELSE MaxInflight + m - 1
    <3>1. CASE p \in 1..(L - 1) /\ p + 1 \in 1..L /\ Q[p] = P[p + 1]
      <4> DEFINE y == IF FirstPass(Q[p]) THEN m ELSE MaxInflight + m - 1
      <4>1. a + (p + 1) <= y
        BY <2>2, <2>3, <3>1
      <4>2. m \in Nat /\ MaxInflight \in Nat /\ a \in Nat /\ p \in Nat
        BY <1>1, <2>1
      <4>3. y \in Int
        BY ONLY <4>2
      <4> HIDE DEF y
      <4>4. a + p <= y
        BY ONLY <4>1, <4>2, <4>3
      <4> QED
        BY ONLY <4>4 DEF y
    <3>2. CASE p = L /\ Q[p].mid = P[1].mid /\ ~FirstPass(Q[p])
      <4>1. 1 \in 1..L /\ P[1].mid = s.inflight[i].mid /\ FirstPass(P[1])
        BY <1>1, <2>3, <3>2 DEF FirstPass
      <4>2. a + 1 <= m
        BY <2>2, <4>1
      <4> QED
        BY <1>1, <1>2, <2>1, <3>2, <4>2
    <3> QED
      BY <1>5, <3>1, <3>2
  <2>4. ASSUME \A p \in 1..L : Q[p].mid # s.inflight[i].mid
        PROVE  a + (c - 1) + 1 <= MaxInflight + m - 1
    <3>1. \A p \in 1..L : P[p].mid # s.inflight[i].mid
      BY <1>7, <2>4
    <3>2. a + c + 1 <= MaxInflight + m - 1
      BY <2>2, <3>1
    <3>3. c \in Nat /\ a \in Nat /\ m \in Nat /\ MaxInflight \in Nat
      BY <1>1, <2>1
    <3> QED
      BY <3>2, <3>3
  <2> QED
    BY <1>1, <2>3, <2>4 DEF a
<1> QED
  BY <1>6, <1>8, <1>9

\* The x-th of m messages inflight has left.
Leaves(s, m, x, t) ==
  /\ t.lastMid = s.lastMid
  /\ \A i \in 1..(m - 1) :
       t.inflight[i] = IF i < x THEN s.inflight[i] ELSE s.inflight[i + 1]
  /\ t.state = [s.state EXCEPT ![s.inflight[x].id] = "none"]

\* The first packet has.
Behind(P, Q) ==
  /\ Len(P) \in Nat \ {0} /\ Len(Q) = Len(P) - 1
  /\ \A p \in 1..(Len(P) - 1) : Q[p] = P[p + 1]

\* PUBACK or PUBCOMP is read: its message and the packet leave together.
LEMMA TokenSettled ==
  ASSUME MaxInflight > 0, NEW s \in Sender, NEW m \in 1..Len(s.inflight),
         m = Len(s.inflight), Mids(s, m), Lists(s, m),
         NEW x \in 1..m, NEW t, Leaves(s, m, x, t),
         NEW P, Tokens(s, P, m), P[1].mid = s.inflight[x].mid, NEW Q, Behind(P, Q)
  PROVE  /\ Lists(t, m - 1) /\ Mids(t, m - 1) /\ Tokens(t, Q, m - 1)
         /\ Covered(s, P, m) => Covered(t, Q, m - 1)
         /\ \A c \in Nat \ {0} : Ages(s, P, c, m) => Ages(t, Q, c - 1, m - 1)
<1>0. /\ t.lastMid = s.lastMid
      /\ \A i \in 1..(m - 1) :
           t.inflight[i] = IF i < x THEN s.inflight[i] ELSE s.inflight[i + 1]
      /\ t.state = [s.state EXCEPT ![s.inflight[x].id] = "none"]
      /\ Len(P) \in Nat \ {0} /\ Len(Q) = Len(P) - 1
      /\ \A p \in 1..(Len(P) - 1) : Q[p] = P[p + 1]
  BY DEF Leaves, Behind
<1> DEFINE L == Len(P)
           X == s.inflight[x].id
           at(i) == IF i < x THEN i ELSE i + 1
<1>1. /\ L \in Nat \ {0} /\ Len(Q) = L - 1 /\ m \in Nat \ {0} /\ x \in 1..m
      /\ MaxInflight \in Nat \ {0} /\ MaxMid \in Nat \ {0} /\ s.lastMid \in 0..MaxMid
      /\ \A i \in 1..m : s.inflight[i].mid \in 1..MaxMid /\ s.inflight[i].id \in Ids
      /\ s.state \in [Ids -> States]
  <2>1. m \in Nat \ {0} /\ m \in 0..Len(s.inflight)
    BY InflightType
  <2>2. \A i \in 1..m : s.inflight[i].mid \in 1..MaxMid /\ s.inflight[i].id \in Ids
    BY <2>1, MidsAre
  <2>3. MaxInflight \in Nat \ {0} /\ MaxMid \in Nat \ {0}
    BY WindowIs
  <2>4. s.lastMid \in 0..MaxMid /\ s.state \in [Ids -> States]
    BY SenderFields
  <2>5. L \in Nat \ {0} /\ Len(Q) = L - 1 /\ x \in 1..m
    BY <1>0
  <2> QED
    BY <2>1, <2>2, <2>3, <2>4, <2>5
<1>2. /\ L <= m
      /\ \A p \in 1..L : \E i \in 1..m : /\ P[p].mid = s.inflight[i].mid
                                         /\ Fits(s, P[p], s.inflight[i].id)
      /\ \A p, r \in 1..L : P[p].mid = P[r].mid => p = r
  BY DEF Tokens
<1>3. /\ \A i, j \in 1..m : s.inflight[i].id = s.inflight[j].id => i = j
      /\ \A i \in 1..m : s.inflight[i].id \in Begun(s)
      /\ \A i, j \in 1..m : s.inflight[i].mid = s.inflight[j].mid => i = j
      /\ \A i \in 1..m : s.inflight[i].mid # 0
  BY DEF Lists, Mids
<1>4. X \in Ids /\ \A id \in Ids : id # X => t.state[id] = s.state[id]
  BY <1>0, <1>1
<1>5. /\ \A i \in 1..(m - 1) : t.inflight[i] = s.inflight[at(i)]
      /\ \A i \in 1..(m - 1) : at(i) \in 1..m /\ at(i) # x
      /\ \A i, j \in 1..(m - 1) : at(i) = at(j) => i = j
  BY <1>0, <1>1
<1>6. \A i \in 1..m : i = x \/ \E j \in 1..(m - 1) : i = at(j)
  <2> SUFFICES ASSUME NEW i \in 1..m, i # x
               PROVE  \E j \in 1..(m - 1) : i = at(j)
    OBVIOUS
  <2>1. CASE i < x
    <3>1. i \in 1..(m - 1) /\ i = at(i)
      BY <1>1, <2>1
    <3> HIDE DEF at
    <3> QED
      BY <3>1
  <2>2. CASE i > x
    <3>1. i - 1 \in 1..(m - 1) /\ i = at(i - 1)
      BY <1>1, <2>2
    <3> HIDE DEF at
    <3> QED
      BY <3>1
  <2>3. i < x \/ i > x
    <3>1. i \in Nat /\ x \in Nat
      BY <1>1
    <3> QED
      BY <3>1
  <2> QED
    BY <2>1, <2>2, <2>3
<1> HIDE DEF L, X, at
<1>7. ASSUME NEW i \in 1..(m - 1)
      PROVE  /\ t.inflight[i].id \in Ids /\ t.inflight[i].id # X
             /\ t.inflight[i].id \in Begun(s) /\ t.inflight[i].mid # 0
             /\ t.state[t.inflight[i].id] = s.state[t.inflight[i].id]
  <2>1. at(i) \in 1..m /\ at(i) # x /\ t.inflight[i] = s.inflight[at(i)]
    BY <1>5
  <2>2. /\ t.inflight[i].id \in Ids /\ t.inflight[i].id \in Begun(s)
        /\ t.inflight[i].mid # 0
    BY <1>1, <1>3, <2>1
  <2>3. t.inflight[i].id # X
    BY <1>1, <1>3, <2>1 DEF X
  <2> QED
    BY <1>4, <2>2, <2>3
<1>8. Lists(t, m - 1)
  <2>1. ASSUME NEW i \in 1..(m - 1)
        PROVE  t.inflight[i].id \in Begun(t)
    BY <1>7 DEF Begun
  <2>2. ASSUME NEW i \in 1..(m - 1), NEW j \in 1..(m - 1),
               t.inflight[i].id = t.inflight[j].id
        PROVE  i = j
    <3>0. /\ at(i) \in 1..m /\ t.inflight[i] = s.inflight[at(i)]
          /\ at(j) \in 1..m /\ t.inflight[j] = s.inflight[at(j)]
      BY <1>5
    <3>1. at(i) = at(j)
      BY <1>3, <2>2, <3>0
    <3> QED
      BY <1>5, <3>1
  <2> QED
    BY <2>1, <2>2 DEF Lists
<1>9. Mids(t, m - 1)
  <2>1. ASSUME NEW i \in 1..(m - 1), NEW j \in 1..(m - 1),
               t.inflight[i].mid = t.inflight[j].mid
        PROVE  i = j
    <3>0. /\ at(i) \in 1..m /\ t.inflight[i] = s.inflight[at(i)]
          /\ at(j) \in 1..m /\ t.inflight[j] = s.inflight[at(j)]
      BY <1>5
    <3>1. at(i) = at(j)
      BY <1>3, <2>1, <3>0
    <3> QED
      BY <1>5, <3>1
  <2> QED
    BY <1>7, <2>1 DEF Mids
<1>10. \A p \in 1..(L - 1) : /\ p + 1 \in 1..L /\ Q[p] = P[p + 1]
                             /\ P[p + 1].mid # s.inflight[x].mid
  <2>1. \A p \in 1..(L - 1) : p + 1 \in 1..L /\ p + 1 # 1 /\ 1 \in 1..L
    BY <1>1
  <2>2. \A p \in 1..(L - 1) : Q[p] = P[p + 1]
    BY <1>0 DEF L
  <2> QED
    BY <1>2, <2>1, <2>2
<1>11. Tokens(t, Q, m - 1)
  <2>1. ASSUME NEW p \in 1..(L - 1)
        PROVE  \E i \in 1..(m - 1) : /\ Q[p].mid = t.inflight[i].mid
                                     /\ Fits(t, Q[p], t.inflight[i].id)
    <3>1. PICK i \in 1..m : /\ P[p + 1].mid = s.inflight[i].mid
                            /\ Fits(s, P[p + 1], s.inflight[i].id)
      BY <1>2, <1>10
    <3>2. i # x
      BY <1>10, <3>1
    <3>3. PICK j \in 1..(m - 1) : i = at(j)
      BY <1>6, <3>2
    <3>4. t.inflight[j] = s.inflight[i]
      BY <1>5, <3>3
    <3>5. Q[p].mid = t.inflight[j].mid /\ Fits(s, Q[p], t.inflight[j].id)
      BY <1>10, <3>1, <3>4
    <3>6. Fits(t, Q[p], t.inflight[j].id)
      BY <1>7, <3>5 DEF Fits
    <3> QED
      BY <3>5, <3>6
  <2>2. ASSUME NEW p \in 1..(L - 1), NEW r \in 1..(L - 1), Q[p].mid = Q[r].mid
        PROVE  p = r
    <3>1. p + 1 = r + 1
      BY <1>2, <1>10, <2>2
    <3> QED
      BY <1>1, <3>1
  <2>3. L - 1 <= m - 1
    BY <1>1, <1>2
  <2> QED
    BY <1>1, <2>1, <2>2, <2>3 DEF Tokens
<1>12. ASSUME NEW i \in 1..(m - 1), NEW p \in 1..L, P[p].mid = t.inflight[i].mid
       PROVE  \E r \in 1..(L - 1) : Q[r].mid = t.inflight[i].mid
  <2>1. p # 1
    BY <1>3, <1>5, <1>12
  <2>2. p - 1 \in 1..(L - 1) /\ p - 1 + 1 = p
    BY <1>1, <2>1
  <2>3. Q[p - 1] = P[p]
    BY <1>10, <2>2
  <2> QED
    BY <1>12, <2>2, <2>3
<1>13. ASSUME Covered(s, P, m)
       PROVE  Covered(t, Q, m - 1)
  <2> SUFFICES ASSUME NEW i \in 1..(m - 1)
               PROVE  \E r \in 1..(L - 1) : Q[r].mid = t.inflight[i].mid
    BY <1>1 DEF Covered
  <2>1. \E p \in 1..L : P[p].mid = t.inflight[i].mid
    <3>1. at(i) \in 1..m /\ t.inflight[i] = s.inflight[at(i)]
      BY <1>5
    <3>2. \E p \in 1..L : P[p].mid = s.inflight[at(i)].mid
      BY <1>13, <3>1 DEF Covered, L
    <3> QED
      BY <3>1, <3>2
  <2> QED
    BY <1>12, <2>1
<1>14. ASSUME NEW c \in Nat \ {0}, Ages(s, P, c, m)
       PROVE  Ages(t, Q, c - 1, m - 1)
  <2> SUFFICES ASSUME NEW i \in 1..(m - 1)
               PROVE  LET a == Age(t.lastMid, t.inflight[i].mid)
                      IN  /\ \A p \in 1..Len(Q) : Q[p].mid = t.inflight[i].mid =>
                               a + p <= IF FirstPass(Q[p]) THEN m - 1
                                        ELSE MaxInflight + (m - 1) - 1
                          /\ (\A p \in 1..Len(Q) : Q[p].mid # t.inflight[i].mid) =>
                               a + (c - 1) + 1 <= MaxInflight + (m - 1) - 1
    BY DEF Ages
  <2> DEFINE a == Age(s.lastMid, t.inflight[i].mid)
  <2>1. a \in 0..(MaxMid - 1)
    <3>1. t.inflight[i].mid \in 1..MaxMid
      BY <1>1, <1>5
    <3> QED
      BY <1>1, <3>1, AgeTells
  <2>2. /\ \A p \in 1..L : P[p].mid = t.inflight[i].mid =>
             a + p <= IF FirstPass(P[p]) THEN m ELSE MaxInflight + m - 1
        /\ (\A p \in 1..L : P[p].mid # t.inflight[i].mid) =>
             a + c + 1 <= MaxInflight + m - 1
    <3>1. at(i) \in 1..m /\ t.inflight[i] = s.inflight[at(i)]
      BY <1>5
    <3>2. LET b == Age(s.lastMid, s.inflight[at(i)].mid)
          IN  /\ \A p \in 1..L : P[p].mid = s.inflight[at(i)].mid =>
                   b + p <= IF FirstPass(P[p]) THEN m ELSE MaxInflight + m - 1
              /\ (\A p \in 1..L : P[p].mid # s.inflight[at(i)].mid) =>
                   b + c + 1 <= MaxInflight + m - 1
      BY <1>14, <3>1 DEF Ages, L
    <3> QED
      BY <3>1, <3>2
  <2> HIDE DEF a
  <2>3. ASSUME NEW p \in 1..(L - 1), Q[p].mid = t.inflight[i].mid
        PROVE  a + p <= IF FirstPass(Q[p]) THEN m - 1 ELSE MaxInflight + (m - 1) - 1
    <3>1. a + (p + 1) <= IF FirstPass(Q[p]) THEN m ELSE MaxInflight + m - 1
      BY <1>10, <2>2, <2>3
    <3> QED
      BY <1>1, <2>1, <3>1
  <2>4. ASSUME \A p \in 1..(L - 1) : Q[p].mid # t.inflight[i].mid
        PROVE  a + (c - 1) + 1 <= MaxInflight + (m - 1) - 1
    <3>1. \A p \in 1..L : P[p].mid # t.inflight[i].mid
      BY <1>12, <2>4
    <3>2. a + c + 1 <= MaxInflight + m - 1
      BY <2>2, <3>1
    <3>3. c \in Nat /\ a \in Nat /\ m \in Nat /\ MaxInflight \in Nat
      BY <1>1, <2>1
    <3> QED
      BY <3>2, <3>3
  <2> QED
    BY <1>0, <1>1, <2>3, <2>4 DEF a
<1> QED
  BY <1>8, <1>9, <1>11, <1>13, <1>14

-----------------------------------------------------------------------------
(* The invariant.                                                            *)

\* The broker's line: all rows are inflight or queued; what is queued was not
\* sent, and came later than what is inflight, in order,
InLine(s) ==
  /\ \A k \in 1..Len(s.queued) : s.state[s.queued[k]] = "invalid"
  /\ \A i \in 1..Len(s.inflight), k \in 1..Len(s.queued) :
       s.inflight[i].id < s.queued[k]
  /\ \A k, l \in 1..Len(s.queued) : k < l => s.queued[k] < s.queued[l]
  /\ \A id \in Ids : s.state[id] # "none" =>
       \/ \E i \in 1..Len(s.inflight) : s.inflight[i].id = id
       \/ \E k \in 1..Len(s.queued) : s.queued[k] = id

\* and finds no room.
Line(s) == InLine(s) /\ (Room(s.inflight) => Len(s.queued) = 0)

\* What it leaves in its rows: those that were sent come first, one window
Rows(s) ==
  /\ \A a \in Ids, b \in Begun(s) : a < b => s.state[a] # "invalid"
  /\ Cardinality(Begun(s)) <= MaxInflight

\* The two ends of a connection.  While the sender reads, the ages bound what
\* it still has to read; while both do, nothing inflight is without a packet.
Window(s, a, lk) ==
  LET n == Len(s.inflight)
      P == Pipe(a, s)
  IN  /\ Lists(s, n) /\ Mids(s, n) /\ Tokens(s, P, n)
      /\ conf.server => Line(s)
      /\ lk = "open" => Covered(s, P, n)
      /\ lk \in {"open", "receiverCloses"} => Ages(s, P, Len(a), n)

\* What is sent leaves the line as it was.
LEMMA ReleaseLine ==
  ASSUME ConfType, NEW s \in Sender, NEW redeliver \in BOOLEAN,
         NEW m \in 0..Len(s.inflight), Releases(s, redeliver, m), StatesFit(s), Line(s)
  PROVE  Line(Release(s, redeliver))
<1> DEFINE r == Release(s, redeliver)
           n == Len(s.inflight)
           q == Len(s.queued)
<1>1. /\ n \in Nat /\ q \in Nat /\ r.queued = s.queued /\ Len(r.inflight) = n
      /\ \A i \in 1..n : r.inflight[i].id = s.inflight[i].id /\ s.inflight[i].id \in Ids
      /\ \A k \in 1..q : s.queued[k] \in Ids
  <2>1. Released(s, r, m)
    BY ReleaseRun
  <2> HIDE DEF r
  <2>2. /\ n \in Nat /\ q \in Nat
        /\ \A i \in 1..n : s.inflight[i].id \in Ids
        /\ \A k \in 1..q : s.queued[k] \in Ids
    BY InflightType
  <2>3. /\ r.queued = s.queued /\ Len(r.inflight) = n
        /\ \A i \in 1..n : r.inflight[i].id = s.inflight[i].id
    BY <2>1 DEF Released
  <2> QED
    BY <2>2, <2>3
<1>2. /\ \A id \in Ids : r.state[id] = "none" <=> s.state[id] = "none"
      /\ \A id \in Ids : (\A i \in 1..n : s.inflight[i].id # id) =>
                           r.state[id] = s.state[id]
  BY ReleaseStates
<1> HIDE DEF r, n, q
<1>3. /\ \A k \in 1..q : s.state[s.queued[k]] = "invalid"
      /\ \A i \in 1..n, k \in 1..q : s.inflight[i].id < s.queued[k]
      /\ \A k, l \in 1..q : k < l => s.queued[k] < s.queued[l]
      /\ Room(s.inflight) => q = 0
      /\ \A id \in Ids : s.state[id] # "none" =>
           \/ \E i \in 1..n : s.inflight[i].id = id
           \/ \E k \in 1..q : s.queued[k] = id
  BY DEF Line, InLine, n, q
<1>4. ASSUME NEW k \in 1..q
      PROVE  r.state[s.queued[k]] = "invalid"
  <2>1. \A i \in 1..n : s.inflight[i].id # s.queued[k]
    BY <1>1, <1>3 DEF Ids
  <2> QED
    BY <1>1, <1>2, <1>3, <2>1
<1>5. Room(r.inflight) => Room(s.inflight)
  BY <1>1 DEF Room, n
<1>6. /\ \A k \in 1..q : r.state[r.queued[k]] = "invalid"
      /\ \A i \in 1..n, k \in 1..q : r.inflight[i].id < r.queued[k]
      /\ \A k, l \in 1..q : k < l => r.queued[k] < r.queued[l]
      /\ Room(r.inflight) => q = 0
  BY <1>1, <1>3, <1>4, <1>5
<1>7. ASSUME NEW id \in Ids, r.state[id] # "none"
      PROVE  \/ \E i \in 1..n : r.inflight[i].id = id
             \/ \E k \in 1..q : r.queued[k] = id
  <2>1. s.state[id] # "none"
    BY <1>2, <1>7
  <2>2. \/ \E i \in 1..n : s.inflight[i].id = id
        \/ \E k \in 1..q : s.queued[k] = id
    BY <1>3, <2>1
  <2> QED
    BY ONLY <1>1, <2>2
<1>8. Len(r.queued) = q
  BY <1>1 DEF q
<1>9. Line(r)
  BY <1>1, <1>6, <1>7, <1>8 DEF Line, InLine
<1> QED
  BY <1>9 DEF r

\* message__release_to_inflight() makes up the window again.
LEMMA ReleaseWindow ==
  ASSUME ConfType, MaxInflight > 0, MaxMid >= 2 * MaxInflight - 1,
         NEW s \in Sender, NEW redeliver \in BOOLEAN, NEW a \in Seq(AnswerPacket),
         NEW m \in 0..Len(s.inflight), Len(s.inflight) <= MaxInflight,
         Releases(s, redeliver, m), StatesFit(s), Mids(s, m),
         Tokens(s, Pipe(a, s), m), Ages(s, Pipe(a, s), Len(a), m),
         conf.server => Line(s),
         NEW lk, lk = "open" => Covered(s, Pipe(a, s), m)
  PROVE  LET r == Release(s, redeliver)
         IN  /\ StatesFit(r) /\ Window(r, a, lk)
             /\ \A id \in Ids : r.state[id] = "none" <=> s.state[id] = "none"
<1> DEFINE r == Release(s, redeliver)
           n == Len(s.inflight)
<1>1. /\ StatesFit(r) /\ Lists(r, n)
      /\ \A id \in Ids : r.state[id] = "none" <=> s.state[id] = "none"
  BY ReleaseStates
<1>2. /\ Mids(r, n) /\ Tokens(r, Pipe(a, r), n) /\ Ages(r, Pipe(a, r), Len(a), n)
      /\ Covered(s, Pipe(a, s), m) => Covered(r, Pipe(a, r), n)
  BY ReleaseKeeps
<1>3. conf.server => Line(r)
  BY ReleaseLine
<1>4. Len(r.inflight) = n
  BY ReleaseRun DEF Released
<1> HIDE DEF r, n
<1>5. Window(r, a, lk)
  BY <1>1, <1>2, <1>3, <1>4 DEF Window
<1> QED
  BY <1>1, <1>5 DEF r

\* While the connection lives, what is sent is what was not sent before.
LEMMA ReleasesFresh ==
  ASSUME NEW s \in Sender, NEW m \in 0..Len(s.inflight),
         \A i, j \in 1..Len(s.inflight) : s.inflight[i].id = s.inflight[j].id => i = j,
         \A i \in 1..m : s.inflight[i].id \in Begun(s),
         \A i \in (m + 1)..Len(s.inflight) : s.state[s.inflight[i].id] = "invalid"
  PROVE  Releases(s, FALSE, m)
<1> DEFINE n == Len(s.inflight)
<1>1. /\ n \in Nat /\ m \in Nat /\ m <= n /\ DOMAIN s.inflight = 1..n
  BY InflightType
<1>2. \A i \in 1..m : s.state[s.inflight[i].id] # "invalid"
  BY DEF Begun
<1> HIDE DEF n
<1>3. Sends(s, FALSE) = {i \in 1..n : s.state[s.inflight[i].id] = "invalid"}
  BY <1>1 DEF Sends, Resends
<1>4. \A i \in 1..n : i \in 1..m \/ i \in (m + 1)..n
  BY <1>1
<1>5. \A i \in (m + 1)..n : i \in 1..n
  BY <1>1
<1>6. \A i \in (m + 1)..n : s.state[s.inflight[i].id] = "invalid"
  BY DEF n
<1>7. Sends(s, FALSE) = (m + 1)..n
  BY <1>2, <1>3, <1>4, <1>5, <1>6
<1>8. TakesMid(s, FALSE) = (m + 1)..n
  BY <1>6, <1>7 DEF TakesMid
<1> QED
  BY <1>6, <1>7, <1>8 DEF Releases, n

\* message__queue(): a new message goes behind all others.
LEMMA EnqueueWindow ==
  ASSUME ConfType, MaxInflight > 0, MaxMid >= 2 * MaxInflight - 1,
         NEW s \in Sender, Limited(s.inflight), NEW a \in Seq(AnswerPacket),
         NEW id \in Ids, \A b \in Ids : b >= id => s.state[b] = "none",
         NEW lk \in {"open", "receiverCloses"}, StatesFit(s), Window(s, a, lk)
  PROVE  LET r == Enqueue(s, id)
         IN  /\ StatesFit(r) /\ Window(r, a, lk)
             /\ \A b \in Ids : b > id => r.state[b] = "none"
<1> DEFINE u == [s EXCEPT !.state[id] = "invalid"]
           f == NewMsg(u, id)
           n == Len(s.inflight)
           q == Len(s.queued)
           P == Pipe(a, s)
<1>1. /\ u \in Sender /\ u.inflight = s.inflight /\ u.queued = s.queued
      /\ u.lastMid = s.lastMid /\ u.packets = s.packets
      /\ u.state = [s.state EXCEPT ![id] = "invalid"] /\ s.state \in [Ids -> States]
  BY DEF Sender, States
<1> HIDE DEF u
<1>2. /\ f \in Sender
      /\ f.state = u.state /\ f.lastMid = s.lastMid /\ f.packets = s.packets
      /\ Room(s.inflight) => /\ f.queued = s.queued
                             /\ Len(f.inflight) = n + 1
                             /\ \A i \in 1..n : f.inflight[i] = s.inflight[i]
                             /\ f.inflight[n + 1] = [id |-> id, mid |-> 0]
      /\ ~Room(s.inflight) => /\ f.inflight = s.inflight
                              /\ Len(f.queued) = q + 1
                              /\ \A k \in 1..q : f.queued[k] = s.queued[k]
                              /\ f.queued[q + 1] = id
  <2>1. /\ f \in Sender
        /\ f.state = u.state /\ f.lastMid = u.lastMid /\ f.packets = u.packets
        /\ Room(u.inflight) => /\ f.queued = u.queued
                               /\ Len(f.inflight) = Len(u.inflight) + 1
                               /\ \A i \in 1..Len(u.inflight) :
                                    f.inflight[i] = u.inflight[i]
                               /\ f.inflight[Len(u.inflight) + 1] = [id |-> id, mid |-> 0]
        /\ ~Room(u.inflight) => /\ f.inflight = u.inflight
                                /\ Len(f.queued) = Len(u.queued) + 1
                                /\ \A k \in 1..Len(u.queued) :
                                     f.queued[k] = u.queued[k]
                                /\ f.queued[Len(u.queued) + 1] = id
    BY <1>1, NewMsgDoes
  <2> HIDE DEF f
  <2> QED
    BY <1>1, <2>1
<1>3. /\ n \in Nat /\ q \in Nat /\ MaxInflight \in Nat \ {0} /\ n <= MaxInflight
      /\ Room(s.inflight) <=> n < MaxInflight
      /\ \A i \in 1..n : s.inflight[i].id \in Ids
      /\ \A k \in 1..q : s.queued[k] \in Ids
  BY InflightType, MqttAssumption DEF Limited, Room
<1>4. /\ Lists(s, n) /\ Mids(s, n) /\ Tokens(s, P, n) /\ Ages(s, P, Len(a), n)
      /\ conf.server => Line(s)
      /\ lk = "open" => Covered(s, P, n)
  BY DEF Window
<1> HIDE DEF f, n, q, P
<1>5. Len(f.inflight) \in n..(n + 1) /\ Len(f.inflight) <= MaxInflight
      /\ n \in 0..Len(f.inflight)
      /\ \A i \in 1..n : f.inflight[i] = s.inflight[i]
  <2>1. CASE Room(s.inflight)
    BY <1>2, <1>3, <2>1
  <2>2. CASE ~Room(s.inflight)
    <3>1. Len(f.inflight) = n
      BY <1>2, <2>2 DEF n
    <3> QED
      BY <1>2, <1>3, <2>2, <3>1
  <2> QED
    BY <2>1, <2>2
<1>6. /\ f.state[id] = "invalid"
      /\ \A b \in Ids : b # id => f.state[b] = s.state[b]
  BY <1>1, <1>2
<1>7. /\ id \in Nat /\ \A b \in Ids : b \in Nat
      /\ \A b \in Ids : s.state[b] # "none" => b < id /\ b # id
  BY DEF Ids
<1>8. \A i \in 1..n : /\ s.state[s.inflight[i].id] # "none"
                      /\ s.inflight[i].id < id /\ s.inflight[i].id # id
                      /\ s.inflight[i].id \in Begun(s) /\ s.inflight[i].id \in Ids
                      /\ f.state[s.inflight[i].id] = s.state[s.inflight[i].id]
  <2> SUFFICES ASSUME NEW i \in 1..n
               PROVE  /\ s.state[s.inflight[i].id] # "none"
                      /\ s.inflight[i].id < id /\ s.inflight[i].id # id
                      /\ s.inflight[i].id \in Begun(s) /\ s.inflight[i].id \in Ids
                      /\ f.state[s.inflight[i].id] = s.state[s.inflight[i].id]
    OBVIOUS
  <2>1. s.inflight[i].id \in Begun(s) /\ s.inflight[i].id \in Ids
    BY <1>4 DEF Lists, Begun
  <2>2. s.state[s.inflight[i].id] # "none"
    BY <2>1 DEF Begun
  <2>3. s.inflight[i].id < id /\ s.inflight[i].id # id
    BY <1>7, <2>1, <2>2
  <2> QED
    BY <1>6, <2>1, <2>2, <2>3
<1>9. /\ Mids(f, n) /\ Tokens(f, P, n) /\ Ages(f, P, Len(a), n)
      /\ lk = "open" => Covered(f, P, n)
  <2>1. \A i \in 1..n : /\ f.inflight[i] = s.inflight[i]
                        /\ f.state[s.inflight[i].id] = s.state[s.inflight[i].id]
    BY <1>5, <1>8
  <2>2. /\ Mids(s, n) => Mids(f, n)
        /\ Tokens(s, P, n) => Tokens(f, P, n)
        /\ Covered(s, P, n) => Covered(f, P, n)
        /\ Ages(s, P, Len(a), n) => Ages(f, P, Len(a), n)
    BY <1>2, <1>3, <2>1, Extended
  <2> QED
    BY <1>4, <2>2
<1>10. Pipe(a, f) = P
  BY <1>2 DEF Pipe, P
<1>11. \A i \in 1..Len(f.inflight) :
         \/ i \in 1..n /\ f.inflight[i].id = s.inflight[i].id
         \/ i = n + 1 /\ f.inflight[i].id = id /\ Room(s.inflight)
  <2>1. CASE Room(s.inflight)
    <3>1. \A i \in 1..(n + 1) : i \in 1..n \/ i = n + 1
      BY <1>3
    <3> QED
      BY <1>2, <2>1, <3>1
  <2>2. CASE ~Room(s.inflight)
    BY <1>2, <2>2 DEF n
  <2> QED
    BY <2>1, <2>2
<1>12. Releases(f, FALSE, n)
  <2>1. ASSUME NEW i \in 1..Len(f.inflight), NEW j \in 1..Len(f.inflight),
               f.inflight[i].id = f.inflight[j].id
        PROVE  i = j
    <3>1. /\ \A k, l \in 1..n : s.inflight[k].id = s.inflight[l].id => k = l
          /\ \A k \in 1..n : s.inflight[k].id # id
      BY <1>4, <1>8 DEF Lists
    <3>2. /\ \/ i \in 1..n /\ f.inflight[i].id = s.inflight[i].id
             \/ i = n + 1 /\ f.inflight[i].id = id
          /\ \/ j \in 1..n /\ f.inflight[j].id = s.inflight[j].id
             \/ j = n + 1 /\ f.inflight[j].id = id
      BY <1>11
    <3> QED
      BY ONLY <2>1, <3>1, <3>2
  <2>2. \A i \in 1..n : f.inflight[i].id \in Begun(f)
    <3>1. \A i \in 1..n : /\ f.inflight[i].id = s.inflight[i].id
                          /\ s.inflight[i].id \in Ids
                          /\ f.state[s.inflight[i].id] \notin {"none", "invalid"}
      BY <1>5, <1>8 DEF Begun
    <3> QED
      BY <3>1 DEF Begun
  <2>3. \A i \in (n + 1)..Len(f.inflight) : f.state[f.inflight[i].id] = "invalid"
    <3>1. \A i \in (n + 1)..Len(f.inflight) : i \in 1..Len(f.inflight) /\ i \notin 1..n
      BY <1>3, <1>5
    <3> QED
      BY <1>6, <1>11, <3>1
  <2> QED
    BY <1>2, <1>5, <2>1, <2>2, <2>3, ReleasesFresh
<1>13. StatesFit(f)
  BY <1>6 DEF StatesFit
<1>14. ASSUME conf.server
       PROVE  Line(f)
  <2>1. /\ \A k \in 1..q : s.state[s.queued[k]] = "invalid"
        /\ \A i \in 1..n, k \in 1..q : s.inflight[i].id < s.queued[k]
        /\ \A k, l \in 1..q : k < l => s.queued[k] < s.queued[l]
        /\ Room(s.inflight) => q = 0
        /\ \A b \in Ids : s.state[b] # "none" =>
             \/ \E i \in 1..n : s.inflight[i].id = b
             \/ \E k \in 1..q : s.queued[k] = b
    BY <1>4, <1>14 DEF Line, InLine, n, q
  <2>2. CASE Room(s.inflight)
    <3>1. f.queued = s.queued /\ q = 0 /\ Len(f.queued) = 0 /\ Len(f.inflight) = n + 1
      BY <1>2, <2>1, <2>2 DEF q
    <3>2. ASSUME NEW b \in Ids, f.state[b] # "none"
          PROVE  \E i \in 1..Len(f.inflight) : f.inflight[i].id = b
      <4>1. CASE b = id
        <5>1. n + 1 \in 1..Len(f.inflight) /\ f.inflight[n + 1].id = id
          BY <1>2, <1>3, <2>2, <3>1
        <5> QED
          BY <4>1, <5>1
      <4>2. CASE b # id
        <5>1. s.state[b] # "none"
          BY <1>6, <3>2, <4>2
        <5>2. PICK i \in 1..n : s.inflight[i].id = b
          BY <2>1, <3>1, <5>1
        <5>3. i \in 1..Len(f.inflight) /\ f.inflight[i].id = b
          BY <1>3, <1>5, <3>1, <5>2
        <5> QED
          BY <5>3
      <4> QED
        BY <4>1, <4>2
    <3> QED
      BY <3>1, <3>2 DEF Line, InLine
  <2>3. CASE ~Room(s.inflight)
    <3>1. /\ f.inflight = s.inflight /\ Len(f.queued) = q + 1
          /\ Len(f.inflight) = n
          /\ \A k \in 1..(q + 1) : \/ k \in 1..q /\ f.queued[k] = s.queued[k]
                                   \/ k = q + 1 /\ f.queued[k] = id
      BY <1>2, <1>3, <2>3 DEF n
    <3>2. \A k \in 1..q : /\ s.queued[k] < id /\ s.queued[k] \in Ids /\ s.queued[k] # id
                          /\ f.state[s.queued[k]] = "invalid"
      <4> SUFFICES ASSUME NEW k \in 1..q
                   PROVE  /\ s.queued[k] < id /\ s.queued[k] \in Ids /\ s.queued[k] # id
                          /\ f.state[s.queued[k]] = "invalid"
        OBVIOUS
      <4>1. s.queued[k] \in Ids /\ s.state[s.queued[k]] = "invalid"
        BY <1>3, <2>1
      <4>2. s.queued[k] < id /\ s.queued[k] # id
        BY <1>7, <4>1
      <4> QED
        BY <1>6, <4>1, <4>2
    <3>3. \A k \in 1..(q + 1) : f.state[f.queued[k]] = "invalid"
      BY <1>6, <3>1, <3>2
    <3>4. \A i \in 1..n, k \in 1..(q + 1) : f.inflight[i].id < f.queued[k]
      BY <1>8, <2>1, <3>1
    <3>5. ASSUME NEW k \in 1..(q + 1), NEW l \in 1..(q + 1), k < l
          PROVE  f.queued[k] < f.queued[l]
      <4>1. k \in 1..q
        BY <1>3, <3>5
      <4>2. f.queued[k] = s.queued[k]
        BY <1>2, <2>3, <4>1
      <4> QED
        BY <2>1, <3>1, <3>2, <3>5, <4>1, <4>2
    <3>6. ASSUME NEW b \in Ids, f.state[b] # "none"
          PROVE  \/ \E i \in 1..n : f.inflight[i].id = b
                 \/ \E k \in 1..(q + 1) : f.queued[k] = b
      <4>1. CASE b = id
        <5>1. q + 1 \in 1..(q + 1) /\ f.queued[q + 1] = id
          BY <1>2, <1>3, <2>3
        <5> QED
          BY <4>1, <5>1
      <4>2. CASE b # id
        <5>1. s.state[b] # "none"
          BY <1>6, <3>6, <4>2
        <5>2. CASE \E i \in 1..n : s.inflight[i].id = b
          BY <3>1, <5>2
        <5>3. ASSUME NEW k \in 1..q, s.queued[k] = b
              PROVE  \E l \in 1..(q + 1) : f.queued[l] = b
          <6>1. k \in 1..(q + 1) /\ f.queued[k] = s.queued[k]
            BY <1>2, <1>3, <2>3
          <6> QED
            BY <5>3, <6>1
        <5> QED
          BY <2>1, <5>1, <5>2, <5>3
      <4> QED
        BY <4>1, <4>2
    <3>7. ~Room(f.inflight)
      BY <2>3, <3>1
    <3> QED
      BY <3>1, <3>3, <3>4, <3>5, <3>6, <3>7 DEF Line, InLine
  <2> QED
    BY <2>2, <2>3
<1>15. Enqueue(s, id) = Release(f, FALSE)
  BY DEF Enqueue, f, u
<1> DEFINE r == Release(f, FALSE)
<1>16. /\ StatesFit(r) /\ Window(r, a, lk)
       /\ \A b \in Ids : r.state[b] = "none" <=> f.state[b] = "none"
  BY <1>2, <1>5, <1>9, <1>10, <1>12, <1>13, <1>14, ReleaseWindow
<1> HIDE DEF r
<1>17. ASSUME NEW b \in Ids, b > id
       PROVE  r.state[b] = "none"
  <2>1. b # id /\ b >= id
    BY <1>7, <1>17
  <2> QED
    BY <1>6, <1>16, <2>1
<1> QED
  BY <1>15, <1>16, <1>17 DEF r

\* The id of a packet finds the message, and no other (tr2q_get_by_mid).
LEMMA FoundByMid ==
  ASSUME NEW s \in Sender, NEW x \in 1..Len(s.inflight), Mids(s, Len(s.inflight))
  PROVE  /\ WithMid(s.inflight, s.inflight[x].mid) = {x}
         /\ First(WithMid(s.inflight, s.inflight[x].mid)) = x
<1>1. /\ DOMAIN s.inflight = 1..Len(s.inflight)
      /\ \A i \in 1..Len(s.inflight) : s.inflight[i].mid = s.inflight[x].mid => i = x
  BY InflightType DEF Mids
<1>2. WithMid(s.inflight, s.inflight[x].mid) = {x}
  BY <1>1 DEF WithMid
<1>3. x \in Nat
  BY InflightType
<1>4. First({x}) = x
  BY <1>3 DEF First
<1> QED
  BY <1>2, <1>4

\* handle__pubrec() finds its message, and notes it.
LEMMA ReceivedWindow ==
  ASSUME ConfType, MaxInflight > 0, NEW s \in Sender, Limited(s.inflight),
         NEW a \in Seq(AnswerPacket), a # <<>>, Head(a).type = "PUBREC",
         NEW lk \in {"open", "receiverCloses"}, StatesFit(s), Window(s, a, lk)
  PROVE  LET r == Received(s, Head(a).mid)
         IN  /\ StatesFit(r) /\ Window(r, Tail(a), lk)
             /\ \A b \in Ids : r.state[b] = "none" <=> s.state[b] = "none"
<1> DEFINE r == Received(s, Head(a).mid)
           b == Tail(a)
           n == Len(s.inflight)
           P == Pipe(a, s)
           Q == Pipe(b, r)
           L == Len(P)
<1>1. /\ n \in Nat /\ n <= MaxInflight /\ Len(s.packets) \in Nat
      /\ \A i \in 1..n : s.inflight[i].id \in Ids
      /\ s.state \in [Ids -> States]
  BY InflightType DEF Limited, Sender
<1>2. /\ Lists(s, n) /\ Mids(s, n) /\ Tokens(s, P, n) /\ Ages(s, P, Len(a), n)
      /\ conf.server => Line(s)
      /\ lk = "open" => Covered(s, P, n)
  BY DEF Window
<1>3. /\ Len(a) \in Nat \ {0} /\ Len(b) = Len(a) - 1
      /\ b \in Seq(AnswerPacket) /\ Head(a) \in AnswerPacket
      /\ L \in Nat \ {0} /\ P[1] = Head(a)
      /\ Len(Pipe(b, s)) = L - 1
      /\ \A p \in 1..(L - 1) : Pipe(b, s)[p] = P[p + 1]
  BY PipeHead
<1> HIDE DEF L
<1>4. PICK x \in 1..n : P[1].mid = s.inflight[x].mid /\ Fits(s, P[1], s.inflight[x].id)
  <2>1. 1 \in 1..L
    BY <1>3
  <2> QED
    BY <1>2, <2>1 DEF Tokens, L
<1> DEFINE X == s.inflight[x].id
<1>5. X \in Ids /\ s.state[X] = "wait_for_pubrec"
  BY <1>1, <1>3, <1>4 DEF Fits
<1>6. /\ WithMid(s.inflight, Head(a).mid) = {x}
      /\ First(WithMid(s.inflight, Head(a).mid)) = x
  BY <1>2, <1>3, <1>4, FoundByMid
<1> HIDE DEF X
<1>7. /\ r \in Sender
      /\ r.inflight = s.inflight /\ r.queued = s.queued /\ r.lastMid = s.lastMid
      /\ r.packets = Append(s.packets, Packet("PUBREL", Head(a).mid))
      /\ r.state = [s.state EXCEPT ![X] = "wait_for_pubcomp"]
  <2>1. Head(a).mid \in 1..MaxMid
    BY <1>3 DEF AnswerPacket
  <2>2. WithMid(s.inflight, Head(a).mid) # {}
    BY <1>6
  <2>3. /\ r \in Sender
        /\ r.inflight = s.inflight /\ r.queued = s.queued /\ r.lastMid = s.lastMid
        /\ r.packets = Append(s.packets, Packet("PUBREL", Head(a).mid))
        /\ r.state = [s.state EXCEPT
                        ![s.inflight[First(WithMid(s.inflight, Head(a).mid))].id] =
                          "wait_for_pubcomp"]
    BY <2>1, <2>2, ReceivedDoes
  <2> HIDE DEF r
  <2> QED
    BY <1>6, <2>3 DEF X
<1> HIDE DEF r, n, P, Q, b
<1>8. /\ Len(r.packets) = Len(s.packets) + 1
      /\ \A p \in 1..Len(s.packets) : r.packets[p] = s.packets[p]
      /\ r.packets[Len(s.packets) + 1] = Packet("PUBREL", Head(a).mid)
  <2>1. s.packets \in Seq(OutPacket) /\ r.packets \in Seq(OutPacket)
    BY <1>7 DEF Sender
  <2>2. Packet("PUBREL", Head(a).mid) \in OutPacket
    BY <1>3 DEF AnswerPacket, OutPacket, Packet
  <2> QED
    BY <1>7, <2>1, <2>2, AppendProperties
<1>9. /\ Len(Q) = L
      /\ \A p \in 1..(L - 1) : Q[p] = P[p + 1]
      /\ Q[L] = Packet("PUBREL", P[1].mid)
  <2> DEFINE g == 1
  <2>0. /\ b \in Seq(AnswerPacket) /\ r \in Sender /\ g \in Nat
        /\ Len(r.packets) = Len(s.packets) + g
        /\ \A p \in 1..Len(s.packets) : r.packets[p] = s.packets[p]
    BY <1>3, <1>7, <1>8
  <2> HIDE DEF g
  <2>e. Extends(s.packets, r.packets, g)
    BY ONLY <2>0 DEF Extends
  <2>1. /\ Len(Pipe(b, s)) = Len(b) + Len(s.packets) /\ Len(Pipe(b, s)) \in Nat
        /\ Len(b) \in Nat
        /\ Len(Pipe(b, r)) = Len(Pipe(b, s)) + g
        /\ \A p \in 1..Len(Pipe(b, s)) : Pipe(b, r)[p] = Pipe(b, s)[p]
        /\ \A k \in 1..g : Pipe(b, r)[Len(Pipe(b, s)) + k] =
                             r.packets[Len(s.packets) + k]
    <3>1. PipeExtends(b, s, r, g)
      BY ONLY <2>0, <2>e, s \in Sender, PipeGrows
    <3> QED
      BY ONLY <3>1 DEF PipeExtends
  <2> USE DEF g
  <2>2. /\ Len(Q) = Len(Pipe(b, s)) + 1
        /\ \A p \in 1..Len(Pipe(b, s)) : Q[p] = Pipe(b, s)[p]
        /\ Q[Len(Pipe(b, s)) + 1] = r.packets[Len(s.packets) + 1]
    BY <2>1 DEF Q
  <2>3. L - 1 + 1 = L
    BY <1>3
  <2> QED
    BY <1>3, <1>8, <2>2, <2>3
<1>10. /\ Tokens(r, Q, n)
       /\ Covered(s, P, n) => Covered(r, Q, n)
       /\ Ages(r, Q, Len(b), n)
  <2>1. /\ Tokens(r, Q, n)
        /\ Covered(s, P, n) => Covered(r, Q, n)
        /\ \A c \in Nat \ {0} : Ages(s, P, c, n) => Ages(r, Q, c - 1, n)
    <3>1. n \in 0..Len(s.inflight)
      BY <1>1 DEF n
    <3>2. Len(P) \in Nat \ {0} /\ Len(Q) = Len(P)
          /\ (\A p \in 1..(Len(P) - 1) : Q[p] = P[p + 1])
          /\ Q[Len(P)] = Packet("PUBREL", P[1].mid)
      BY <1>3, <1>9 DEF L
    <3>3. P[1].type = "PUBREC" /\ P[1].mid = s.inflight[x].mid
      BY <1>3, <1>4
    <3> QED
      BY <1>1, <1>2, <1>7, <3>1, <3>2, <3>3, TokenMoved DEF X
  <2> QED
    BY <1>2, <1>3, <2>1
<1>11. \A id \in Ids : id # X => r.state[id] = s.state[id]
  BY <1>7
<1>12. r.state[X] = "wait_for_pubcomp"
  BY <1>1, <1>5, <1>7
<1>13. StatesFit(r)
  BY <1>5, <1>11, <1>12 DEF StatesFit
<1>14. \A id \in Ids : r.state[id] = "none" <=> s.state[id] = "none"
  BY <1>5, <1>11, <1>12
<1>15. Lists(r, n) /\ Mids(r, n)
  <2>1. \A i \in 1..n : r.inflight[i].id \in Begun(r)
    <3> SUFFICES ASSUME NEW i \in 1..n
                 PROVE  r.inflight[i].id \in Ids
                        /\ r.state[r.inflight[i].id] \notin {"none", "invalid"}
      BY DEF Begun
    <3>1. s.inflight[i].id \in Ids /\ s.state[s.inflight[i].id] \notin {"none", "invalid"}
      BY <1>2 DEF Lists, Begun
    <3> QED
      BY <1>7, <1>11, <1>12, <3>1
  <2> QED
    BY <1>2, <1>7, <2>1 DEF Lists, Mids
<1>16. ASSUME conf.server
       PROVE  Line(r)
  <2>1. Line(s)
    BY <1>2, <1>16
  <2>2. \A k \in 1..Len(s.queued) : s.queued[k] \in Ids
    BY InflightType
  <2>3. \A k \in 1..Len(s.queued) : r.state[s.queued[k]] = "invalid"
    BY <1>5, <1>11, <2>1, <2>2 DEF Line, InLine
  <2> QED
    <3>0. /\ r.inflight = s.inflight /\ r.queued = s.queued
          /\ \A id \in Ids : r.state[id] # "none" =>
               \/ \E i \in 1..Len(r.inflight) : r.inflight[i].id = id
               \/ \E k \in 1..Len(r.queued) : r.queued[k] = id
      BY <1>7, <1>14, <2>1 DEF Line, InLine
    <3>a. /\ \A i \in 1..Len(r.inflight), k \in 1..Len(r.queued) :
               r.inflight[i].id < r.queued[k]
          /\ \A k, l \in 1..Len(r.queued) : k < l => r.queued[k] < r.queued[l]
      BY <2>1, <3>0 DEF Line, InLine
    <3>1. InLine(r)
      BY <2>3, <3>0, <3>a DEF InLine
    <3>2. Room(r.inflight) => Len(r.queued) = 0
      BY <1>7, <2>1 DEF Line
    <3> QED
      BY <3>1, <3>2 DEF Line
<1>17. Len(r.inflight) = n
  BY <1>7 DEF n
<1>18. Window(r, b, lk)
  BY <1>2, <1>10, <1>15, <1>16, <1>17 DEF Window, Q
<1> QED
  BY <1>13, <1>14, <1>18 DEF r, b

\* What is queued takes the free places, and the line remains.
LEMMA FillLine ==
  ASSUME NEW s \in Sender, InLine(s), Lists(s, Len(s.inflight)), Limited(s.inflight),
         MaxInflight > 0
  PROVE  LET f == Fill(s)
         IN  /\ Line(f) /\ Releases(f, FALSE, Len(s.inflight))
             /\ Len(f.inflight) <= MaxInflight
             /\ Len(s.inflight) \in 0..Len(f.inflight)
<1> DEFINE f == Fill(s)
           n == Len(s.inflight)
           q == Len(s.queued)
<1>1. /\ f \in Sender
      /\ f.state = s.state /\ f.lastMid = s.lastMid /\ f.packets = s.packets
      /\ \E m \in 0..q :
           /\ Len(f.inflight) = n + m /\ Len(f.queued) = q - m
           /\ \A i \in 1..n : f.inflight[i] = s.inflight[i]
           /\ \A i \in 1..m : f.inflight[n + i] = [id |-> s.queued[i], mid |-> 0]
           /\ \A k \in 1..(q - m) : f.queued[k] = s.queued[m + k]
           /\ m < q => ~Room(f.inflight)
           /\ m > 0 /\ MaxInflight > 0 => n + m <= MaxInflight
  BY FillDoes
<1> HIDE DEF f
<1>2. PICK m \in 0..q :
        /\ Len(f.inflight) = n + m /\ Len(f.queued) = q - m
        /\ \A i \in 1..n : f.inflight[i] = s.inflight[i]
        /\ \A i \in 1..m : f.inflight[n + i] = [id |-> s.queued[i], mid |-> 0]
        /\ \A k \in 1..(q - m) : f.queued[k] = s.queued[m + k]
        /\ m < q => ~Room(f.inflight)
        /\ m > 0 /\ MaxInflight > 0 => n + m <= MaxInflight
  BY <1>1
<1>3. /\ n \in Nat /\ q \in Nat /\ n <= MaxInflight /\ MaxInflight \in Nat
      /\ m \in Nat /\ m <= q
      /\ \A i \in 1..n : s.inflight[i].id \in Ids
      /\ \A k \in 1..q : s.queued[k] \in Ids
  BY InflightType, MqttAssumption DEF Limited
<1>4. /\ \A k \in 1..q : s.state[s.queued[k]] = "invalid"
      /\ \A i \in 1..n, k \in 1..q : s.inflight[i].id < s.queued[k]
      /\ \A k, l \in 1..q : k < l => s.queued[k] < s.queued[l]
      /\ \A id \in Ids : s.state[id] # "none" =>
           \/ \E i \in 1..n : s.inflight[i].id = id
           \/ \E k \in 1..q : s.queued[k] = id
  BY DEF InLine
<1>5. /\ \A i, j \in 1..n : s.inflight[i].id = s.inflight[j].id => i = j
      /\ \A i \in 1..n : s.inflight[i].id \in Begun(s)
  BY DEF Lists
<1> HIDE DEF n, q
<1>6. /\ \A i \in 1..m : i \in 1..q
      /\ \A k \in 1..(q - m) : m + k \in 1..q
      /\ \A i \in 1..m, k \in 1..(q - m) : i < m + k
  BY <1>3
<1>7. ASSUME NEW i \in 1..(n + m)
      PROVE  \/ i \in 1..n /\ f.inflight[i].id = s.inflight[i].id
             \/ \E j \in 1..m : i = n + j /\ f.inflight[i].id = s.queued[j]
  <2>1. CASE i <= n
    <3>1. i \in 1..n
      BY <1>3, <2>1
    <3> QED
      BY <1>2, <3>1
  <2>2. CASE i > n
    <3> DEFINE j == i - n
    <3>1. j \in 1..m /\ i = n + j
      BY <1>3, <2>2
    <3> HIDE DEF j
    <3>2. f.inflight[n + j] = [id |-> s.queued[j], mid |-> 0]
      BY <1>2, <3>1
    <3>3. f.inflight[i].id = s.queued[j]
      BY <3>1, <3>2
    <3> QED
      BY <3>1, <3>3
  <2> QED
    BY <1>3, <2>1, <2>2
<1>8. \A k, l \in 1..q : s.queued[k] = s.queued[l] => k = l
  <2> SUFFICES ASSUME NEW k \in 1..q, NEW l \in 1..q, s.queued[k] = s.queued[l]
               PROVE  k = l
    OBVIOUS
  <2>1. s.queued[k] \in Nat
    BY <1>3 DEF Ids
  <2>2. ~(k < l) /\ ~(l < k)
    BY <1>4, <2>1
  <2> QED
    BY <1>3, <2>2
<1>9. ASSUME NEW i \in 1..n, NEW k \in 1..q
      PROVE  s.inflight[i].id # s.queued[k]
  <2>1. s.inflight[i].id \in Nat
    BY <1>3 DEF Ids
  <2>2. s.inflight[i].id < s.queued[k]
    BY <1>4
  <2> QED
    BY <2>1, <2>2
<1>10. ASSUME NEW i \in 1..(n + m), NEW j \in 1..(n + m),
              f.inflight[i].id = f.inflight[j].id
       PROVE  i = j
  <2>1. CASE i \in 1..n /\ f.inflight[i].id = s.inflight[i].id
    BY <1>5, <1>6, <1>7, <1>9, <1>10, <2>1
  <2>2. ASSUME NEW k \in 1..m, i = n + k, f.inflight[i].id = s.queued[k]
        PROVE  i = j
    <3>1. k \in 1..q
      BY <1>6
    <3>2. CASE j \in 1..n /\ f.inflight[j].id = s.inflight[j].id
      BY <1>9, <1>10, <2>2, <3>1, <3>2
    <3>3. ASSUME NEW l \in 1..m, j = n + l, f.inflight[j].id = s.queued[l]
          PROVE  i = j
      <4>1. k = l
        BY <1>6, <1>8, <1>10, <2>2, <3>3
      <4> QED
        BY <2>2, <3>3, <4>1
    <3> QED
      BY <1>7, <3>2, <3>3
  <2> QED
    BY <1>7, <2>1, <2>2
<1>11. Len(f.inflight) <= MaxInflight /\ n \in 0..(n + m)
  BY <1>2, <1>3
<1>12. Releases(f, FALSE, n)
  <2>1. \A i \in 1..n : f.inflight[i].id \in Begun(f)
    BY <1>1, <1>2, <1>5 DEF Begun
  <2>2. ASSUME NEW i \in (n + 1)..(n + m)
        PROVE  f.state[f.inflight[i].id] = "invalid"
    <3>1. i \in 1..(n + m) /\ i \notin 1..n
      BY <1>3
    <3> QED
      BY <1>1, <1>4, <1>6, <1>7, <3>1
  <2> QED
    BY <1>1, <1>2, <1>10, <1>11, <2>1, <2>2, ReleasesFresh
<1>13. \A k \in 1..(q - m) : f.state[f.queued[k]] = "invalid"
  BY <1>1, <1>2, <1>4, <1>6
<1>14. ASSUME NEW i \in 1..(n + m), NEW k \in 1..(q - m)
       PROVE  f.inflight[i].id < f.queued[k]
  <2>1. m + k \in 1..q /\ f.queued[k] = s.queued[m + k]
    BY <1>2, <1>6
  <2>2. CASE i \in 1..n /\ f.inflight[i].id = s.inflight[i].id
    BY <1>4, <2>1, <2>2
  <2>3. ASSUME NEW j \in 1..m, f.inflight[i].id = s.queued[j]
        PROVE  f.inflight[i].id < f.queued[k]
    BY <1>4, <1>6, <2>1, <2>3
  <2> QED
    BY <1>7, <2>2, <2>3
<1>15. ASSUME NEW k \in 1..(q - m), NEW l \in 1..(q - m), k < l
       PROVE  f.queued[k] < f.queued[l]
  <2>1. /\ m + k \in 1..q /\ f.queued[k] = s.queued[m + k]
        /\ m + l \in 1..q /\ f.queued[l] = s.queued[m + l]
    BY <1>2, <1>6
  <2>2. m + k < m + l
    BY <1>3, <1>15
  <2> QED
    BY <1>4, <2>1, <2>2
<1>16. ASSUME NEW id \in Ids, f.state[id] # "none"
       PROVE  \/ \E i \in 1..(n + m) : f.inflight[i].id = id
              \/ \E k \in 1..(q - m) : f.queued[k] = id
  <2>1. ASSUME NEW i \in 1..n, s.inflight[i].id = id
        PROVE  \E j \in 1..(n + m) : f.inflight[j].id = id
    <3>1. i \in 1..(n + m) /\ f.inflight[i].id = id
      BY <1>2, <1>3, <2>1
    <3> QED
      BY <3>1
  <2>2. ASSUME NEW k \in 1..m, s.queued[k] = id
        PROVE  \E j \in 1..(n + m) : f.inflight[j].id = id
    <3>1. n + k \in 1..(n + m)
      BY <1>3
    <3>2. f.inflight[n + k] = [id |-> s.queued[k], mid |-> 0]
      BY <1>2
    <3>3. f.inflight[n + k].id = id
      BY <2>2, <3>2
    <3> QED
      BY <3>1, <3>3
  <2>3. ASSUME NEW k \in 1..q, k > m, s.queued[k] = id
        PROVE  \E j \in 1..(q - m) : f.queued[j] = id
    <3> DEFINE j == k - m
    <3>1. j \in 1..(q - m) /\ m + j = k
      BY <1>3, <2>3
    <3> HIDE DEF j
    <3>2. f.queued[j] = id
      BY <1>2, <2>3, <3>1
    <3> QED
      BY <3>1, <3>2
  <2>4. \A k \in 1..q : k \in 1..m \/ k > m
    BY <1>3
  <2>5. \/ \E i \in 1..n : s.inflight[i].id = id
        \/ \E k \in 1..q : s.queued[k] = id
    BY <1>1, <1>4, <1>16
  <2> QED
    BY <2>1, <2>2, <2>3, <2>4, <2>5
<1>17. Room(f.inflight) => q - m = 0
  BY <1>2, <1>3
<1>18. Line(f)
  <2>1. Len(f.inflight) = n + m /\ Len(f.queued) = q - m
    BY <1>2
  <2> QED
    BY <2>1, <1>13, <1>14, <1>15, <1>16, <1>17 DEF Line, InLine
<1> QED
  BY <1>2, <1>11, <1>12, <1>18 DEF f, n

\* handle__pubackcomp() finds its message, which leaves its place to others.
LEMMA SettleWindow ==
  ASSUME ConfType, MaxInflight > 0, MaxMid >= 2 * MaxInflight - 1,
         NEW s \in Sender, Limited(s.inflight),
         NEW a \in Seq(AnswerPacket), a # <<>>, Head(a).type # "PUBREC",
         NEW lk \in {"open", "receiverCloses"}, StatesFit(s), Window(s, a, lk)
  PROVE  LET r == Settle(s, Head(a).mid)
         IN  /\ StatesFit(r) /\ Window(r, Tail(a), lk)
             /\ \A b \in Ids : s.state[b] = "none" => r.state[b] = "none"
<1> DEFINE mid == Head(a).mid
           r == Settle(s, mid)
           b == Tail(a)
           n == Len(s.inflight)
           P == Pipe(a, s)
           L == Len(P)
           t == Without(s, mid)
           Q == Pipe(b, t)
<1>1. /\ n \in Nat /\ n <= MaxInflight /\ MaxInflight \in Nat
      /\ \A i \in 1..n : s.inflight[i].id \in Ids
      /\ s.state \in [Ids -> States]
  BY InflightType, MqttAssumption DEF Limited, Sender
<1>2. /\ Lists(s, n) /\ Mids(s, n) /\ Tokens(s, P, n) /\ Ages(s, P, Len(a), n)
      /\ conf.server => Line(s)
      /\ lk = "open" => Covered(s, P, n)
  BY DEF Window
<1>3. /\ Len(a) \in Nat \ {0} /\ Len(b) = Len(a) - 1
      /\ b \in Seq(AnswerPacket) /\ Head(a) \in AnswerPacket
      /\ L \in Nat \ {0} /\ P[1] = Head(a)
      /\ Len(Pipe(b, s)) = L - 1
      /\ \A p \in 1..(L - 1) : Pipe(b, s)[p] = P[p + 1]
  BY PipeHead
<1> HIDE DEF L
<1>4. PICK x \in 1..n : P[1].mid = s.inflight[x].mid /\ Fits(s, P[1], s.inflight[x].id)
  <2>1. 1 \in 1..L
    BY <1>3
  <2> QED
    BY <1>2, <2>1 DEF Tokens, L
<1> DEFINE X == s.inflight[x].id
<1>5. X \in Ids /\ s.state[X] # "invalid" /\ s.state[X] # "none"
  BY <1>1, <1>2 DEF Lists, Begun
<1>6. /\ WithMid(s.inflight, mid) = {x}
      /\ First(WithMid(s.inflight, mid)) = x
  BY <1>2, <1>3, <1>4, FoundByMid
<1> HIDE DEF X
<1>7. /\ t \in Sender
      /\ t.queued = s.queued /\ t.lastMid = s.lastMid /\ t.packets = s.packets
      /\ Len(t.inflight) = n - 1
      /\ \A i \in 1..(n - 1) :
           t.inflight[i] = IF i < x THEN s.inflight[i] ELSE s.inflight[i + 1]
      /\ t.state = [s.state EXCEPT ![X] = "none"]
  <2>1. WithMid(s.inflight, mid) # {}
    BY <1>6
  <2> DEFINE y == First(WithMid(s.inflight, mid))
  <2>2. /\ y \in 1..n /\ s.inflight[y].mid = mid
        /\ t \in Sender
        /\ t.queued = s.queued /\ t.lastMid = s.lastMid /\ t.packets = s.packets
        /\ Len(t.inflight) = n - 1
        /\ \A i \in 1..(n - 1) :
             t.inflight[i] = IF i < y THEN s.inflight[i] ELSE s.inflight[i + 1]
        /\ t.state = [s.state EXCEPT ![s.inflight[y].id] = "none"]
    BY <2>1, WithoutDoes
  <2>3. y = x
    BY <1>6
  <2> HIDE DEF t, y
  <2> QED
    BY <2>2, <2>3 DEF X
<1>8. r = Release(Refill(t), FALSE)
  <2>1. WithMid(s.inflight, mid) # {}
    BY <1>6
  <2> QED
    BY <2>1, SettleIs
<1> HIDE DEF mid, r, n, P, Q, b, t
<1>9. Q = Pipe(b, s) /\ Len(Q) = L - 1 /\ \A p \in 1..(L - 1) : Q[p] = P[p + 1]
  BY <1>3, <1>7 DEF Q, Pipe
<1>10. n - 1 \in Nat /\ Len(t.inflight) <= MaxInflight
  BY <1>1, <1>7
<1>11. /\ Lists(t, n - 1) /\ Mids(t, n - 1) /\ Tokens(t, Q, n - 1)
       /\ Covered(s, P, n) => Covered(t, Q, n - 1)
       /\ Ages(t, Q, Len(b), n - 1)
  <2>1. /\ Lists(t, n - 1) /\ Mids(t, n - 1) /\ Tokens(t, Q, n - 1)
        /\ Covered(s, P, n) => Covered(t, Q, n - 1)
        /\ \A c \in Nat \ {0} : Ages(s, P, c, n) => Ages(t, Q, c - 1, n - 1)
    <3>1. n \in 1..Len(s.inflight) /\ n = Len(s.inflight)
      BY <1>1, <1>10 DEF n
    <3>2. Behind(P, Q)
      BY <1>3, <1>9 DEF L, Behind
    <3>3. /\ Mids(s, n) /\ Lists(s, n) /\ Tokens(s, P, n) /\ x \in 1..n
          /\ P[1].mid = s.inflight[x].mid
      BY <1>2, <1>4
    <3>4. Leaves(s, n, x, t)
      BY <1>7 DEF X, Leaves
    <3> QED
      BY <3>1, <3>2, <3>3, <3>4, TokenSettled
  <2> QED
    BY <1>2, <1>3, <2>1
<1>12. \A id \in Ids : t.state[id] = IF id = X THEN "none" ELSE s.state[id]
  BY <1>1, <1>7
<1>13. StatesFit(t)
  BY <1>12 DEF StatesFit
<1>14. ASSUME conf.server
       PROVE  InLine(t)
  <2> DEFINE q == Len(s.queued)
             at(i) == IF i < x THEN i ELSE i + 1
  <2>1. /\ \A k \in 1..q : s.state[s.queued[k]] = "invalid"
        /\ \A i \in 1..n, k \in 1..q : s.inflight[i].id < s.queued[k]
        /\ \A k, l \in 1..q : k < l => s.queued[k] < s.queued[l]
        /\ \A id \in Ids : s.state[id] # "none" =>
             \/ \E i \in 1..n : s.inflight[i].id = id
             \/ \E k \in 1..q : s.queued[k] = id
    BY <1>2, <1>14 DEF Line, InLine, n
  <2>2. \A k \in 1..q : s.queued[k] \in Ids
    BY InflightType
  <2> HIDE DEF q
  <2>3. \A k \in 1..q : t.state[s.queued[k]] = "invalid"
    BY <1>5, <1>12, <2>1, <2>2
  <2>4. \A i \in 1..(n - 1) : at(i) \in 1..n /\ t.inflight[i] = s.inflight[at(i)]
    BY <1>1, <1>7
  <2>5. ASSUME NEW i \in 1..n, i # x
        PROVE  \E j \in 1..(n - 1) : t.inflight[j].id = s.inflight[i].id
    <3>1. CASE i < x
      <4>1. i \in 1..(n - 1) /\ at(i) = i
        BY <1>1, <3>1
      <4> QED
        BY <2>4, <4>1
    <3>2. CASE i > x
      <4>1. i - 1 \in 1..(n - 1) /\ at(i - 1) = i
        BY <1>1, <3>2
      <4> QED
        BY <2>4, <4>1
    <3> QED
      BY <1>1, <2>5, <3>1, <3>2
  <2> HIDE DEF at
  <2>6. \A i \in 1..(n - 1), k \in 1..q : t.inflight[i].id < s.queued[k]
    BY <2>1, <2>4
  <2>7. ASSUME NEW id \in Ids, t.state[id] # "none"
        PROVE  \/ \E i \in 1..(n - 1) : t.inflight[i].id = id
               \/ \E k \in 1..q : s.queued[k] = id
    <3>1. id # X /\ s.state[id] # "none"
      BY <1>12, <2>7
    <3>2. ASSUME NEW i \in 1..n, s.inflight[i].id = id
          PROVE  \E j \in 1..(n - 1) : t.inflight[j].id = id
      <4>1. i # x
        BY <3>1, <3>2 DEF X
      <4> QED
        BY <2>5, <3>2, <4>1
    <3> QED
      BY <2>1, <3>1, <3>2
  <2>8. Len(t.queued) = q
    BY <1>7 DEF q
  <2> QED
    BY <1>7, <2>1, <2>3, <2>6, <2>7, <2>8 DEF InLine
<1> DEFINE f == Refill(t)
<1>15. /\ f \in Sender /\ f.state = t.state /\ f.lastMid = t.lastMid
       /\ f.packets = t.packets
       /\ \A i \in 1..(n - 1) : f.inflight[i] = t.inflight[i]
       /\ Releases(f, FALSE, n - 1) /\ n - 1 \in 0..Len(f.inflight)
       /\ Len(f.inflight) <= MaxInflight
       /\ conf.server => Line(f)
  <2>1. CASE conf.server
    <3>1. f = Fill(t)
      BY <2>1 DEF Refill
    <3>2. /\ Line(f) /\ Releases(f, FALSE, n - 1)
          /\ Len(f.inflight) <= MaxInflight
          /\ n - 1 \in 0..Len(f.inflight)
      <4>1. /\ Line(Fill(t)) /\ Releases(Fill(t), FALSE, Len(t.inflight))
            /\ Len(Fill(t).inflight) <= MaxInflight
            /\ Len(t.inflight) \in 0..Len(Fill(t).inflight)
        BY <1>7, <1>10, <1>11, <1>14, <2>1, FillLine DEF Limited
      <4> HIDE DEF f
      <4> QED
        BY <1>7, <3>1, <4>1
    <3>3. /\ Fill(t) \in Sender /\ Fill(t).state = t.state
          /\ Fill(t).lastMid = t.lastMid /\ Fill(t).packets = t.packets
          /\ \A i \in 1..Len(t.inflight) : Fill(t).inflight[i] = t.inflight[i]
      BY <1>7, FillDoes
    <3> HIDE DEF f
    <3> QED
      BY <1>7, <3>1, <3>2, <3>3
  <2>2. CASE ~conf.server
    <3>1. f = t
      BY <2>2 DEF Refill
    <3> HIDE DEF f
    <3>2. Releases(t, FALSE, n - 1)
      <4>1. /\ n - 1 \in 0..Len(t.inflight)
            /\ \A i \in n..(n - 1) : FALSE
        BY <1>1, <1>7, <1>10
      <4>2. /\ \A i, j \in 1..Len(t.inflight) :
                 t.inflight[i].id = t.inflight[j].id => i = j
            /\ \A i \in 1..(n - 1) : t.inflight[i].id \in Begun(t)
        BY <1>7, <1>11 DEF Lists
      <4>3. \A i \in (n - 1 + 1)..Len(t.inflight) :
              t.state[t.inflight[i].id] = "invalid"
        <5>1. \A i \in (n - 1 + 1)..(n - 1) : FALSE
          BY <1>10
        <5> QED
          BY <1>7, <5>1
      <4> QED
        BY <1>7, <4>1, <4>2, <4>3, ReleasesFresh
    <3>3. n - 1 \in 0..Len(t.inflight)
      BY <1>7, <1>10
    <3> QED
      BY <1>7, <1>10, <2>2, <3>1, <3>2, <3>3
  <2> QED
    BY <2>1, <2>2
<1> HIDE DEF f
<1>16. Pipe(b, f) = Q
  BY <1>15 DEF Pipe, Q
<1>17. StatesFit(f)
  BY <1>13, <1>15 DEF StatesFit
<1>18. /\ Mids(f, n - 1) /\ Tokens(f, Q, n - 1) /\ Ages(f, Q, Len(b), n - 1)
       /\ Covered(t, Q, n - 1) => Covered(f, Q, n - 1)
  <2>1. \A i \in 1..(n - 1) :
          /\ f.inflight[i] = t.inflight[i]
          /\ f.state[t.inflight[i].id] = t.state[t.inflight[i].id]
    BY <1>15
  <2>2. /\ Mids(t, n - 1) => Mids(f, n - 1)
        /\ Tokens(t, Q, n - 1) => Tokens(f, Q, n - 1)
        /\ Covered(t, Q, n - 1) => Covered(f, Q, n - 1)
        /\ Ages(t, Q, Len(b), n - 1) => Ages(f, Q, Len(b), n - 1)
    BY <1>10, <1>15, <2>1, Extended
  <2> QED
    BY <1>11, <2>2
<1> DEFINE e == Release(f, FALSE)
<1>19. /\ StatesFit(e) /\ Window(e, b, lk)
       /\ \A id \in Ids : e.state[id] = "none" <=> f.state[id] = "none"
  <2>1. lk = "open" => Covered(f, Pipe(b, f), n - 1)
    BY <1>2, <1>11, <1>16, <1>18
  <2> QED
    BY <1>3, <1>15, <1>16, <1>17, <1>18, <2>1, ReleaseWindow
<1>20. r = e
  BY <1>8 DEF f
<1> HIDE DEF e
<1>21. \A id \in Ids : s.state[id] = "none" => r.state[id] = "none"
  BY <1>12, <1>15, <1>19, <1>20
<1> QED
  BY <1>19, <1>20, <1>21 DEF r, b, mid

\* No more numbers in order than there are elements.
LEMMA AtMost ==
  ASSUME NEW S, IsFiniteSet(S), NEW j \in Nat, NEW f,
         \A k \in 1..j : f[k] \in S, \A k, l \in 1..j : f[k] = f[l] => k = l
  PROVE  j <= Cardinality(S)
<1> DEFINE g == [k \in 1..j |-> f[k]]
<1>1. g \in Injection(1..j, S)
  BY DEF Injection, IsInjective
<1>2. Cardinality(1..j) <= Cardinality(S)
  BY <1>1, FS_Injection
<1>3. Cardinality(1..j) = j
  <2>1. 1 \in Int /\ j \in Int
    OBVIOUS
  <2>2. Cardinality(1..j) = IF 1 > j THEN 0 ELSE j - 1 + 1
    BY <2>1, FS_Interval
  <2> QED
    BY <2>2
<1> QED
  BY <1>2, <1>3

\* No more elements than there are places for them.
LEMMA AtMostPlaces ==
  ASSUME NEW S, NEW n \in Nat, NEW at, \A x \in S : at[x] \in 1..n,
         \A x, y \in S : at[x] = at[y] => x = y
  PROVE  Cardinality(S) <= n
<1> DEFINE g == [x \in S |-> at[x]]
<1>1. g \in Injection(S, 1..n)
  BY DEF Injection, IsInjective
<1>2. IsFiniteSet(1..n) /\ Cardinality(1..n) = n
  <2>1. 1 \in Int /\ n \in Int
    OBVIOUS
  <2>2. /\ IsFiniteSet(1..n)
        /\ Cardinality(1..n) = IF 1 > n THEN 0 ELSE n - 1 + 1
    BY <2>1, FS_Interval
  <2> QED
    BY <2>2
<1>3. Cardinality(S) <= Cardinality(1..n)
  BY <1>1, <1>2, FS_Injection
<1> QED
  BY <1>2, <1>3

\* The rows that were sent are pending rows.
LEMMA BegunFacts ==
  ASSUME NEW s
  PROVE  /\ IsFiniteSet(Begun(s)) /\ Cardinality(Begun(s)) \in Nat
         /\ Begun(s) \subseteq Pending(s)
<1>1. Begun(s) \in SUBSET Pending(s)
  BY DEF Begun, Pending
<1>2. IsFiniteSet(Begun(s))
  BY <1>1, PendingFacts, FS_Subset
<1> QED
  BY <1>1, <1>2, FS_CardinalityType

\* tr2q_load(): the rows that were sent fit in the window, the rest queues.
LEMMA LoadLine ==
  ASSUME MaxInflight > 0, NEW s \in Sender, Rows(s)
  PROVE  Line(Load(s))
<1> DEFINE f == Load(s)
           rows == Ordered(Pending(s))
           q == Cardinality(Pending(s))
<1>1. /\ f \in Sender /\ f.state = s.state
      /\ \E m \in 0..q :
           /\ Len(f.inflight) = m /\ Len(f.queued) = q - m
           /\ \A i \in 1..m : f.inflight[i] = [id |-> rows[i], mid |-> 0]
           /\ \A k \in 1..(q - m) : f.queued[k] = rows[m + k]
           /\ m < q => ~Room(f.inflight)
           /\ m > 0 /\ MaxInflight > 0 => m <= MaxInflight
  BY LoadDoes
<1>2. /\ q \in Nat /\ rows \in [1..q -> Pending(s)]
      /\ \A x \in Pending(s) : \E k \in 1..q : rows[k] = x
      /\ \A k, l \in 1..q : k < l => rows[k] < rows[l]
  BY PendingFacts, OrderedDoes
<1> HIDE DEF f, rows, q
<1>3. PICK m \in 0..q :
        /\ Len(f.inflight) = m /\ Len(f.queued) = q - m
        /\ \A i \in 1..m : f.inflight[i] = [id |-> rows[i], mid |-> 0]
        /\ \A k \in 1..(q - m) : f.queued[k] = rows[m + k]
        /\ m < q => ~Room(f.inflight)
  BY <1>1
<1>4. /\ m \in Nat /\ m <= q /\ MaxInflight \in Nat
      /\ \A i \in 1..m : i \in 1..q
      /\ \A k \in 1..(q - m) : m + k \in 1..q
      /\ \A i \in 1..m, k \in 1..(q - m) : i < m + k
  BY <1>2, <1>3, MqttAssumption
<1>5. \A k \in 1..q : /\ rows[k] \in Ids /\ rows[k] \in Nat
                      /\ s.state[rows[k]] # "none"
  BY <1>2 DEF Pending, Ids
<1>6. \A k, l \in 1..q : rows[k] = rows[l] => k = l
  <2> SUFFICES ASSUME NEW k \in 1..q, NEW l \in 1..q, rows[k] = rows[l]
               PROVE  k = l
    OBVIOUS
  <2>1. rows[k] \in Nat
    BY <1>5
  <2>2. ~(k < l) /\ ~(l < k)
    BY <1>2, <2>1
  <2>3. k \in Nat /\ l \in Nat
    BY <1>2
  <2> QED
    BY <2>2, <2>3
<1>7. \A i \in 1..m : f.inflight[i].id = rows[i]
  <2> SUFFICES ASSUME NEW i \in 1..m PROVE f.inflight[i].id = rows[i]
    OBVIOUS
  <2>1. f.inflight[i] = [id |-> rows[i], mid |-> 0]
    BY <1>3
  <2> QED
    BY <2>1
<1>8. ASSUME NEW k \in 1..(q - m)
      PROVE  s.state[rows[m + k]] = "invalid"
  <2> SUFFICES ASSUME s.state[rows[m + k]] # "invalid" PROVE FALSE
    OBVIOUS
  <2> DEFINE x == m + k
  <2>1. x \in 1..q /\ x \in Nat /\ m < x /\ m < q
    BY <1>2, <1>4
  <2>2. m >= MaxInflight
    <3>1. ~Room(f.inflight)
      BY <1>3, <2>1
    <3> QED
      BY <1>3, <1>4, <3>1 DEF Room
  <2>3. rows[x] \in Begun(s)
    BY <1>5, <2>1 DEF Begun
  <2> HIDE DEF x
  <2>4. \A i \in 1..x : i \in 1..q
    BY <1>2, <2>1
  <2>5. ASSUME NEW i \in 1..x
        PROVE  rows[i] \in Begun(s)
    <3>1. CASE i = x
      BY <2>3, <3>1
    <3>2. CASE i # x
      <4>1. i < x /\ i \in 1..q
        BY <2>1, <2>4, <3>2
      <4>2. rows[i] < rows[x] /\ rows[i] \in Ids
        BY <1>2, <1>5, <2>1, <4>1
      <4>3. s.state[rows[i]] # "invalid" /\ s.state[rows[i]] # "none"
        BY <1>5, <2>3, <4>1, <4>2 DEF Rows
      <4> QED
        BY <4>2, <4>3 DEF Begun
    <3> QED
      BY <3>1, <3>2
  <2>6. x <= Cardinality(Begun(s))
    <3>1. IsFiniteSet(Begun(s))
      BY BegunFacts
    <3>2. \A i, j \in 1..x : rows[i] = rows[j] => i = j
      BY <1>6, <2>4
    <3> QED
      BY <2>1, <2>5, <3>1, <3>2, AtMost
  <2>7. Cardinality(Begun(s)) <= MaxInflight /\ Cardinality(Begun(s)) \in Nat
    BY BegunFacts DEF Rows
  <2> QED
    BY <1>4, <2>1, <2>2, <2>6, <2>7
<1>9. \A k \in 1..(q - m) : f.state[f.queued[k]] = "invalid"
  BY <1>1, <1>3, <1>8
<1>10. \A i \in 1..m, k \in 1..(q - m) : f.inflight[i].id < f.queued[k]
  BY <1>2, <1>3, <1>4, <1>7
<1>11. ASSUME NEW k \in 1..(q - m), NEW l \in 1..(q - m), k < l
       PROVE  f.queued[k] < f.queued[l]
  <2>1. m + k \in 1..q /\ m + l \in 1..q /\ m + k < m + l
    BY <1>2, <1>4, <1>11
  <2>2. f.queued[k] = rows[m + k] /\ f.queued[l] = rows[m + l]
    BY <1>3
  <2> QED
    BY <1>2, <2>1, <2>2
<1>12. Room(f.inflight) => q - m = 0
  BY <1>2, <1>3, <1>4
<1>13. ASSUME NEW id \in Ids, f.state[id] # "none"
       PROVE  \/ \E i \in 1..m : f.inflight[i].id = id
              \/ \E k \in 1..(q - m) : f.queued[k] = id
  <2>1. PICK x \in 1..q : rows[x] = id
    BY <1>1, <1>2, <1>13 DEF Pending
  <2>2. CASE x <= m
    <3>1. x \in 1..m
      BY <1>4, <2>2
    <3> QED
      BY <1>7, <2>1, <3>1
  <2>3. CASE x > m
    <3> DEFINE k == x - m
    <3>1. k \in 1..(q - m) /\ m + k = x
      BY <1>2, <1>4, <2>3
    <3> HIDE DEF k
    <3>2. f.queued[k] = rows[x]
      BY <1>3, <3>1
    <3> QED
      BY <2>1, <3>1, <3>2
  <2> QED
    BY <1>2, <1>4, <2>2, <2>3
<1>14. Line(f)
  <2>1. Len(f.inflight) = m /\ Len(f.queued) = q - m
    BY <1>3
  <2> QED
    BY <2>1, <1>9, <1>10, <1>11, <1>12, <1>13 DEF Line, InLine
<1> QED
  BY <1>14 DEF f

\* When a connection begins all that is inflight is sent, each with a new id, in
\* the order of the rows.
LEMMA LoadReleases ==
  ASSUME MaxInflight > 0, NEW s \in Sender
  PROVE  LET f == Load(s)
             n == Len(f.inflight)
         IN  /\ f \in Sender /\ f.state = s.state /\ f.packets = s.packets
             /\ n <= MaxInflight /\ 0 \in 0..n
             /\ \A i, j \in 1..n : i < j => f.inflight[i].id < f.inflight[j].id
             /\ Releases(f, TRUE, 0)
<1> DEFINE f == Load(s)
           rows == Ordered(Pending(s))
           q == Cardinality(Pending(s))
<1>1. /\ f \in Sender
      /\ f.state = s.state /\ f.packets = s.packets
      /\ \E m \in 0..q :
           /\ Len(f.inflight) = m /\ Len(f.queued) = q - m
           /\ \A i \in 1..m : f.inflight[i] = [id |-> rows[i], mid |-> 0]
           /\ \A k \in 1..(q - m) : f.queued[k] = rows[m + k]
           /\ m < q => ~Room(f.inflight)
           /\ m > 0 /\ MaxInflight > 0 => m <= MaxInflight
  BY LoadDoes
<1>2. /\ q \in Nat /\ rows \in [1..q -> Pending(s)]
      /\ \A x \in Pending(s) : \E k \in 1..q : rows[k] = x
      /\ \A k, l \in 1..q : k < l => rows[k] < rows[l]
  BY PendingFacts, OrderedDoes
<1> HIDE DEF f, rows, q
<1>3. PICK m \in 0..q :
        /\ Len(f.inflight) = m
        /\ \A i \in 1..m : f.inflight[i] = [id |-> rows[i], mid |-> 0]
        /\ m > 0 /\ MaxInflight > 0 => m <= MaxInflight
  BY <1>1
<1>4. /\ m \in Nat /\ m <= MaxInflight /\ \A i \in 1..m : i \in 1..q
      /\ DOMAIN f.inflight = 1..m
  BY <1>1, <1>2, <1>3, MqttAssumption, InflightType
<1>5. ASSUME NEW i \in 1..m
      PROVE  /\ f.inflight[i].id = rows[i] /\ f.inflight[i].mid = 0
             /\ rows[i] \in Nat /\ f.state[rows[i]] # "none"
             /\ f.state[rows[i]] \in States
  <2>1. f.inflight[i] = [id |-> rows[i], mid |-> 0]
    BY <1>3
  <2>2. rows[i] \in Pending(s)
    BY <1>2, <1>4
  <2>3. rows[i] \in Ids /\ f.state[rows[i]] # "none" /\ f.state \in [Ids -> States]
    BY <1>1, <2>2 DEF Pending, Sender
  <2>4. f.inflight[i].id = rows[i] /\ f.inflight[i].mid = 0
    BY <2>1
  <2>5. rows[i] \in Nat
    BY <2>3 DEF Ids
  <2>6. f.state[rows[i]] \in States
    BY <2>3
  <2> QED
    BY <2>3, <2>4, <2>5, <2>6
<1>6. Sends(f, TRUE) = 1..m
  <2>1. \A i \in 1..m :
          LET state == f.state[f.inflight[i].id]
          IN  \/ state = "invalid" \/ Resends(TRUE, state)
              \/ TRUE /\ state = "wait_for_pubcomp"
    BY <1>5 DEF Resends, States
  <2> QED
    BY <1>4, <2>1 DEF Sends
<1>7. TakesMid(f, TRUE) = 1..m
  BY <1>5, <1>6 DEF TakesMid
<1>8. ASSUME NEW i \in 1..m, NEW j \in 1..m, f.inflight[i].id = f.inflight[j].id
      PROVE  i = j
  <2>1. rows[i] = rows[j] /\ i \in 1..q /\ j \in 1..q /\ rows[i] \in Nat
    BY <1>4, <1>5, <1>8
  <2>2. ~(i < j) /\ ~(j < i)
    BY <1>2, <2>1
  <2>3. i \in Nat /\ j \in Nat
    BY <1>4
  <2> QED
    BY <2>2, <2>3
<1>9. Releases(f, TRUE, 0)
  <2>1. 0 + 1 = 1
    OBVIOUS
  <2>2. \A i \in 1..0 : FALSE
    OBVIOUS
  <2>3. \A i \in 1..m : f.state[f.inflight[i].id] # "none"
    BY <1>5
  <2> QED
    BY <1>3, <1>6, <1>7, <1>8, <2>1, <2>2, <2>3 DEF Releases
<1>10. \A i, j \in 1..m : i < j => f.inflight[i].id < f.inflight[j].id
  <2>1. \A i, j \in 1..m : i < j => rows[i] < rows[j]
    BY <1>2, <1>4
  <2> QED
    BY <1>5, <2>1
<1>11. Len(f.inflight) = m /\ 0 \in 0..m
  BY <1>3, <1>4
<1> QED
  BY <1>1, <1>4, <1>9, <1>10, <1>11 DEF f

\* A session that resumes sends again all that it finds room for.
LEMMA ConnectWindow ==
  ASSUME ConfType, MaxInflight > 0, MaxMid >= 2 * MaxInflight - 1,
         NEW s \in Sender, s.packets = <<>>, StatesFit(s), conf.server => Rows(s), NEW lk
  PROVE  LET r == Release(Load(s), TRUE)
         IN  /\ StatesFit(r) /\ Window(r, <<>>, lk)
             /\ \A id \in Ids : r.state[id] = "none" <=> s.state[id] = "none"
<1> DEFINE f == Load(s)
           a == <<>>
<1>1. /\ f \in Sender /\ f.state = s.state /\ f.packets = <<>>
      /\ Len(f.inflight) <= MaxInflight /\ 0 \in 0..Len(f.inflight)
      /\ Releases(f, TRUE, 0)
  BY LoadReleases
<1>2. conf.server => Line(f)
  BY LoadLine
<1> HIDE DEF f, a
<1>3. a \in Seq(AnswerPacket) /\ Len(a) = 0 /\ Len(f.packets) = 0
  <2>1. <<>> \in Seq(AnswerPacket) /\ Len(<<>>) = 0
    BY EmptySeq
  <2> QED
    BY <1>1, <2>1 DEF a
<1>4. Len(Pipe(a, f)) = 0
  <2>1. a \in Seq(AnswerPacket) /\ f \in Sender
    BY <1>1, <1>3
  <2>2. /\ Len(a) \in Nat /\ Len(f.packets) \in Nat
        /\ Len(Pipe(a, f)) = Len(a) + Len(f.packets) /\ Len(Pipe(a, f)) \in Nat
        /\ \A p \in 1..Len(a) : Pipe(a, f)[p] = a[p]
        /\ \A k \in 1..Len(f.packets) : Pipe(a, f)[Len(a) + k] = f.packets[k]
    BY <2>1, PipeDoes
  <2> QED
    BY <1>3, <2>2
<1>5. /\ Mids(f, 0) /\ Tokens(f, Pipe(a, f), 0) /\ Ages(f, Pipe(a, f), Len(a), 0)
       /\ Covered(f, Pipe(a, f), 0)
  <2>1. \A i \in 1..0 : FALSE
    OBVIOUS
  <2> QED
    BY <1>4, <2>1 DEF Mids, Tokens, Ages, Covered
<1>6. StatesFit(f)
  BY <1>1 DEF StatesFit
<1> DEFINE r == Release(f, TRUE)
<1>7. /\ StatesFit(r) /\ Window(r, a, lk)
       /\ \A id \in Ids : r.state[id] = "none" <=> f.state[id] = "none"
  <2>1. Len(f.inflight) <= MaxInflight /\ 0 \in 0..Len(f.inflight) /\ TRUE \in BOOLEAN
    BY <1>1
  <2> QED
    BY <1>1, <1>2, <1>3, <1>5, <1>6, <2>1, ReleaseWindow
<1> QED
  BY <1>1, <1>7 DEF r, f, a

\* What the memory of a connection leaves, when it is forgotten
LEMMA LineLeaves ==
  ASSUME MaxInflight > 0, NEW s \in Sender, Limited(s.inflight),
         Lists(s, Len(s.inflight)), Line(s)
  PROVE  Rows(s)
<1> DEFINE n == Len(s.inflight)
           q == Len(s.queued)
<1>1. /\ n \in Nat /\ n <= MaxInflight /\ MaxInflight \in Nat
      /\ \A i \in 1..n : s.inflight[i].id \in Ids
      /\ \A k \in 1..q : s.queued[k] \in Ids
  BY InflightType, MqttAssumption DEF Limited
<1>2. /\ \A k \in 1..q : s.state[s.queued[k]] = "invalid"
      /\ \A i \in 1..n, k \in 1..q : s.inflight[i].id < s.queued[k]
      /\ \A id \in Ids : s.state[id] # "none" =>
           \/ \E i \in 1..n : s.inflight[i].id = id
           \/ \E k \in 1..q : s.queued[k] = id
  BY DEF Line, InLine
<1>3. \A i \in 1..n : s.inflight[i].id \in Begun(s)
  BY DEF Lists
<1> HIDE DEF n, q
<1>4. ASSUME NEW b \in Begun(s)
      PROVE  b \in Ids /\ \E i \in 1..n : s.inflight[i].id = b
  BY <1>2 DEF Begun
<1>5. ASSUME NEW a \in Ids, NEW b \in Begun(s), a < b
      PROVE  s.state[a] # "invalid"
  <2> SUFFICES ASSUME s.state[a] = "invalid" PROVE FALSE
    OBVIOUS
  <2>1. PICK i \in 1..n : s.inflight[i].id = b
    BY <1>4
  <2>2. \A j \in 1..n : s.inflight[j].id # a
    BY <1>3 DEF Begun
  <2>3. PICK k \in 1..q : s.queued[k] = a
    BY <1>2, <2>2
  <2>4. b < a
    BY <1>2, <2>1, <2>3
  <2>5. a \in Nat /\ b \in Nat
    BY <1>4 DEF Ids
  <2> QED
    BY <1>5, <2>4, <2>5
<1>6. Cardinality(Begun(s)) <= n
  <2> DEFINE at == [b \in Begun(s) |-> CHOOSE i \in 1..n : s.inflight[i].id = b]
  <2>1. \A b \in Begun(s) : at[b] \in 1..n /\ s.inflight[at[b]].id = b
    BY <1>4
  <2> HIDE DEF at
  <2>2. \A b, c \in Begun(s) : at[b] = at[c] => b = c
    BY <2>1
  <2> QED
    BY <1>1, <2>1, <2>2, AtMostPlaces
<1>7. Cardinality(Begun(s)) <= MaxInflight
  BY <1>1, <1>6, BegunFacts
<1> QED
  BY <1>5, <1>7 DEF Rows

\* The receiver reads a packet: it answers, or refuses and closes.
LEMMA ReadWindow ==
  ASSUME ConfType, MaxInflight > 0, NEW s \in Sender, NEW a \in Seq(AnswerPacket),
         s.packets # <<>>, NEW lk \in {"open", "senderCloses"},
         StatesFit(s), Window(s, a, lk)
  PROVE  LET t == [s EXCEPT !.packets = Tail(@)]
             p == Head(s.packets)
         IN  /\ t \in Sender /\ t.state = s.state /\ StatesFit(t)
             /\ \A e \in AnswerPacket :
                  /\ e.mid = p.mid
                  /\ p.type = "PUBLISH" =>
                       e.type = IF conf.qos[p.id] = 1 THEN "PUBACK" ELSE "PUBREC"
                  /\ p.type = "PUBREL" => e.type = "PUBCOMP"
                  => Window(t, Append(a, e), lk)
             /\ p.type = "PUBLISH" =>
                  Window(t, a, IF lk = "open" THEN "receiverCloses" ELSE lk)
<1> DEFINE t == [s EXCEPT !.packets = Tail(@)]
           n == Len(s.inflight)
           P == Pipe(a, s)
           L == Len(P)
           q == Len(a) + 1
           h == Head(s.packets)
<1>1. s.packets \in Seq(OutPacket)
  BY DEF Sender
<1>2. h \in OutPacket /\ Tail(s.packets) \in Seq(OutPacket)
  BY <1>1, HeadTailProperties
<1>3. /\ t \in Sender /\ t.state = s.state /\ t.inflight = s.inflight
      /\ t.queued = s.queued /\ t.lastMid = s.lastMid /\ t.packets = Tail(s.packets)
  BY <1>2 DEF Sender
<1> HIDE DEF t
<1>4. /\ n \in Nat /\ Len(a) \in Nat /\ MaxInflight \in Nat /\ n \in 0..Len(s.inflight)
      /\ \A i \in 1..n : s.inflight[i].id \in Ids
  BY InflightType, LenProperties, MqttAssumption
<1>5. /\ Lists(s, n) /\ Mids(s, n) /\ Tokens(s, P, n)
      /\ conf.server => Line(s)
      /\ lk = "open" => Covered(s, P, n) /\ Ages(s, P, Len(a), n)
  BY DEF Window
<1>6. /\ q \in 1..L /\ L \in Nat
      /\ P[q] = h
      /\ Len(Pipe(a, t)) = L - 1
      /\ \A p \in 1..(L - 1) :
           Pipe(a, t)[p] = IF p < q THEN P[p] ELSE P[p + 1]
      /\ \A e \in AnswerPacket :
           /\ Append(a, e) \in Seq(AnswerPacket)
           /\ Len(Append(a, e)) = q
           /\ Len(Pipe(Append(a, e), t)) = L
           /\ \A p \in 1..L : Pipe(Append(a, e), t)[p] = IF p = q THEN e ELSE P[p]
  BY <1>3, PipeRead
<1> HIDE DEF n, P
<1>7. ASSUME NEW Q, NEW c, Tokens(s, Q, n)
      PROVE  /\ Lists(t, n) /\ Mids(t, n) /\ Tokens(t, Q, n)
             /\ Covered(s, Q, n) => Covered(t, Q, n)
             /\ Ages(s, Q, c, n) => Ages(t, Q, c, n)
             /\ Len(t.inflight) = n
             /\ conf.server => Line(t)
  <2>1. \A i \in 1..n : /\ t.inflight[i] = s.inflight[i]
                        /\ t.state[s.inflight[i].id] = s.state[s.inflight[i].id]
    BY <1>3
  <2>2. /\ Mids(s, n) => Mids(t, n)
        /\ Tokens(s, Q, n) => Tokens(t, Q, n)
        /\ Covered(s, Q, n) => Covered(t, Q, n)
        /\ Ages(s, Q, c, n) => Ages(t, Q, c, n)
    BY <1>3, <1>4, <2>1, Extended
  <2>3. Lists(t, n)
    BY <1>3, <1>5 DEF Lists, Begun
  <2>4. Line(s) => Line(t)
    BY <1>3 DEF Line, InLine
  <2> QED
    BY <1>3, <1>5, <1>7, <2>2, <2>3, <2>4 DEF n
<1>8. StatesFit(t)
  BY <1>3 DEF StatesFit
<1>9. ASSUME NEW e \in AnswerPacket,
             e.mid = h.mid,
             h.type = "PUBLISH" =>
               e.type = IF conf.qos[h.id] = 1 THEN "PUBACK" ELSE "PUBREC",
             h.type = "PUBREL" => e.type = "PUBCOMP"
      PROVE  Window(t, Append(a, e), lk)
  <2> DEFINE b == Append(a, e)
             Q == Pipe(b, t)
  <2>1. /\ Len(Q) = L /\ \A p \in 1..L : Q[p] = IF p = q THEN e ELSE P[p]
    BY <1>6
  <2>2. h.type \in {"PUBLISH", "PUBREL"}
    BY <1>2, PublishPacket
  <2>3. e.mid = P[q].mid /\ FirstPass(e) = FirstPass(P[q])
    BY <1>6, <1>9, <2>2 DEF FirstPass
  <2> HIDE DEF b, Q
  <2>4. ASSUME NEW i \in 1..n, Fits(s, P[q], s.inflight[i].id)
        PROVE  Fits(s, e, s.inflight[i].id)
    <3>1. CASE h.type = "PUBLISH"
      <4>1. h.id = s.inflight[i].id /\ s.state[h.id] = FirstWait(conf.qos[h.id])
        BY <1>6, <2>4, <3>1 DEF Fits
      <4> QED
        BY <1>9, <3>1, <4>1 DEF Fits, FirstWait
    <3>2. CASE h.type = "PUBREL"
      BY <1>6, <1>9, <2>4, <3>2 DEF Fits
    <3> QED
      BY <2>2, <3>1, <3>2
  <2>5. /\ Tokens(s, Q, n)
        /\ Covered(s, P, n) => Covered(s, Q, n)
        /\ \A c, d : Covered(s, P, n) /\ Ages(s, P, c, n) => Ages(s, Q, d, n)
    <3>1. Len(P) \in Nat /\ q \in 1..Len(P) /\ Len(Q) = Len(P)
          /\ \A p \in 1..Len(P) : Q[p] = IF p = q THEN e ELSE P[p]
      BY <1>6, <2>1
    <3> HIDE DEF q
    <3> QED
      BY <1>4, <1>5, <2>3, <2>4, <3>1, TokenAnswered
  <2>6. /\ Lists(t, n) /\ Mids(t, n) /\ Tokens(t, Q, n)
        /\ Covered(s, Q, n) => Covered(t, Q, n)
        /\ Ages(s, Q, Len(b), n) => Ages(t, Q, Len(b), n)
        /\ Len(t.inflight) = n
        /\ conf.server => Line(t)
    BY <1>7, <2>5
  <2>7. lk = "open" => Covered(t, Q, n) /\ Ages(t, Q, Len(b), n)
    BY <1>5, <2>5, <2>6
  <2>8. Window(t, b, lk)
    BY <2>6, <2>7 DEF Window, Q
  <2> QED
    BY <2>8 DEF b
<1>10. ASSUME h.type = "PUBLISH"
       PROVE  Window(t, a, IF lk = "open" THEN "receiverCloses" ELSE lk)
  <2> DEFINE Q == Pipe(a, t)
  <2>1. /\ Tokens(s, Q, n)
        /\ \A c \in Nat : Ages(s, P, c, n) /\ q = c + 1 /\ FirstPass(P[q]) =>
                            Ages(s, Q, c, n)
    <3>1. /\ Len(P) \in Nat /\ q \in 1..Len(P) /\ Len(Q) = Len(P) - 1
          /\ \A p \in 1..(Len(P) - 1) : Q[p] = IF p < q THEN P[p] ELSE P[p + 1]
      BY <1>6
    <3> HIDE DEF q, Q
    <3> QED
      BY <1>4, <1>5, <3>1, TokenLost
  <2>2. FirstPass(P[q])
    BY <1>6, <1>10 DEF FirstPass
  <2> HIDE DEF Q
  <2>3. /\ Lists(t, n) /\ Mids(t, n) /\ Tokens(t, Q, n)
        /\ Ages(s, Q, Len(a), n) => Ages(t, Q, Len(a), n)
        /\ Len(t.inflight) = n
        /\ conf.server => Line(t)
    BY <1>7, <2>1
  <2>4. lk = "open" => Ages(t, Q, Len(a), n)
    BY <1>4, <1>5, <2>1, <2>2, <2>3
  <2> QED
    BY <2>3, <2>4 DEF Window, Q
<1> QED
  BY <1>3, <1>8, <1>9, <1>10 DEF t

\* A row of a message that was not taken yet is not there.
Fresh == \A id \in Ids : id > accepted => out.state[id] = "none"

MatchInd ==
  /\ TypeInd /\ StatesFit(out) /\ Fresh
  /\ link = "closed" => /\ out.packets = <<>> /\ in.packets = <<>>
                        /\ conf.server => Rows(out)
  /\ link # "closed" => Window(out, in.packets, link)

\* A step has to establish these of its results.
LEMMA MatchKept ==
  ASSUME TypeInd', conf' = conf, StatesFit(out'),
         \A id \in Ids : id > accepted' => out'.state[id] = "none",
         link' = "closed" => /\ out'.packets = <<>> /\ in'.packets = <<>>
                             /\ conf.server => Rows(out'),
         link' # "closed" => Window(out', in'.packets, link')
  PROVE  MatchInd'
<1>1. StatesFit(out)'
  BY DEF StatesFit
<1>2. Fresh'
  BY DEF Fresh
<1>3. link' = "closed" => /\ out'.packets = <<>> /\ in'.packets = <<>>
                          /\ conf'.server => Rows(out)'
  BY DEF Rows, Begun
<1>4. ASSUME link' # "closed"
      PROVE  Window(out, in.packets, link)'
  <2>1. Window(out', in'.packets, link')
    BY <1>4
  <2> QED
    BY <2>1 DEF Window, Tokens, Fits
<1> QED
  BY <1>1, <1>2, <1>3, <1>4 DEF MatchInd

\* The receiver answers a packet in the one way that the sender awaits, or it
\* has no room for it and closes.
Answers(p, type) ==
  /\ in'.packets = Append(in.packets, Packet(type, p.mid))
  /\ UNCHANGED link

\* handle__publish_s(), handle__publish_c() and handle__pubrel() answer so.
LEMMA HandlePackets ==
  ASSUME ConfType, in \in Receiver, RowsKnown(in), Limited(in.held),
         NEW p \in OutPacket,
         IF p.type = "PUBLISH" THEN HandlePublish(p) ELSE HandlePubrel(p)
  PROVE  \/ /\ p.type = "PUBLISH"
            /\ Answers(p, IF conf.qos[p.id] = 1 THEN "PUBACK" ELSE "PUBREC")
         \/ p.type = "PUBREL" /\ Answers(p, "PUBCOMP")
         \/ /\ p.type = "PUBLISH" /\ in'.packets = in.packets
            /\ link' = IF link = "open" THEN "receiverCloses" ELSE link
<1>1. /\ p.mid \in 1..MaxMid /\ p.type \in {"PUBLISH", "PUBREL"}
      /\ p.type = "PUBLISH" => p.id \in Ids
  BY PublishPacket
<1>2. CASE p.type = "PUBLISH"
  <2> DEFINE s == WithoutDup(in, p)
             h == [s EXCEPT !.rows = @ + 1,
                            !.held = Append(@, [id |-> p.id, mid |-> p.mid,
                                                row |-> s.rows + 1])]
  <2>0. HandlePublish(p) /\ p.id \in Ids
    BY <1>1, <1>2
  <2>1. s \in Receiver /\ RowsKnown(s) /\ s.packets = in.packets
    BY WithoutDupTypes
  <2> HIDE DEF s
  <2>2. ASSUME conf.qos[p.id] = 1, in' = Answer(Deliver(in, p.id), "PUBACK", p.mid),
               UNCHANGED link
        PROVE  Answers(p, "PUBACK")
    <3> DEFINE d == Deliver(in, p.id)
    <3>1. d \in Receiver /\ d.packets = in.packets
      BY <2>0, DeliverTypes
    <3> HIDE DEF d
    <3>2. Answer(d, "PUBACK", p.mid).packets = Append(d.packets, Packet("PUBACK", p.mid))
      BY <1>1, <3>1, AnswerTypes
    <3> QED
      BY <2>2, <3>1, <3>2 DEF Answers, d
  <2>3. ASSUME conf.qos[p.id] = 2, Room(s.held), in' = Answer(h, "PUBREC", p.mid),
               UNCHANGED link
        PROVE  Answers(p, "PUBREC")
    <3>1. h \in Receiver /\ h.packets = s.packets
      BY <1>1, <2>0, <2>1, <2>3, HeldTypes
    <3> HIDE DEF h
    <3>2. Answer(h, "PUBREC", p.mid).packets = Append(h.packets, Packet("PUBREC", p.mid))
      BY <1>1, <3>1, AnswerTypes
    <3> QED
      BY <2>1, <2>3, <3>1, <3>2 DEF Answers
  <2>4. ASSUME in' = s, link' = IF link = "open" THEN "receiverCloses" ELSE link
        PROVE  /\ in'.packets = in.packets
               /\ link' = IF link = "open" THEN "receiverCloses" ELSE link
    BY <2>1, <2>4
  <2>5. \/ /\ conf.qos[p.id] = 1 /\ UNCHANGED link
           /\ in' = Answer(Deliver(in, p.id), "PUBACK", p.mid)
        \/ /\ conf.qos[p.id] = 2 /\ Room(s.held) /\ UNCHANGED link
           /\ in' = Answer(h, "PUBREC", p.mid)
        \/ in' = s /\ link' = IF link = "open" THEN "receiverCloses" ELSE link
    BY <2>0 DEF HandlePublish, s
  <2> HIDE DEF h
  <2> QED
    BY <1>2, <2>2, <2>3, <2>4, <2>5
<1>3. CASE p.type = "PUBREL"
  <2> DEFINE found == WithMid(in.held, p.mid)
             u == [in EXCEPT !.held = RemoveAt(@, First(found))]
             d == Deliver(u, in.held[First(found)].id)
             r == IF found = {} THEN in ELSE d
  <2>1. found \in SUBSET DOMAIN in.held
    BY DEF WithMid
  <2>2. in' = Answer(r, "PUBCOMP", p.mid) /\ UNCHANGED link
    BY <1>3 DEF HandlePubrel
  <2> HIDE DEF found
  <2>3. r \in Receiver /\ r.packets = in.packets
    <3>1. CASE found = {}
      BY <3>1
    <3>2. CASE found # {}
      <4>1. u \in Receiver /\ u.packets = in.packets
        BY <2>1, <3>2, UnheldTypes
      <4> HIDE DEF u
      <4>2. First(found) \in 1..Len(in.held)
        BY <2>1, <3>2, FirstDoes DEF Receiver
      <4>3. in.held[First(found)].id \in Ids
        <5>1. in.held[First(found)] \in Held
          BY <4>2, ElementOfSeq DEF Receiver
        <5> QED
          BY <5>1 DEF Held
      <4>4. d \in Receiver /\ d.packets = u.packets
        BY <4>1, <4>3, DeliverTypes
      <4> HIDE DEF d
      <4> QED
        BY <3>2, <4>1, <4>4
    <3> QED
      BY <3>1, <3>2
  <2> HIDE DEF r
  <2>4. Answer(r, "PUBCOMP", p.mid).packets = Append(r.packets, Packet("PUBCOMP", p.mid))
    BY <1>1, <2>3, AnswerTypes
  <2> QED
    BY <1>3, <2>2, <2>3, <2>4 DEF Answers
<1> QED
  BY <1>1, <1>2, <1>3

\* No connection, no packets and no rows: the invariant holds,
LEMMA MatchStarts == MaxInflight > 0 /\ Init => MatchInd
<1> SUFFICES ASSUME MaxInflight > 0, Init PROVE MatchInd
  OBVIOUS
<1>1. /\ link = "closed" /\ out.packets = <<>> /\ in.packets = <<>>
      /\ \A id \in Ids : out.state[id] = "none"
  BY DEF Init
<1>2. Begun(out) = {}
  BY <1>1 DEF Begun
<1>3. Cardinality(Begun(out)) <= MaxInflight
  BY <1>2, FS_EmptySet, MqttAssumption
<1>4. Rows(out)
  BY <1>2, <1>3 DEF Rows
<1>5. StatesFit(out)
  BY <1>1 DEF StatesFit
<1>6. Fresh
  BY <1>1 DEF Fresh
<1>7. TypeInd
  BY TypeStarts
<1> QED
  BY <1>1, <1>4, <1>5, <1>6, <1>7 DEF MatchInd

\* The conditions under which an id is not given again while it is in use:
\* there is a limit, and the ids do not wrap within two windows.
WindowFits == MaxInflight > 0 /\ MaxMid >= 2 * MaxInflight - 1

\* a message that is accepted keeps it,
LEMMA MatchAccept ==
  ASSUME WindowFits, MatchInd, TypeInd', Accept
  PROVE  MatchInd'
<1>1. /\ ConfType /\ out \in Sender /\ Limited(out.inflight) /\ in \in Receiver
      /\ accepted \in Nat /\ StatesFit(out) /\ in.packets \in Seq(AnswerPacket)
      /\ \A id \in Ids : id > accepted => out.state[id] = "none"
  BY MqttAssumption DEF MatchInd, TypeInd, Fresh, Receiver
<1>2. /\ accepted + 1 \in Ids /\ accepted' = accepted + 1
      /\ conf' = conf /\ in' = in /\ link' = link
      /\ \A id \in Ids : id \in Nat
  BY <1>1, MqttAssumption DEF Accept, Ids, TypeInd, MatchInd
<1>3. \A id \in Ids : id >= accepted + 1 => out.state[id] = "none"
  BY <1>1, <1>2
<1>4. \A id \in Ids : id > accepted' => id # accepted + 1 /\ id > accepted
  BY <1>1, <1>2
<1>5. CASE SendMessage
  <2>1. link \in {"open", "receiverCloses"} /\ out' = Enqueue(out, accepted + 1)
    BY <1>5 DEF SendMessage
  <2>2. Window(out, in.packets, link)
    BY <2>1 DEF MatchInd
  <2>3. LET r == Enqueue(out, accepted + 1)
        IN  /\ StatesFit(r) /\ Window(r, in.packets, link)
            /\ \A b \in Ids : b > accepted + 1 => r.state[b] = "none"
    BY <1>1, <1>2, <1>3, <2>1, <2>2, EnqueueWindow DEF WindowFits
  <2>4. /\ StatesFit(out') /\ Window(out', in'.packets, link')
        /\ \A b \in Ids : b > accepted' => out'.state[b] = "none"
        /\ link' # "closed"
    BY <1>2, <2>1, <2>3
  <2> QED
    BY <1>2, <2>4, MatchKept
<1>6. CASE StoreMessage
  <2>1. /\ link = "closed" /\ conf.server
        /\ out' = [out EXCEPT !.state[accepted + 1] = "invalid"]
    BY <1>6 DEF StoreMessage
  <2>2. /\ out.packets = <<>> /\ in.packets = <<>> /\ Rows(out)
    BY <2>1 DEF MatchInd
  <2>3. /\ out'.packets = out.packets
        /\ out'.state = [out.state EXCEPT ![accepted + 1] = "invalid"]
        /\ out.state \in [Ids -> States]
    BY <1>1, <2>1 DEF Sender
  <2>4. /\ out'.state[accepted + 1] = "invalid"
        /\ \A id \in Ids : id # accepted + 1 => out'.state[id] = out.state[id]
    BY <1>2, <2>3
  <2>5. StatesFit(out')
    BY <1>1, <2>4 DEF StatesFit
  <2>6. Begun(out') = Begun(out)
    BY <1>2, <1>3, <2>4 DEF Begun
  <2>7. \A b \in Begun(out) : b \in Ids /\ ~(accepted + 1 < b)
    BY <1>1, <1>2, <1>3 DEF Begun
  <2>8. Rows(out')
    BY <2>2, <2>4, <2>6, <2>7 DEF Rows
  <2>9. \A id \in Ids : id > accepted' => out'.state[id] = "none"
    BY <1>1, <1>4, <2>4
  <2> QED
    BY <1>2, <2>1, <2>2, <2>3, <2>5, <2>8, <2>9, MatchKept
<1>7. CASE RouteToClosing
  <2>1. link = "senderCloses" /\ out' = out
    BY <1>7 DEF RouteToClosing
  <2>2. Window(out', in'.packets, link')
    BY <1>2, <2>1 DEF MatchInd
  <2>3. \A id \in Ids : id > accepted' => out'.state[id] = "none"
    BY <1>1, <1>4, <2>1
  <2>4. StatesFit(out') /\ link' # "closed"
    BY <1>1, <1>2, <2>1
  <2> QED
    BY <1>2, <2>2, <2>3, <2>4, MatchKept
<1> QED
  BY <1>5, <1>6, <1>7 DEF Accept

\* a packet that the receiver reads,
LEMMA MatchReceiver ==
  ASSUME WindowFits, MatchInd, TypeInd', ReceiverReads
  PROVE  MatchInd'
<1> DEFINE p == Head(out.packets)
           t == [out EXCEPT !.packets = Tail(@)]
<1>1. /\ ConfType /\ out \in Sender /\ in \in Receiver
      /\ RowsKnown(in) /\ Limited(in.held) /\ StatesFit(out)
      /\ in.packets \in Seq(AnswerPacket)
      /\ \A id \in Ids : id > accepted => out.state[id] = "none"
  BY DEF MatchInd, TypeInd, Fresh, Receiver
<1>2. /\ link \in {"open", "senderCloses"} /\ out.packets # <<>>
      /\ IF p.type = "PUBLISH" THEN HandlePublish(p) ELSE HandlePubrel(p)
      /\ out' = t /\ conf' = conf /\ accepted' = accepted
  BY DEF ReceiverReads
<1>3. Window(out, in.packets, link)
  BY <1>2 DEF MatchInd
<1>4. p \in OutPacket
  BY <1>1, <1>2, HeadTailProperties DEF Sender
<1>5. /\ t \in Sender /\ t.state = out.state /\ StatesFit(t)
      /\ \A e \in AnswerPacket :
           /\ e.mid = p.mid
           /\ p.type = "PUBLISH" =>
                e.type = IF conf.qos[p.id] = 1 THEN "PUBACK" ELSE "PUBREC"
           /\ p.type = "PUBREL" => e.type = "PUBCOMP"
           => Window(t, Append(in.packets, e), link)
      /\ p.type = "PUBLISH" =>
           Window(t, in.packets, IF link = "open" THEN "receiverCloses" ELSE link)
  BY <1>1, <1>2, <1>3, ReadWindow DEF WindowFits
<1> HIDE DEF p, t
<1>6. p.mid \in 1..MaxMid /\ p.type \in {"PUBLISH", "PUBREL"}
  BY <1>4, PublishPacket
<1>7. Window(t, in'.packets, link') /\ link' # "closed"
  <2>1. \/ /\ p.type = "PUBLISH"
           /\ Answers(p, IF conf.qos[p.id] = 1 THEN "PUBACK" ELSE "PUBREC")
        \/ p.type = "PUBREL" /\ Answers(p, "PUBCOMP")
        \/ /\ p.type = "PUBLISH" /\ in'.packets = in.packets
           /\ link' = IF link = "open" THEN "receiverCloses" ELSE link
    BY <1>1, <1>2, <1>4, HandlePackets
  <2>2. CASE /\ p.type = "PUBLISH"
             /\ Answers(p, IF conf.qos[p.id] = 1 THEN "PUBACK" ELSE "PUBREC")
    <3> DEFINE e == Packet(IF conf.qos[p.id] = 1 THEN "PUBACK" ELSE "PUBREC", p.mid)
    <3>1. /\ e \in AnswerPacket /\ e.mid = p.mid
          /\ e.type = IF conf.qos[p.id] = 1 THEN "PUBACK" ELSE "PUBREC"
      BY <1>6 DEF Packet, AnswerPacket
    <3>2. in'.packets = Append(in.packets, e) /\ link' = link
      BY <2>2 DEF Answers
    <3> HIDE DEF e
    <3> QED
      BY <1>2, <1>5, <2>2, <3>1, <3>2
  <2>3. CASE p.type = "PUBREL" /\ Answers(p, "PUBCOMP")
    <3> DEFINE e == Packet("PUBCOMP", p.mid)
    <3>1. e \in AnswerPacket /\ e.mid = p.mid /\ e.type = "PUBCOMP"
      BY <1>6 DEF Packet, AnswerPacket
    <3>2. in'.packets = Append(in.packets, e) /\ link' = link
      BY <2>3 DEF Answers
    <3> HIDE DEF e
    <3> QED
      BY <1>2, <1>5, <2>3, <3>1, <3>2
  <2>4. CASE /\ p.type = "PUBLISH" /\ in'.packets = in.packets
             /\ link' = IF link = "open" THEN "receiverCloses" ELSE link
    BY <1>2, <1>5, <2>4
  <2> QED
    BY <2>1, <2>2, <2>3, <2>4
<1>8. \A id \in Ids : id > accepted' => out'.state[id] = "none"
  BY <1>1, <1>2, <1>5
<1>9. StatesFit(out') /\ Window(out', in'.packets, link')
  BY <1>2, <1>5, <1>7
<1> QED
  BY <1>2, <1>7, <1>8, <1>9, MatchKept

\* an answer that the sender reads,
LEMMA MatchSender ==
  ASSUME WindowFits, MatchInd, TypeInd', SenderReads
  PROVE  MatchInd'
<1> DEFINE a == in.packets
<1>1. /\ ConfType /\ out \in Sender /\ Limited(out.inflight) /\ StatesFit(out)
      /\ a \in Seq(AnswerPacket)
      /\ \A id \in Ids : id > accepted => out.state[id] = "none"
  BY DEF MatchInd, TypeInd, Fresh, Receiver
<1>2. /\ link \in {"open", "receiverCloses"} /\ a # <<>>
      /\ out' = IF Head(a).type = "PUBREC" THEN Received(out, Head(a).mid)
                ELSE Settle(out, Head(a).mid)
      /\ conf' = conf /\ accepted' = accepted /\ link' = link
  BY DEF SenderReads
<1>3. in'.packets = Tail(a)
  BY DEF SenderReads, MatchInd, TypeInd, Receiver
<1>4. Window(out, a, link)
  BY <1>2 DEF MatchInd
<1> HIDE DEF a
<1>5. /\ StatesFit(out') /\ Window(out', Tail(a), link)
      /\ \A b \in Ids : out.state[b] = "none" => out'.state[b] = "none"
  <2>1. CASE Head(a).type = "PUBREC"
    <3>1. LET r == Received(out, Head(a).mid)
          IN  /\ StatesFit(r) /\ Window(r, Tail(a), link)
              /\ \A b \in Ids : r.state[b] = "none" <=> out.state[b] = "none"
      BY <1>1, <1>2, <1>4, <2>1, ReceivedWindow DEF WindowFits
    <3> QED
      BY <1>2, <2>1, <3>1
  <2>2. CASE Head(a).type # "PUBREC"
    <3>1. LET r == Settle(out, Head(a).mid)
          IN  /\ StatesFit(r) /\ Window(r, Tail(a), link)
              /\ \A b \in Ids : out.state[b] = "none" => r.state[b] = "none"
      BY <1>1, <1>2, <1>4, <2>2, SettleWindow DEF WindowFits
    <3> QED
      BY <1>2, <2>2, <3>1
  <2> QED
    BY <2>1, <2>2
<1>6. /\ \A id \in Ids : id > accepted' => out'.state[id] = "none"
      /\ Window(out', in'.packets, link') /\ link' # "closed"
  BY <1>1, <1>2, <1>3, <1>5
<1> QED
  BY <1>2, <1>5, <1>6, MatchKept

\* a new connection, whatever the last one left,
LEMMA MatchConnect ==
  ASSUME WindowFits, MatchInd, TypeInd', Connect
  PROVE  MatchInd'
<1> DEFINE s == [out EXCEPT !.lastMid = IF conf.server THEN savedMid ELSE 0]
           lk == "open"
<1>1. /\ ConfType /\ out \in Sender /\ StatesFit(out) /\ in \in Receiver
      /\ (IF conf.server THEN savedMid ELSE 0) \in 0..MaxMid
      /\ \A id \in Ids : id > accepted => out.state[id] = "none"
  BY MqttAssumption DEF MatchInd, TypeInd, Fresh
<1>2. /\ link = "closed" /\ link' = lk /\ out' = Release(Load(s), TRUE)
      /\ conf' = conf /\ accepted' = accepted /\ in' = in
  BY DEF Connect
<1>3. out.packets = <<>> /\ in.packets = <<>> /\ (conf.server => Rows(out))
  BY <1>2 DEF MatchInd
<1>4. s \in Sender /\ s.packets = <<>> /\ s.state = out.state
  BY <1>1, <1>3 DEF Sender
<1> HIDE DEF s
<1>5. StatesFit(s) /\ (conf.server => Rows(s))
  BY <1>1, <1>3, <1>4 DEF StatesFit, Rows, Begun
<1>6. lk # "closed"
  OBVIOUS
<1> HIDE DEF lk
<1>7. LET r == Release(Load(s), TRUE)
      IN  /\ StatesFit(r) /\ Window(r, <<>>, lk)
          /\ \A id \in Ids : r.state[id] = "none" <=> s.state[id] = "none"
  BY <1>1, <1>4, <1>5, ConnectWindow DEF WindowFits
<1>8. /\ StatesFit(out') /\ Window(out', in'.packets, link') /\ link' # "closed"
      /\ \A id \in Ids : id > accepted' => out'.state[id] = "none"
  BY <1>1, <1>2, <1>3, <1>4, <1>6, <1>7
<1> QED
  BY <1>2, <1>8, MatchKept

\* What a connection leaves: the rows of the broker, one window of them sent
LEMMA WindowLeaves ==
  ASSUME WindowFits, TypeInd, conf.server, NEW lk, Window(out, in.packets, lk)
  PROVE  Rows(out)
<1>1. out \in Sender /\ Limited(out.inflight) /\ MaxInflight > 0
  BY DEF TypeInd, WindowFits
<1>2. Lists(out, Len(out.inflight)) /\ Line(out)
  BY DEF Window
<1> QED
  BY <1>1, <1>2, LineLeaves

\* the end of a connection, with a topic deleted or not,
LEMMA MatchDisconnects ==
  ASSUME WindowFits, MatchInd, TypeInd', Disconnect \/ BrokerCrashes
  PROVE  MatchInd'
<1> DEFINE o == Forgotten(out)
           i == [in EXCEPT !.packets = <<>>]
<1>1. /\ TypeInd /\ out \in Sender /\ in \in Receiver /\ StatesFit(out)
      /\ \A id \in Ids : id > accepted => out.state[id] = "none"
  BY DEF MatchInd, TypeInd, Fresh
<1>2. /\ link # "closed" /\ link' = "closed" /\ conf' = conf /\ accepted' = accepted
      /\ out' = o \/ (conf.server /\ out' = OutDeleted(o))
      /\ in' = i \/ in' = InDeleted(i)
  BY DEF Disconnect, BrokerCrashes
<1>3. o \in Sender /\ o.packets = <<>> /\ o.state = out.state
  BY <1>1, ForgottenTypes
<1>4. i.packets = <<>> /\ InDeleted(i).packets = <<>>
  BY <1>1 DEF Receiver, InDeleted
<1> HIDE DEF o, i
<1>5. in'.packets = <<>>
  BY <1>2, <1>4
<1>6. Window(out, in.packets, link)
  BY <1>2 DEF MatchInd
<1>7. CASE out' = o
  <2>1. StatesFit(out')
    BY <1>1, <1>3, <1>7 DEF StatesFit
  <2>2. \A id \in Ids : id > accepted' => out'.state[id] = "none"
    BY <1>1, <1>2, <1>3, <1>7
  <2>3. ASSUME conf.server
        PROVE  Rows(out')
    <3>1. Rows(out)
      BY <1>1, <1>6, <2>3, WindowLeaves
    <3> QED
      BY <1>3, <1>7, <3>1 DEF Rows, Begun
  <2>4. out'.packets = <<>>
    BY <1>3, <1>7
  <2> QED
    BY <1>2, <1>5, <2>1, <2>2, <2>3, <2>4, MatchKept
<1>8. CASE out' = OutDeleted(o)
  <2>1. out'.packets = <<>> /\ \A id \in Ids : out'.state[id] = "none"
    BY <1>3, <1>8 DEF OutDeleted, Sender
  <2>2. StatesFit(out')
    BY <2>1 DEF StatesFit
  <2>3. Begun(out') = {}
    BY <2>1 DEF Begun
  <2>4. Cardinality(Begun(out')) <= MaxInflight
    BY <2>3, FS_EmptySet, MqttAssumption DEF WindowFits
  <2>5. Rows(out')
    BY <2>3, <2>4 DEF Rows
  <2> QED
    BY <1>2, <1>5, <2>1, <2>2, <2>5, MatchKept
<1> QED
  BY <1>2, <1>7, <1>8

\* and so every step.
LEMMA MatchStep == WindowFits /\ MatchInd /\ [Next]_vars => MatchInd'
<1> SUFFICES ASSUME WindowFits, MatchInd, [Next]_vars PROVE MatchInd'
  OBVIOUS
<1>1. TypeInd'
  BY TypeStep DEF MatchInd
<1>2. CASE Close
  <2>1. /\ link = "open" /\ link' \in {"senderCloses", "receiverCloses"}
        /\ UNCHANGED <<conf, accepted, out, in>>
    BY <1>2 DEF Close
  <2>2. Window(out, in.packets, link) /\ StatesFit(out) /\ Fresh
    BY <2>1 DEF MatchInd
  <2>3. Window(out, in.packets, link')
    BY <2>1, <2>2 DEF Window
  <2>4. Window(out', in'.packets, link') /\ StatesFit(out') /\ link' # "closed"
    BY <2>1, <2>2, <2>3
  <2>5. \A id \in Ids : id > accepted' => out'.state[id] = "none"
    BY <2>1, <2>2 DEF Fresh
  <2> QED
    BY <1>1, <2>1, <2>4, <2>5, MatchKept
<1>3. CASE UNCHANGED vars
  <2>1. UNCHANGED <<conf, accepted, out, in, link>>
    BY <1>3 DEF vars
  <2>2. /\ StatesFit(out')
        /\ \A id \in Ids : id > accepted' => out'.state[id] = "none"
        /\ link' = "closed" => /\ out'.packets = <<>> /\ in'.packets = <<>>
                               /\ conf.server => Rows(out')
        /\ link' # "closed" => Window(out', in'.packets, link')
    BY <2>1 DEF MatchInd, Fresh
  <2> QED
    BY <1>1, <2>1, <2>2, MatchKept
<1> QED
  BY <1>1, <1>2, <1>3, MatchAccept, MatchReceiver, MatchSender, MatchConnect,
     MatchDisconnects DEF Next

\* The oldest packet on its way about a message names it.
LEMMA MatchTells == MatchInd => AnswersMatch
<1> SUFFICES ASSUME MatchInd, link # "closed", NEW a \in Range(in.packets)
             PROVE  /\ Cardinality(WithMid(out.inflight, a.mid)) = 1
                    /\ \A i \in WithMid(out.inflight, a.mid) :
                         Expects(out.inflight[i].id, a.type)
  BY DEF AnswersMatch
<1> DEFINE n == Len(out.inflight)
           P == Pipe(in.packets, out)
<1>1. out \in Sender /\ in.packets \in Seq(AnswerPacket)
  BY DEF MatchInd, TypeInd, Receiver
<1>2. Mids(out, n) /\ Tokens(out, P, n)
  BY DEF MatchInd, Window
<1>3. PICK p \in 1..Len(in.packets) : a = in.packets[p]
  BY <1>1, LenProperties DEF Range
<1>4. a \in AnswerPacket
  BY <1>1, <1>3, ElementOfSeq
<1>5. p \in 1..Len(P) /\ P[p] = a
  <2>1. /\ Len(in.packets) \in Nat /\ Len(out.packets) \in Nat
        /\ Len(P) = Len(in.packets) + Len(out.packets)
        /\ \A r \in 1..Len(in.packets) : P[r] = in.packets[r]
    BY <1>1, PipeDoes
  <2> HIDE DEF P
  <2>2. p \in 1..Len(in.packets)
    BY <1>3
  <2> DEFINE c == Len(in.packets)
             d == Len(out.packets)
             l == Len(P)
  <2>3. c \in Nat /\ d \in Nat /\ l = c + d /\ p \in 1..c
    BY <2>1, <2>2
  <2> HIDE DEF c, d, l
  <2>4. p \in 1..l
    BY <2>3
  <2> QED
    BY <1>3, <2>1, <2>2, <2>4 DEF l
<1> HIDE DEF P
<1>6. PICK i \in 1..n : a.mid = out.inflight[i].mid /\ Fits(out, a, out.inflight[i].id)
  BY <1>2, <1>5 DEF Tokens
<1>7. WithMid(out.inflight, a.mid) = {i}
  BY <1>1, <1>2, <1>6, FoundByMid
<1>8. Cardinality({i}) = 1
  BY FS_Singleton
<1>9. Expects(out.inflight[i].id, a.type)
  BY <1>4, <1>6 DEF Expects, Fits, AnswerPacket
<1> QED
  BY <1>7, <1>8, <1>9

\* Whatever breaks and whichever end closes, an answer that the sender still
\* reads finds one message by its id, and the one that waits for it: however
\* often mqtt_mid_generate() wraps and each connection begins anew, as long as
\* there is a limit to the messages inflight and two windows of it, less one,
\* have ids (tr2q_get_by_mid, handle__pubackcomp, handle__pubrec).
THEOREM MqttAnswersMatch ==
  ASSUME MaxInflight > 0, MaxMid >= 2 * MaxInflight - 1
  PROVE  Spec => []AnswersMatch
<1>1. WindowFits
  BY DEF WindowFits
<1>2. Init => MatchInd
  BY <1>1, MatchStarts DEF WindowFits
<1>3. MatchInd /\ [Next]_vars => MatchInd'
  BY <1>1, MatchStep
<1> QED
  BY <1>2, <1>3, MatchTells, PTL DEF Spec

-----------------------------------------------------------------------------
(* What a message of QoS 2 comes to when connections end outside of it.      *)

\* What message__release_to_inflight() leaves of s when it sends only what was
\* never sent: packets behind the others, about the messages at some places
Adds(s, r, at) ==
  LET c == Len(s.packets)
      m == Len(r.packets) - c
  IN  /\ m \in Nat /\ at \in [1..m -> 1..Len(s.inflight)]
      /\ \A k, l \in 1..m : k < l => at[k] < at[l]
      /\ \A p \in 1..c : r.packets[p] = s.packets[p]
      /\ \A k \in 1..m :
           LET id == s.inflight[at[k]].id
           IN  /\ s.state[id] = "invalid"
               /\ r.packets[c + k].type = "PUBLISH" /\ r.packets[c + k].id = id
               /\ r.packets[c + k].dup = FALSE

\* Without redelivery it sends, for the first time, what was stored.
LEMMA ReleaseAdds ==
  ASSUME ConfType, NEW s \in Sender
  PROVE  LET r == Release(s, FALSE)
             n == Len(s.inflight)
         IN  /\ r \in Sender /\ Len(r.inflight) = n
             /\ \A i \in 1..n : r.inflight[i].id = s.inflight[i].id
             /\ \A i \in 1..n : s.state[s.inflight[i].id] # "invalid" =>
                                  r.inflight[i] = s.inflight[i]
             /\ \A id \in Ids :
                  r.state[id] = s.state[id]
                  \/ (s.state[id] = "invalid" /\ r.state[id] = FirstWait(conf.qos[id]))
             /\ \E at : Adds(s, r, at)
<1> DEFINE r == Release(s, FALSE)
           n == Len(s.inflight)
           c == Len(s.packets)
           sends == Sends(s, FALSE)
           m == Cardinality(sends)
           at == Ordered(sends)
           more == [k \in 1..m |-> PacketOf(s, FALSE, at[k])]
<1>1. /\ r \in Sender /\ Len(r.inflight) = n
      /\ \A i \in DOMAIN s.inflight :
           r.inflight[i] = [id |-> s.inflight[i].id, mid |-> MidOf(s, FALSE, i)]
      /\ r.packets = s.packets \o more
      /\ \A id \in Ids :
           r.state[id] = IF /\ \E i \in sends : s.inflight[i].id = id
                            /\ s.state[id] = "invalid"
                         THEN FirstWait(conf.qos[id]) ELSE s.state[id]
  BY ReleaseDoes DEF ConfType
<1>2. /\ n \in Nat /\ DOMAIN s.inflight = 1..n
      /\ TakesMid(s, FALSE) \subseteq sends /\ sends \subseteq 1..n
      /\ IsFiniteSet(sends) /\ m \in Nat
      /\ \A i \in 1..n : s.inflight[i] \in Entry
      /\ \A i \in sends : PacketOf(s, FALSE, i) \in OutPacket
  BY ReleaseMids
<1>3. \A i \in sends : s.state[s.inflight[i].id] = "invalid"
  BY DEF Sends, Resends
<1> HIDE DEF r, n, m, sends
<1>4. /\ at \in [1..m -> sends]
      /\ \A k, l \in 1..m : k < l => at[k] < at[l]
  <2>1. sends \in SUBSET Nat
    BY <1>2
  <2> QED
    BY <1>2, <2>1, OrderedDoes DEF m
<1> HIDE DEF at
<1>5. ASSUME NEW i \in 1..n
      PROVE  r.inflight[i].id = s.inflight[i].id
  <2>1. r.inflight[i] = [id |-> s.inflight[i].id, mid |-> MidOf(s, FALSE, i)]
    BY <1>1, <1>2
  <2> QED
    BY <2>1
<1>6. ASSUME NEW i \in 1..n, s.state[s.inflight[i].id] # "invalid"
      PROVE  r.inflight[i] = s.inflight[i]
  <2>1. i \notin sends
    BY <1>3, <1>6
  <2>2. MidOf(s, FALSE, i) = s.inflight[i].mid
    BY <1>2, <2>1 DEF MidOf
  <2>3. s.inflight[i] \in Entry
    BY <1>2
  <2>4. r.inflight[i] = [id |-> s.inflight[i].id, mid |-> s.inflight[i].mid]
    BY <1>1, <1>2, <2>2
  <2> QED
    BY <2>3, <2>4 DEF Entry
<1>7. /\ c \in Nat /\ Len(r.packets) = c + m
      /\ \A p \in 1..c : r.packets[p] = s.packets[p]
      /\ \A k \in 1..m : r.packets[c + k] = PacketOf(s, FALSE, at[k])
  <2>1. s.packets \in Seq(OutPacket)
    BY DEF Sender
  <2>2. more \in [1..m -> OutPacket]
    BY <1>2, <1>4
  <2>3. more \in Seq(OutPacket) /\ Len(more) = m
    BY <1>2, <2>2, ListOf
  <2>4. \A k \in 1..m : more[k] = PacketOf(s, FALSE, at[k])
    OBVIOUS
  <2> HIDE DEF more
  <2> DEFINE u == s.packets
             w == u \o more
  <2>a. u \in Seq(OutPacket) /\ more \in Seq(OutPacket)
    BY <2>1, <2>3
  <2> HIDE DEF u
  <2>b. /\ w \in Seq(OutPacket)
        /\ Len(u) \in Nat /\ Len(more) \in Nat /\ Len(w) = Len(u) + Len(more)
        /\ \A p \in 1..Len(u) : w[p] = u[p]
        /\ \A k \in 1..Len(more) : w[Len(u) + k] = more[k]
    BY <2>a, CatDoes
  <2>5. /\ c \in Nat /\ Len(w) = c + Len(more)
        /\ \A p \in 1..c : w[p] = s.packets[p]
        /\ \A k \in 1..Len(more) : w[c + k] = more[k]
    BY <2>b DEF u
  <2>6. r.packets = w
    BY <1>1 DEF more, u
  <2> HIDE DEF w, c
  <2>7. Len(more) = m
    BY <2>3
  <2>8. c \in Nat /\ Len(r.packets) = c + m
    BY <2>5, <2>6, <2>7, Zenon
  <2>9. \A p \in 1..c : r.packets[p] = s.packets[p]
    BY <2>5, <2>6, Zenon
  <2>10. \A k \in 1..m : r.packets[c + k] = PacketOf(s, FALSE, at[k])
    BY <2>4, <2>5, <2>6, <2>7, Zenon
  <2> QED
    BY <2>8, <2>9, <2>10, Zenon
<1>8. Adds(s, r, at)
  <2>1. Len(r.packets) - c = m
    BY <1>2, <1>7
  <2>2. ASSUME NEW k \in 1..m
        PROVE  LET id == s.inflight[at[k]].id
               IN  /\ s.state[id] = "invalid"
                   /\ r.packets[c + k].type = "PUBLISH" /\ r.packets[c + k].id = id
                   /\ r.packets[c + k].dup = FALSE
    <3>1. s.state[s.inflight[at[k]].id] = "invalid"
      BY <1>3, <1>4
    <3>2. r.packets[c + k] = Publish(s.inflight[at[k]].id, MidOf(s, FALSE, at[k]), FALSE)
      BY <1>7, <3>1 DEF PacketOf
    <3> QED
      BY <3>1, <3>2 DEF Publish
  <2>3. at \in [1..m -> 1..n]
    BY <1>2, <1>4
  <2> HIDE DEF c
  <2> QED
    BY <1>2, <1>4, <1>7, <2>1, <2>2, <2>3 DEF Adds, n, c
<1>9. \A id \in Ids :
        r.state[id] = s.state[id]
        \/ (s.state[id] = "invalid" /\ r.state[id] = FirstWait(conf.qos[id]))
  BY <1>1
<1>10. \E a : Adds(s, r, a)
  BY <1>8
<1> QED
  BY <1>1, <1>5, <1>6, <1>9, <1>10 DEF r, n

\* What a handler of the sender leaves: the messages that it does not settle,
\* and the packets, with new ones behind them
Keeps(s, r) ==
  /\ \A i \in 1..Len(s.inflight) :
       LET id == s.inflight[i].id
       IN  s.state[id] \notin {"none", "invalid"} /\ r.state[id] # "none" =>
             \E j \in 1..Len(r.inflight) : r.inflight[j] = s.inflight[i]
  /\ Len(s.packets) <= Len(r.packets)
  /\ \A p \in 1..Len(s.packets) : r.packets[p] = s.packets[p]
  /\ \A p \in (Len(s.packets) + 1)..Len(r.packets) :
       r.packets[p].type = "PUBLISH" => r.packets[p].dup = FALSE

\* The state of a row that is not settled
Moves(id, old, new) ==
  new = old \/ (old = "invalid" /\ new = FirstWait(conf.qos[id]))

\* So every packet and every exchange that has begun stays as it was,
LEMMA ReleaseKeepsAll ==
  ASSUME ConfType, NEW s \in Sender
  PROVE  LET r == Release(s, FALSE)
         IN  Keeps(s, r) /\ \A id \in Ids : Moves(id, s.state[id], r.state[id])
<1> DEFINE r == Release(s, FALSE)
           n == Len(s.inflight)
           c == Len(s.packets)
           d == Len(r.packets)
<1>1. /\ r \in Sender /\ Len(r.inflight) = n
      /\ \A i \in 1..n : s.state[s.inflight[i].id] # "invalid" =>
                           r.inflight[i] = s.inflight[i]
      /\ \A id \in Ids :
           r.state[id] = s.state[id]
           \/ (s.state[id] = "invalid" /\ r.state[id] = FirstWait(conf.qos[id]))
      /\ \E at : Adds(s, r, at)
  BY ReleaseAdds
<1> HIDE DEF r
<1>2. PICK at : Adds(s, r, at)
  BY <1>1
<1>3. c \in Nat /\ d \in Nat
  BY <1>1, InflightType
<1>4. /\ d - c \in Nat /\ \A p \in 1..c : r.packets[p] = s.packets[p]
      /\ \A k \in 1..(d - c) :
           r.packets[c + k].type = "PUBLISH" /\ r.packets[c + k].dup = FALSE
  BY <1>2 DEF Adds
<1> HIDE DEF c, d
<1>5. ASSUME NEW p \in (c + 1)..d
      PROVE  r.packets[p].type = "PUBLISH" /\ r.packets[p].dup = FALSE
  <2> DEFINE k == p - c
  <2>1. k \in 1..(d - c) /\ p = c + k
    BY <1>3
  <2> HIDE DEF k
  <2> QED
    BY <1>4, <2>1
<1>6. c <= d
  BY <1>3, <1>4
<1>7. ASSUME NEW i \in 1..n, s.state[s.inflight[i].id] \notin {"none", "invalid"}
      PROVE  \E j \in 1..Len(r.inflight) : r.inflight[j] = s.inflight[i]
  BY <1>1, <1>7
<1>8. Keeps(s, r)
  BY <1>4, <1>5, <1>6, <1>7 DEF Keeps, c, d
<1> QED
  BY <1>1, <1>8 DEF r, Moves

\* also when a message is taken (message__queue),
LEMMA EnqueueKeeps ==
  ASSUME ConfType, NEW s \in Sender, NEW id \in Ids, s.state[id] = "none"
  PROVE  LET r == Enqueue(s, id)
         IN  /\ Keeps(s, r)
             /\ r.state[id] \in {"invalid", FirstWait(conf.qos[id])}
             /\ \A b \in Ids : b # id => Moves(b, s.state[b], r.state[b])
<1> DEFINE u == [s EXCEPT !.state[id] = "invalid"]
           f == NewMsg(u, id)
           r == Release(f, FALSE)
           n == Len(s.inflight)
<1>1. /\ u \in Sender /\ u.inflight = s.inflight /\ u.packets = s.packets
      /\ u.state[id] = "invalid" /\ \A b \in Ids : b # id => u.state[b] = s.state[b]
  BY DEF Sender, States
<1>2. n \in Nat /\ \A i \in 1..n : s.inflight[i].id \in Ids
  BY InflightType
<1> HIDE DEF u
<1>3. /\ f \in Sender /\ f.state = u.state /\ f.packets = s.packets
      /\ Len(f.inflight) \in Nat /\ n <= Len(f.inflight)
      /\ \A i \in 1..n : f.inflight[i] = s.inflight[i]
  <2>1. /\ f \in Sender /\ f.state = u.state /\ f.packets = u.packets
        /\ Room(u.inflight) =>
             /\ Len(f.inflight) = Len(u.inflight) + 1
             /\ \A i \in 1..Len(u.inflight) : f.inflight[i] = u.inflight[i]
        /\ ~Room(u.inflight) => f.inflight = u.inflight
    BY <1>1, NewMsgDoes
  <2> QED
    BY <1>1, <1>2, <2>1
<1> HIDE DEF f
<1>4. Keeps(f, r) /\ \A b \in Ids : Moves(b, f.state[b], r.state[b])
  BY <1>3, ReleaseKeepsAll
<1> HIDE DEF r
<1>5. ASSUME NEW i \in 1..n, s.state[s.inflight[i].id] \notin {"none", "invalid"},
             r.state[s.inflight[i].id] # "none"
      PROVE  \E j \in 1..Len(r.inflight) : r.inflight[j] = s.inflight[i]
  <2>1. s.inflight[i].id \in Ids /\ s.inflight[i].id # id
    BY <1>2, <1>5
  <2>2. f.state[s.inflight[i].id] = s.state[s.inflight[i].id]
    BY <1>1, <1>3, <2>1
  <2>3. i \in 1..Len(f.inflight) /\ f.inflight[i] = s.inflight[i]
    BY <1>2, <1>3
  <2> QED
    BY <1>4, <1>5, <2>2, <2>3 DEF Keeps
<1>6. Keeps(s, r)
  BY <1>3, <1>4, <1>5 DEF Keeps
<1>7. Enqueue(s, id) = r
  BY DEF Enqueue, r, f, u
<1>8. /\ r.state[id] \in {"invalid", FirstWait(conf.qos[id])}
      /\ \A b \in Ids : b # id => Moves(b, s.state[b], r.state[b])
  BY <1>1, <1>3, <1>4 DEF Moves
<1> QED
  BY <1>6, <1>7, <1>8

\* and when one is settled (handle__pubackcomp).
LEMMA SettleKeeps ==
  ASSUME ConfType, NEW s \in Sender, NEW x \in 1..Len(s.inflight),
         Mids(s, Len(s.inflight))
  PROVE  LET r == Settle(s, s.inflight[x].mid)
             id == s.inflight[x].id
         IN  /\ Keeps(s, r) /\ r.state[id] = "none"
             /\ \A b \in Ids : b # id => Moves(b, s.state[b], r.state[b])
<1> DEFINE mid == s.inflight[x].mid
           id == s.inflight[x].id
           t == Without(s, mid)
           f == Refill(t)
           r == Release(f, FALSE)
           n == Len(s.inflight)
<1>1. WithMid(s.inflight, mid) = {x} /\ First(WithMid(s.inflight, mid)) = x
  BY FoundByMid
<1>2. n \in Nat /\ \A i \in 1..n : s.inflight[i].id \in Ids
  BY InflightType
<1>3. /\ t \in Sender /\ t.packets = s.packets
      /\ Len(t.inflight) = n - 1
      /\ \A i \in 1..(n - 1) :
           t.inflight[i] = IF i < x THEN s.inflight[i] ELSE s.inflight[i + 1]
      /\ t.state = [s.state EXCEPT ![id] = "none"]
  <2> HIDE DEF mid
  <2> DEFINE y == First(WithMid(s.inflight, mid))
  <2>1. WithMid(s.inflight, mid) # {} /\ y = x
    BY <1>1
  <2>2. /\ y \in 1..n /\ s.inflight[y].mid = mid
        /\ t \in Sender
        /\ t.queued = s.queued /\ t.lastMid = s.lastMid /\ t.packets = s.packets
        /\ Len(t.inflight) = n - 1
        /\ \A i \in 1..(n - 1) :
             t.inflight[i] = IF i < y THEN s.inflight[i] ELSE s.inflight[i + 1]
        /\ t.state = [s.state EXCEPT ![s.inflight[y].id] = "none"]
    BY <2>1, WithoutDoes
  <2> HIDE DEF y, t, n
  <2> QED
    BY <2>1, <2>2
<1>4. id \in Ids /\ s.state \in [Ids -> States]
  BY <1>2 DEF Sender
<1>5. t.state[id] = "none" /\ \A b \in Ids : b # id => t.state[b] = s.state[b]
  BY <1>3, <1>4
<1>6. Settle(s, mid) = r
  BY <1>1, SettleIs
<1> HIDE DEF t, mid
<1>7. /\ f \in Sender /\ f.state = t.state /\ f.packets = t.packets
      /\ Len(f.inflight) \in Nat /\ n - 1 <= Len(f.inflight)
      /\ \A i \in 1..(n - 1) : f.inflight[i] = t.inflight[i]
  <2>1. CASE ~conf.server
    <3>1. f = t
      BY <2>1 DEF Refill
    <3> HIDE DEF f
    <3> QED
      BY <1>2, <1>3, <3>1
  <2>2. CASE conf.server
    <3>1. f = Fill(t)
      BY <2>2 DEF Refill
    <3>2. /\ Fill(t) \in Sender /\ Fill(t).state = t.state /\ Fill(t).packets = t.packets
          /\ \E m \in 0..Len(t.queued) :
               /\ Len(Fill(t).inflight) = Len(t.inflight) + m
               /\ \A i \in 1..Len(t.inflight) : Fill(t).inflight[i] = t.inflight[i]
      BY <1>3, FillDoes
    <3>3. Len(Fill(t).inflight) \in Nat
      BY <3>2, InflightType
    <3>4. n - 1 <= Len(Fill(t).inflight)
      <4>1. PICK m \in 0..Len(t.queued) : Len(Fill(t).inflight) = Len(t.inflight) + m
        BY <3>2
      <4>2. m \in Nat
        BY <1>3, InflightType
      <4> QED
        BY <1>2, <1>3, <4>1, <4>2
    <3>5. \A i \in 1..(n - 1) : Fill(t).inflight[i] = t.inflight[i]
      BY <1>3, <3>2
    <3> HIDE DEF f
    <3> QED
      BY <3>1, <3>2, <3>3, <3>4, <3>5
  <2> QED
    BY <2>1, <2>2
<1> HIDE DEF f
<1>8. Keeps(f, r) /\ \A b \in Ids : Moves(b, f.state[b], r.state[b])
  BY <1>7, ReleaseKeepsAll
<1> HIDE DEF r
<1>9. r.state[id] = "none" /\ \A b \in Ids : b # id => Moves(b, s.state[b], r.state[b])
  BY <1>4, <1>5, <1>7, <1>8 DEF Moves
<1>10. ASSUME NEW i \in 1..n, s.state[s.inflight[i].id] \notin {"none", "invalid"},
              r.state[s.inflight[i].id] # "none"
       PROVE  \E j \in 1..Len(r.inflight) : r.inflight[j] = s.inflight[i]
  <2>1. s.inflight[i].id \in Ids /\ s.inflight[i].id # id
    BY <1>2, <1>9, <1>10
  <2>2. i # x
    BY <2>1
  <2>3. f.state[s.inflight[i].id] = s.state[s.inflight[i].id]
    BY <1>5, <1>7, <2>1
  <2>4. PICK k \in 1..(n - 1) : t.inflight[k] = s.inflight[i]
    <3>1. CASE i < x
      <4>1. i \in 1..(n - 1)
        BY <1>2, <3>1
      <4> QED
        BY <1>3, <3>1, <4>1
    <3>2. CASE i > x
      <4> DEFINE k == i - 1
      <4>1. k \in 1..(n - 1) /\ ~(k < x) /\ k + 1 = i
        BY <1>2, <3>2
      <4> HIDE DEF k
      <4> QED
        BY <1>3, <4>1
    <3>3. i \in Nat /\ x \in Nat
      BY <1>2
    <3> QED
      BY <2>2, <3>1, <3>2, <3>3
  <2>5. k \in 1..Len(f.inflight) /\ f.inflight[k] = s.inflight[i]
    BY <1>2, <1>7, <2>4
  <2>6. \A j \in 1..Len(f.inflight) :
          f.state[f.inflight[j].id] \notin {"none", "invalid"}
            /\ r.state[f.inflight[j].id] # "none" =>
              \E l \in 1..Len(r.inflight) : r.inflight[l] = f.inflight[j]
    BY ONLY <1>8 DEF Keeps
  <2>7. /\ f.state[f.inflight[k].id] \notin {"none", "invalid"}
        /\ r.state[f.inflight[k].id] # "none"
    BY ONLY <1>10, <2>3, <2>5
  <2> QED
    BY ONLY <2>5, <2>6, <2>7
<1>11. Keeps(s, r)
  BY <1>3, <1>7, <1>8, <1>10 DEF Keeps
<1> QED
  BY <1>6, <1>9, <1>11 DEF mid

Holds(r, mid) == \E k \in 1..Len(r.held) : r.held[k].mid = mid

\* A message of QoS 2 was passed on, or will be, once; one of QoS 1 was when its
\* row is gone.
PassedOn(s, r, c, id) ==
  /\ conf.qos[id] = 2 =>
       /\ s.state[id] = "none" => r.delivered[id] = IF id <= c THEN 1 ELSE 0
       /\ s.state[id] \in {"invalid", "wait_for_pubrec"} => r.delivered[id] = 0
       /\ s.state[id] = "wait_for_pubcomp" =>
            r.delivered[id] = IF \E k \in 1..Len(r.held) : r.held[k].id = id
                              THEN 0 ELSE 1
  /\ conf.qos[id] = 1 /\ s.state[id] = "none" /\ id <= c => r.delivered[id] > 0

Account(s, r, c) == \A id \in Ids : PassedOn(s, r, c, id)

\* The receiver holds messages inflight, under their ids, and has answered.
HeldInflight(s, r) ==
  \A k \in 1..Len(r.held) : \E i \in 1..Len(s.inflight) :
    s.inflight[i].id = r.held[k].id /\ s.inflight[i].mid = r.held[k].mid

HeldBegun(s, r) ==
  \A k \in 1..Len(r.held) :
    s.state[r.held[k].id] \in {"wait_for_pubrec", "wait_for_pubcomp"}

HeldAnswered(s, r) ==
  \A k \in 1..Len(r.held) : s.state[r.held[k].id] = "wait_for_pubrec" =>
    \E q \in 1..Len(r.packets) : /\ r.packets[q].type = "PUBREC"
                                 /\ r.packets[q].mid = r.held[k].mid

HeldOnce(r) == \A k, l \in 1..Len(r.held) : r.held[k].mid = r.held[l].mid => k = l

HeldFit(s, r) ==
  HeldInflight(s, r) /\ HeldBegun(s, r) /\ HeldAnswered(s, r) /\ HeldOnce(r)

\* Its answers say what it did.
AnswersTell(s, r) ==
  \A q \in 1..Len(r.packets) :
    LET a == r.packets[q]
    IN  /\ a.type = "PUBREC" => Holds(r, a.mid)
        /\ a.type = "PUBCOMP" => ~Holds(r, a.mid)
        /\ a.type = "PUBACK" => \A i \in 1..Len(s.inflight) :
             s.inflight[i].mid = a.mid => r.delivered[s.inflight[i].id] > 0

\* A PUBLISH that comes again from the broker finds nothing to replace.
OfQos2(p) == p.type = "PUBLISH" /\ conf.qos[p.id] = 2

FirstDup(s, r) ==
  conf.server =>
    \A k \in 1..Len(s.packets) :
      OfQos2(s.packets[k]) /\ s.packets[k].dup =>
        /\ Len(r.held) = 0
        /\ \A l \in 1..(k - 1) : ~OfQos2(s.packets[l])

Exact(s, r, c) ==
  Account(s, r, c) /\ HeldFit(s, r) /\ AnswersTell(s, r) /\ FirstDup(s, r)

\* What is on its way to the sender when it reads an answer that is not PUBREC,
\* or takes a message
LEMMA AnswersStay ==
  ASSUME NEW s \in Sender, NEW t \in Sender, NEW r \in Receiver,
         NEW b \in Seq(AnswerPacket), HeldFit(s, r), AnswersTell(s, r), Keeps(s, t),
         Tokens(s, Pipe(r.packets, s), Len(s.inflight)),
         Mids(t, Len(t.inflight)),
         \A k \in 1..Len(r.held) : t.state[r.held[k].id] = s.state[r.held[k].id],
         \A q \in 1..Len(b) : \E p \in 1..Len(r.packets) : r.packets[p] = b[q],
         \A p \in 1..Len(r.packets) : r.packets[p].type = "PUBREC" =>
           \E q \in 1..Len(b) : b[q] = r.packets[p],
         \A q \in 1..Len(b), i \in 1..Len(s.inflight) :
           s.inflight[i].mid = b[q].mid => t.state[s.inflight[i].id] # "none"
  PROVE  LET u == [r EXCEPT !.packets = b]
         IN  HeldFit(t, u) /\ AnswersTell(t, u)
<1> DEFINE u == [r EXCEPT !.packets = b]
<1>1. u.held = r.held /\ u.packets = b /\ u.delivered = r.delivered
  BY DEF Receiver
<1> HIDE DEF u
<1>2. ASSUME NEW k \in 1..Len(r.held)
      PROVE  \E j \in 1..Len(t.inflight) :
               t.inflight[j].id = r.held[k].id /\ t.inflight[j].mid = r.held[k].mid
  <2>1. PICK i \in 1..Len(s.inflight) :
          s.inflight[i].id = r.held[k].id /\ s.inflight[i].mid = r.held[k].mid
    BY DEF HeldFit, HeldInflight
  <2>2. s.state[s.inflight[i].id] \in {"wait_for_pubrec", "wait_for_pubcomp"}
        /\ t.state[s.inflight[i].id] = s.state[s.inflight[i].id]
    BY <2>1 DEF HeldFit, HeldBegun
  <2>3. PICK j \in 1..Len(t.inflight) : t.inflight[j] = s.inflight[i]
    BY <2>2 DEF Keeps
  <2> QED
    BY ONLY <2>1, <2>3
<1>3. ASSUME NEW k \in 1..Len(r.held), t.state[r.held[k].id] = "wait_for_pubrec"
      PROVE  \E q \in 1..Len(b) : b[q].type = "PUBREC" /\ b[q].mid = r.held[k].mid
  <2>1. PICK p \in 1..Len(r.packets) : /\ r.packets[p].type = "PUBREC"
                                       /\ r.packets[p].mid = r.held[k].mid
    BY <1>3 DEF HeldFit, HeldAnswered
  <2>2. PICK q \in 1..Len(b) : b[q] = r.packets[p]
    BY <2>1
  <2> QED
    BY <2>1, <2>2
<1>4. HeldFit(t, u)
  <2>1. HeldInflight(t, u)
    BY <1>1, <1>2 DEF HeldInflight
  <2>2. HeldBegun(t, u)
    BY <1>1 DEF HeldFit, HeldBegun
  <2>3. HeldAnswered(t, u)
    BY ONLY <1>1, <1>3 DEF HeldAnswered
  <2>4. HeldOnce(u)
    BY <1>1 DEF HeldFit, HeldOnce
  <2> QED
    BY <2>1, <2>2, <2>3, <2>4 DEF HeldFit
<1>5. ASSUME NEW q \in 1..Len(b)
      PROVE  /\ b[q].type = "PUBREC" => Holds(r, b[q].mid)
             /\ b[q].type = "PUBCOMP" => ~Holds(r, b[q].mid)
             /\ b[q].type = "PUBACK" => \A j \in 1..Len(t.inflight) :
                  t.inflight[j].mid = b[q].mid => r.delivered[t.inflight[j].id] > 0
  <2>1. PICK p \in 1..Len(r.packets) : r.packets[p] = b[q]
    OBVIOUS
  <2>2. /\ b[q].type = "PUBREC" => Holds(r, b[q].mid)
        /\ b[q].type = "PUBCOMP" => ~Holds(r, b[q].mid)
        /\ b[q].type = "PUBACK" => \A i \in 1..Len(s.inflight) :
             s.inflight[i].mid = b[q].mid => r.delivered[s.inflight[i].id] > 0
    BY <2>1 DEF AnswersTell
  <2>3. ASSUME b[q].type = "PUBACK", NEW j \in 1..Len(t.inflight),
               t.inflight[j].mid = b[q].mid
        PROVE  r.delivered[t.inflight[j].id] > 0
    <3> DEFINE P == Pipe(r.packets, s)
    <3>1. p \in 1..Len(P) /\ P[p] = b[q]
      <4>1. r.packets \in Seq(AnswerPacket)
        BY DEF Receiver
      <4>2. /\ Len(r.packets) \in Nat /\ Len(s.packets) \in Nat
            /\ Len(P) = Len(r.packets) + Len(s.packets)
            /\ \A k \in 1..Len(r.packets) : P[k] = r.packets[k]
        BY <4>1, PipeDoes
      <4> HIDE DEF P
      <4> DEFINE x == Len(r.packets)
                 y == Len(s.packets)
                 z == Len(P)
      <4>3. x \in Nat /\ y \in Nat /\ z = x + y /\ p \in 1..x
        BY <4>2
      <4> HIDE DEF x, y, z
      <4>4. p \in 1..z
        BY <4>3
      <4> QED
        BY <2>1, <4>2, <4>4 DEF z
    <3> HIDE DEF P
    <3>2. PICK i \in 1..Len(s.inflight) : /\ P[p].mid = s.inflight[i].mid
                                          /\ Fits(s, P[p], s.inflight[i].id)
      BY <3>1 DEF Tokens, P
    <3>3. s.state[s.inflight[i].id] = "wait_for_puback" /\ s.inflight[i].mid = b[q].mid
      BY <2>3, <3>1, <3>2 DEF Fits
    <3>4. t.state[s.inflight[i].id] # "none"
      BY <3>3
    <3>5. PICK l \in 1..Len(t.inflight) : t.inflight[l] = s.inflight[i]
      BY <3>3, <3>4 DEF Keeps
    <3>6. j = l
      <4>1. t.inflight[j].mid = t.inflight[l].mid
        BY ONLY <2>3, <3>3, <3>5
      <4>2. \A k, z \in 1..Len(t.inflight) :
              t.inflight[k].mid = t.inflight[z].mid => k = z
        BY DEF Mids
      <4> QED
        BY ONLY <2>3, <3>5, <4>1, <4>2
    <3>7. r.delivered[s.inflight[i].id] > 0
      BY <2>2, <2>3, <3>3
    <3> QED
      BY ONLY <3>5, <3>6, <3>7
  <2> QED
    BY <2>2, <2>3
<1>6. AnswersTell(t, u)
  BY <1>1, <1>5 DEF AnswersTell, Holds
<1> QED
  BY <1>4, <1>6 DEF u

\* New packets of the sender are not sent again.
LEMMA DupStays ==
  ASSUME NEW s \in Sender, NEW t \in Sender, NEW r \in Receiver, NEW b,
         Keeps(s, t), FirstDup(s, r)
  PROVE  FirstDup(t, [r EXCEPT !.packets = b])
<1> DEFINE u == [r EXCEPT !.packets = b]
           c == Len(s.packets)
           d == Len(t.packets)
<1>1. u.held = r.held
  BY DEF Receiver
<1> HIDE DEF u
<1>2. c \in Nat /\ d \in Nat
  BY InflightType
<1>3. /\ c <= d /\ \A p \in 1..c : t.packets[p] = s.packets[p]
      /\ \A p \in (c + 1)..d : OfQos2(t.packets[p]) => t.packets[p].dup = FALSE
  BY DEF Keeps, OfQos2
<1> SUFFICES ASSUME conf.server, NEW k \in 1..d,
                    OfQos2(t.packets[k]), t.packets[k].dup
             PROVE  /\ Len(u.held) = 0
                    /\ \A l \in 1..(k - 1) : ~OfQos2(t.packets[l])
  BY DEF FirstDup, u, d
<1>4. \A p \in 1..c : OfQos2(s.packets[p]) /\ s.packets[p].dup =>
        /\ Len(r.held) = 0
        /\ \A l \in 1..(p - 1) : ~OfQos2(s.packets[l])
  BY DEF FirstDup
<1> HIDE DEF c, d
<1>5. k \in 1..c
  <2>1. k \notin (c + 1)..d
    BY <1>3
  <2> QED
    BY <1>2, <2>1
<1>6. \A l \in 1..(k - 1) : l \in 1..c
  BY <1>2, <1>5
<1>7. t.packets[k] = s.packets[k]
  BY <1>3, <1>5
<1> QED
  BY <1>1, <1>3, <1>4, <1>5, <1>6, <1>7

\* The whole of it: with what the end of a connection finds
ExactInd ==
  /\ MatchInd
  /\ Exact(out, in, accepted)
  /\ link # "open" => Len(in.held) = 0 /\ Cardinality(Sent(out)) <= 1
  /\ cleanStart = FALSE

\* Connections end between the messages of QoS 2, or anywhere if there are none;
\* messages go to no client that is closing, and no session is deleted at its end.
ExactFits ==
  /\ WindowFits /\ ~RoutesWhileClosing /\ CleanStarts \subseteq {FALSE}
  /\ ~BreaksInExchange \/ 2 \notin QosLevels

\* What the bound on the end of a connection leaves
LEMMA EndIs ==
  ASSUME ExactFits, ConfType, NEW s, NEW r \in Receiver,
         StatesFit(s), HeldBegun(s, r), MayEnd(s, r)
  PROVE  Len(r.held) = 0 /\ Cardinality(Sent(s)) <= 1
<1>1. CASE ~BreaksInExchange
  <2>1. r.held = <<>> /\ Cardinality(Sent(s)) <= 1
    BY <1>1 DEF MayEnd
  <2> QED
    BY <2>1, EmptySeq
<1>2. CASE 2 \notin QosLevels
  <2>1. \A id \in Ids : s.state[id] \notin {"wait_for_pubrec", "wait_for_pubcomp"}
    BY <1>2 DEF ConfType, StatesFit
  <2>2. Cardinality(Sent(s)) <= 1
    <3>1. Sent(s) = {}
      BY <2>1 DEF Sent
    <3> QED
      BY <3>1, FS_EmptySet
  <2>3. r.held \in Seq(Held) /\ Len(r.held) \in Nat
    BY DEF Receiver
  <2>4. \A k \in 1..Len(r.held) : r.held[k].id \in Ids
    <3>1. \A k \in 1..Len(r.held) : r.held[k] \in Held
      BY <2>3
    <3> QED
      BY <3>1 DEF Held
  <2>5. 1 \notin 1..Len(r.held)
    BY <2>1, <2>4 DEF HeldBegun
  <2> QED
    BY <2>2, <2>3, <2>5
<1> QED
  BY <1>1, <1>2 DEF ExactFits

\* What a step leaves to it
LEMMA NextFits ==
  ASSUME MatchInd', conf' = conf
  PROVE  out' \in Sender /\ in' \in Receiver /\ StatesFit(out')
BY DEF MatchInd, TypeInd, StatesFit

\* It begins so,
LEMMA ExactStarts == ExactFits /\ Init => ExactInd
<1> SUFFICES ASSUME ExactFits, Init PROVE ExactInd
  OBVIOUS
<1>1. MatchInd
  BY MatchStarts DEF ExactFits, WindowFits
<1>2. /\ accepted = 0 /\ cleanStart = FALSE
      /\ Len(in.held) = 0 /\ Len(in.packets) = 0 /\ Len(out.packets) = 0
      /\ \A id \in Ids : out.state[id] = "none" /\ in.delivered[id] = 0
  BY EmptySeq DEF Init, ExactFits
<1>3. \A id \in Ids : id \in Nat /\ id > 0
  BY MqttAssumption DEF Ids
<1>4. Account(out, in, accepted)
  BY <1>2, <1>3 DEF Account, PassedOn
<1>5. HeldFit(out, in) /\ AnswersTell(out, in) /\ FirstDup(out, in)
  BY <1>2 DEF HeldFit, HeldInflight, HeldBegun, HeldAnswered, HeldOnce, AnswersTell,
              FirstDup
<1>6. Sent(out) = {}
  BY <1>2 DEF Sent
<1>7. Cardinality(Sent(out)) <= 1
  BY <1>6, FS_EmptySet
<1> QED
  BY <1>1, <1>2, <1>4, <1>5, <1>7 DEF ExactInd, Exact

\* What is true of rows that stay, or are sent for the first time
LEMMA AccountMoves ==
  ASSUME NEW s, NEW t, NEW r, NEW u, NEW c, NEW id,
         PassedOn(s, r, c, id), Moves(id, s.state[id], t.state[id]),
         u.delivered = r.delivered, u.held = r.held
  PROVE  PassedOn(t, u, c, id)
<1>1. CASE t.state[id] = s.state[id]
  BY <1>1 DEF PassedOn
<1>2. CASE s.state[id] = "invalid" /\ t.state[id] = FirstWait(conf.qos[id])
  <2>1. conf.qos[id] = 2 => t.state[id] = "wait_for_pubrec" /\ r.delivered[id] = 0
    BY <1>2 DEF PassedOn, FirstWait
  <2>2. t.state[id] # "none"
    BY <1>2 DEF FirstWait
  <2> QED
    BY <2>1, <2>2 DEF PassedOn
<1> QED
  BY <1>1, <1>2 DEF Moves

\* The sender takes a message.
LEMMA ExactEnqueue ==
  ASSUME ConfType, NEW s \in Sender, NEW t \in Sender, NEW r \in Receiver,
         NEW c \in Nat, c + 1 \in Ids, s.state[c + 1] = "none",
         t = Enqueue(s, c + 1), Exact(s, r, c), Lists(s, Len(s.inflight)),
         Tokens(s, Pipe(r.packets, s), Len(s.inflight)), Mids(t, Len(t.inflight))
  PROVE  Exact(t, r, c + 1)
<1> DEFINE id == c + 1
           b == r.packets
           u == [r EXCEPT !.packets = b]
<1>1. u = r /\ b \in Seq(AnswerPacket) /\ id \in Ids
  BY DEF Receiver
<1>2. /\ Keeps(s, t) /\ t.state[id] \in {"invalid", FirstWait(conf.qos[id])}
      /\ \A a \in Ids : a # id => Moves(a, s.state[a], t.state[a])
  BY <1>1, EnqueueKeeps
<1>3. \A k \in 1..Len(r.held) : r.held[k].id \in Ids
  <2>1. r.held \in Seq(Held)
    BY DEF Receiver
  <2>2. \A k \in 1..Len(r.held) : r.held[k] \in Held
    BY <2>1
  <2> QED
    BY <2>2 DEF Held
<1>4. ASSUME NEW a \in Ids, s.state[a] \notin {"none", "invalid"}
      PROVE  t.state[a] = s.state[a]
  BY <1>2, <1>4 DEF Moves
<1>5. \A k \in 1..Len(r.held) : t.state[r.held[k].id] = s.state[r.held[k].id]
  BY <1>3, <1>4 DEF Exact, HeldFit, HeldBegun
<1>6. \A i \in 1..Len(s.inflight) : t.state[s.inflight[i].id] # "none"
  BY <1>4 DEF Lists, Begun
<1> HIDE DEF u, b
<1>7. HeldFit(t, u) /\ AnswersTell(t, u)
  <2>1. HeldFit(s, r) /\ AnswersTell(s, r)
    BY DEF Exact
  <2>2. /\ \A q \in 1..Len(b) : \E p \in 1..Len(r.packets) : r.packets[p] = b[q]
        /\ \A p \in 1..Len(r.packets) : r.packets[p].type = "PUBREC" =>
             \E q \in 1..Len(b) : b[q] = r.packets[p]
    BY DEF b
  <2>3. \A q \in 1..Len(b), i \in 1..Len(s.inflight) :
          s.inflight[i].mid = b[q].mid => t.state[s.inflight[i].id] # "none"
    BY <1>6
  <2> QED
    BY <1>1, <1>2, <1>5, <2>1, <2>2, <2>3, AnswersStay DEF u
<1>8. FirstDup(t, u)
  BY <1>2, DupStays DEF Exact, u
<1>9. ASSUME NEW a \in Ids
      PROVE  PassedOn(t, r, c + 1, a)
  <2>0. PassedOn(s, r, c, a)
    BY DEF Exact, Account
  <2>1. CASE a = id
    <3>1. ~(id <= c)
      BY DEF id
    <3>2. conf.qos[a] = 2 => r.delivered[a] = 0
      BY <2>0, <2>1, <3>1 DEF PassedOn, id
    <3>3. t.state[a] \in {"invalid", FirstWait(conf.qos[a])}
      BY <1>2, <2>1
    <3> QED
      BY <3>2, <3>3 DEF PassedOn, FirstWait
  <2>2. CASE a # id
    <3>1. a \in Nat
      BY MqttAssumption DEF Ids
    <3>2. a <= c + 1 <=> a <= c
      BY <2>2, <3>1 DEF id
    <3>3. PassedOn(t, r, c, a)
      BY <1>2, <2>0, <2>2, AccountMoves
    <3> QED
      BY <3>2, <3>3 DEF PassedOn
  <2> QED
    BY <2>1, <2>2
<1>10. Account(t, r, c + 1)
  BY <1>9 DEF Account
<1> QED
  BY <1>1, <1>7, <1>8, <1>10 DEF Exact, id

\* A message that the receiver holds is found by the id it holds it under.
LEMMA HeldIs ==
  ASSUME NEW s \in Sender, NEW r \in Receiver, Mids(s, Len(s.inflight)),
         Lists(s, Len(s.inflight)), HeldFit(s, r),
         NEW k \in 1..Len(r.held), NEW x \in 1..Len(s.inflight)
  PROVE  r.held[k].mid = s.inflight[x].mid <=> r.held[k].id = s.inflight[x].id
<1>1. PICK i \in 1..Len(s.inflight) :
        s.inflight[i].id = r.held[k].id /\ s.inflight[i].mid = r.held[k].mid
  BY DEF HeldFit, HeldInflight
<1>2. r.held[k].mid = s.inflight[x].mid => i = x
  BY <1>1 DEF Mids
<1>3. r.held[k].id = s.inflight[x].id => i = x
  BY <1>1 DEF Lists
<1> QED
  BY <1>1, <1>2, <1>3

\* The sender reads PUBREC.
LEMMA ExactReceived ==
  ASSUME ConfType, NEW s \in Sender, NEW t \in Sender, NEW r \in Receiver, NEW c,
         r.packets # <<>>, Head(r.packets).type = "PUBREC",
         t = Received(s, Head(r.packets).mid), Exact(s, r, c), StatesFit(s),
         Lists(s, Len(s.inflight)), Mids(s, Len(s.inflight)),
         Tokens(s, Pipe(r.packets, s), Len(s.inflight))
  PROVE  Exact(t, [r EXCEPT !.packets = Tail(@)], c)
<1> DEFINE a == r.packets
           b == Tail(a)
           u == [r EXCEPT !.packets = b]
           n == Len(s.inflight)
           mid == Head(a).mid
           P == Pipe(a, s)
<1>1. /\ u.held = r.held /\ u.packets = b /\ u.delivered = r.delivered
      /\ a \in Seq(AnswerPacket) /\ r.held \in Seq(Held)
  BY DEF Receiver
<1>2. /\ Len(a) \in Nat \ {0} /\ Len(b) = Len(a) - 1
      /\ Head(a) \in AnswerPacket /\ Len(P) \in Nat \ {0} /\ P[1] = Head(a)
  BY <1>1, PipeHead
<1>3. a[1] = Head(a) /\ \A q \in 1..Len(b) : q + 1 \in 1..Len(a) /\ b[q] = a[q + 1]
  BY <1>1, <1>2, HeadTailProperties
<1>4. /\ n \in Nat /\ \A i \in 1..n : s.inflight[i].id \in Ids
      /\ \A k \in 1..Len(r.held) : r.held[k].id \in Ids
  <2>1. \A k \in 1..Len(r.held) : r.held[k] \in Held
    BY <1>1
  <2> QED
    BY <2>1, InflightType DEF Held
<1>5. mid \in 1..MaxMid
  BY <1>2 DEF AnswerPacket
<1> HIDE DEF u, b, mid
<1>6. PICK x \in 1..n : /\ mid = s.inflight[x].mid
                       /\ s.state[s.inflight[x].id] = "wait_for_pubrec"
  <2>1. 1 \in 1..Len(P)
    BY <1>2
  <2>2. PICK x \in 1..n : P[1].mid = s.inflight[x].mid /\ Fits(s, P[1], s.inflight[x].id)
    BY <2>1 DEF Tokens
  <2> QED
    BY <1>2, <2>2 DEF Fits, mid
<1> DEFINE id == s.inflight[x].id
<1>7. WithMid(s.inflight, mid) = {x} /\ First(WithMid(s.inflight, mid)) = x
  BY <1>6, FoundByMid
<1>8. /\ t.inflight = s.inflight /\ t.packets = Append(s.packets, Packet("PUBREL", mid))
      /\ t.state = [s.state EXCEPT ![id] = "wait_for_pubcomp"]
  <2>1. t = Received(s, mid)
    BY DEF mid
  <2>2. LET f == Received(s, mid)
            found == WithMid(s.inflight, mid)
            y == s.inflight[First(found)].id
        IN  /\ f.inflight = s.inflight
            /\ f.packets = Append(s.packets, Packet("PUBREL", mid))
            /\ f.state = IF found = {} THEN s.state
                         ELSE [s.state EXCEPT ![y] = "wait_for_pubcomp"]
    BY <1>5, ReceivedDoes
  <2> QED
    BY <1>7, <2>1, <2>2
<1>9. /\ id \in Ids /\ t.state[id] = "wait_for_pubcomp"
      /\ \A y \in Ids : y # id => t.state[y] = s.state[y]
  BY <1>4, <1>8 DEF Sender
<1> HIDE DEF id
<1>a. t.inflight = s.inflight
  BY <1>8
<1>b. u.held = r.held /\ u.packets = b /\ u.delivered = r.delivered
  BY <1>1
<1>c. HeldFit(s, r) /\ AnswersTell(s, r)
  BY DEF Exact
<1>10. \A k \in 1..Len(r.held) : r.held[k].mid = mid <=> r.held[k].id = id
  BY <1>6, HeldIs DEF Exact, id
<1>11. PICK h \in 1..Len(r.held) : r.held[h].id = id
  <2>1. 1 \in 1..Len(a) /\ a[1].type = "PUBREC" /\ a[1].mid = mid
    BY <1>2, <1>3 DEF mid
  <2>2. Holds(r, mid)
    BY <2>1 DEF Exact, AnswersTell
  <2> QED
    BY <1>10, <2>2 DEF Holds
<1>12. Account(t, u, c)
  <2> SUFFICES ASSUME NEW y \in Ids PROVE PassedOn(t, u, c, y)
    BY DEF Account
  <2>1. PassedOn(s, r, c, y)
    BY DEF Exact, Account
  <2>2. CASE y # id
    <3>1. Moves(y, s.state[y], t.state[y])
      BY <1>9, <2>2 DEF Moves
    <3> QED
      BY <1>1, <2>1, <3>1, AccountMoves
  <2>3. CASE y = id
    <3>1. conf.qos[y] = 2 /\ s.state[y] = "wait_for_pubrec"
      BY <1>6, <1>9, <2>3 DEF StatesFit, id
    <3>2. u.delivered[y] = 0
      BY <1>1, <2>1, <3>1 DEF PassedOn
    <3>3. \E k \in 1..Len(u.held) : u.held[k].id = y
      BY <1>1, <1>11, <2>3
    <3> QED
      BY <1>9, <2>3, <3>1, <3>2, <3>3 DEF PassedOn
  <2> QED
    BY <2>2, <2>3
<1>13. HeldFit(t, u)
  <2>1. HeldInflight(t, u)
    <3>1. HeldInflight(s, r)
      BY ONLY <1>c DEF HeldFit
    <3> QED
      BY ONLY <1>a, <1>b, <3>1 DEF HeldInflight
  <2>2. HeldBegun(t, u)
    <3>1. HeldBegun(s, r)
      BY DEF Exact, HeldFit
    <3>2. ASSUME NEW k \in 1..Len(r.held)
          PROVE  t.state[r.held[k].id] \in {"wait_for_pubrec", "wait_for_pubcomp"}
      <4>1. s.state[r.held[k].id] \in {"wait_for_pubrec", "wait_for_pubcomp"}
        BY ONLY <3>1, <3>2 DEF HeldBegun
      <4>2. r.held[k].id \in Ids
        BY <1>4, <3>2
      <4> QED
        BY <1>9, <4>1, <4>2
    <3> QED
      BY <1>1, <3>2 DEF HeldBegun
  <2>3. HeldOnce(u)
    BY <1>1 DEF Exact, HeldFit, HeldOnce
  <2>4. ASSUME NEW k \in 1..Len(r.held), t.state[r.held[k].id] = "wait_for_pubrec"
        PROVE  \E q \in 1..Len(b) : b[q].type = "PUBREC" /\ b[q].mid = r.held[k].mid
    <3>1. r.held[k].id # id /\ r.held[k].mid # mid
      BY <1>9, <1>10, <2>4
    <3>2. s.state[r.held[k].id] = "wait_for_pubrec"
      BY <1>4, <1>9, <2>4, <3>1
    <3>3. PICK q \in 1..Len(a) : a[q].type = "PUBREC" /\ a[q].mid = r.held[k].mid
      BY <3>2 DEF Exact, HeldFit, HeldAnswered
    <3>4. q # 1
      BY <1>3, <3>1, <3>3 DEF mid
    <3> DEFINE z == q - 1
    <3>5. z \in 1..Len(b) /\ z + 1 = q
      BY <1>2, <3>4
    <3> HIDE DEF z, a
    <3> QED
      BY <1>3, <3>3, <3>5
  <2>5. HeldAnswered(t, u)
    BY <1>1, <2>4 DEF HeldAnswered
  <2> QED
    BY <2>1, <2>2, <2>3, <2>5 DEF HeldFit
<1>14. AnswersTell(t, u)
  <2> SUFFICES ASSUME NEW q \in 1..Len(b)
               PROVE  /\ b[q].type = "PUBREC" => Holds(u, b[q].mid)
                      /\ b[q].type = "PUBCOMP" => ~Holds(u, b[q].mid)
                      /\ b[q].type = "PUBACK" => \A i \in 1..Len(t.inflight) :
                           t.inflight[i].mid = b[q].mid =>
                             u.delivered[t.inflight[i].id] > 0
    BY <1>1 DEF AnswersTell
  <2>1. PICK p \in 1..Len(r.packets) : b[q] = r.packets[p]
    BY <1>3
  <2> QED
    BY <1>a, <1>b, <1>c, <2>1 DEF AnswersTell, Holds
<1>15. FirstDup(t, u)
  <2>1. Keeps(s, t)
    <3>1. s.packets \in Seq(OutPacket)
      BY DEF Sender
    <3> DEFINE w == s.packets
               e == Packet("PUBREL", mid)
    <3>2. e.type # "PUBLISH"
      BY DEF Packet
    <3> HIDE DEF e
    <3>3. t.packets = Append(w, e)
      BY <1>8 DEF e
    <3> HIDE DEF w
    <3>4. w \in Seq(OutPacket) /\ Len(w) \in Nat
      BY <3>1, LenProperties DEF w
    <3>5. /\ Len(t.packets) = Len(w) + 1
          /\ \A p \in 1..Len(w) : t.packets[p] = w[p]
          /\ t.packets[Len(w) + 1] = e
      BY <3>3, <3>4
    <3>6. ASSUME NEW p \in (Len(w) + 1)..Len(t.packets)
          PROVE  t.packets[p].type # "PUBLISH"
      BY <3>2, <3>4, <3>5
    <3>7. \A i \in 1..n : \E j \in 1..Len(t.inflight) : t.inflight[j] = s.inflight[i]
      BY <1>8
    <3>8. Len(w) <= Len(t.packets)
      BY ONLY <3>4, <3>5
    <3> QED
      BY ONLY <3>5, <3>6, <3>7, <3>8 DEF Keeps, w, n
  <2> QED
    BY <2>1, DupStays DEF Exact, u
<1>16. u = [r EXCEPT !.packets = Tail(@)]
  BY DEF u, b
<1> QED
  BY <1>12, <1>13, <1>14, <1>15, <1>16 DEF Exact

\* The sender reads PUBACK or PUBCOMP.
LEMMA ExactSettled ==
  ASSUME ConfType, NEW s \in Sender, NEW t \in Sender, NEW r \in Receiver, NEW c,
         r.packets # <<>>, Head(r.packets).type # "PUBREC",
         t = Settle(s, Head(r.packets).mid), Exact(s, r, c), StatesFit(s),
         Lists(s, Len(s.inflight)), Mids(s, Len(s.inflight)),
         Mids(t, Len(t.inflight)),
         \A id \in Ids : ~(id <= c) => s.state[id] = "none",
         Tokens(s, Pipe(r.packets, s), Len(s.inflight))
  PROVE  Exact(t, [r EXCEPT !.packets = Tail(@)], c)
<1> DEFINE a == r.packets
           b == Tail(a)
           u == [r EXCEPT !.packets = b]
           n == Len(s.inflight)
           mid == Head(a).mid
           P == Pipe(a, s)
<1>1. /\ u.held = r.held /\ u.packets = b /\ u.delivered = r.delivered
      /\ a \in Seq(AnswerPacket) /\ r.held \in Seq(Held)
  BY DEF Receiver
<1>2. /\ Len(a) \in Nat \ {0} /\ Len(b) = Len(a) - 1 /\ b \in Seq(AnswerPacket)
      /\ Head(a) \in AnswerPacket /\ Len(P) \in Nat \ {0} /\ P[1] = Head(a)
  BY <1>1, PipeHead
<1>3. a[1] = Head(a) /\ \A q \in 1..Len(b) : q + 1 \in 1..Len(a) /\ b[q] = a[q + 1]
  BY <1>1, <1>2, HeadTailProperties
<1>4. /\ n \in Nat /\ \A i \in 1..n : s.inflight[i].id \in Ids
      /\ \A k \in 1..Len(r.held) : r.held[k].id \in Ids
  <2>1. \A k \in 1..Len(r.held) : r.held[k] \in Held
    BY <1>1
  <2> QED
    BY <2>1, InflightType DEF Held
<1>5. Head(a).type \in {"PUBACK", "PUBCOMP"}
  BY <1>2 DEF AnswerPacket
<1>a. HeldFit(s, r) /\ AnswersTell(s, r) /\ FirstDup(s, r) /\ Account(s, r, c)
  BY DEF Exact
<1>b. /\ Len(P) = Len(a) + Len(s.packets) /\ Len(s.packets) \in Nat
      /\ \A p \in 1..Len(a) : P[p] = a[p]
  BY <1>1, PipeDoes
<1> HIDE DEF u, b, mid, P
<1>6. PICK x \in 1..n : mid = s.inflight[x].mid /\ Fits(s, Head(a), s.inflight[x].id)
  <2>1. 1 \in 1..Len(P)
    BY <1>2
  <2>2. PICK x \in 1..n : P[1].mid = s.inflight[x].mid /\ Fits(s, P[1], s.inflight[x].id)
    BY <2>1 DEF Tokens, P
  <2> QED
    BY <1>2, <2>2 DEF mid
<1> DEFINE id == s.inflight[x].id
<1>7. id \in Ids
  BY <1>4
<1>8. /\ Keeps(s, t) /\ t.state[id] = "none"
      /\ \A y \in Ids : y # id => Moves(y, s.state[y], t.state[y])
  <2>1. t = Settle(s, s.inflight[x].mid)
    BY <1>6 DEF mid
  <2> QED
    BY <2>1, SettleKeeps
<1> HIDE DEF id
<1>9. \A k \in 1..Len(r.held) : r.held[k].mid = mid <=> r.held[k].id = id
  BY <1>a, <1>6, HeldIs DEF id
<1>10. 1 \in 1..Len(a) /\ a[1].mid = mid /\ a[1].type = Head(a).type
  BY <1>2, <1>3 DEF mid
<1>11. \A k \in 1..Len(r.held) : r.held[k].id # id
  <2>1. CASE Head(a).type = "PUBACK"
    <3>1. s.state[id] = "wait_for_puback"
      BY <1>6, <2>1 DEF Fits, id
    <3> QED
      BY <1>a, <3>1 DEF HeldFit, HeldBegun
  <2>2. CASE Head(a).type = "PUBCOMP"
    <3>1. ~Holds(r, mid)
      BY <1>a, <1>10, <2>2 DEF AnswersTell
    <3> QED
      BY <1>9, <3>1 DEF Holds
  <2> QED
    BY <1>5, <2>1, <2>2
<1>12. ASSUME NEW y \in Ids, y # id, s.state[y] \notin {"none", "invalid"}
       PROVE  t.state[y] = s.state[y]
  BY <1>8, <1>12 DEF Moves
<1>13. HeldFit(t, u) /\ AnswersTell(t, u)
  <2>1. \A k \in 1..Len(r.held) : t.state[r.held[k].id] = s.state[r.held[k].id]
    BY <1>a, <1>4, <1>11, <1>12 DEF HeldFit, HeldBegun
  <2>2. \A q \in 1..Len(b) : \E p \in 1..Len(r.packets) : r.packets[p] = b[q]
    BY <1>3
  <2>3. ASSUME NEW p \in 1..Len(r.packets), r.packets[p].type = "PUBREC"
        PROVE  \E q \in 1..Len(b) : b[q] = r.packets[p]
    <3>1. p # 1
      BY <1>10, <2>3
    <3> DEFINE z == p - 1
    <3>2. z \in 1..Len(b) /\ z + 1 = p
      BY <1>2, <3>1
    <3> HIDE DEF z, a
    <3> QED
      BY <1>3, <3>2 DEF a
  <2>4. ASSUME NEW q \in 1..Len(b), NEW i \in 1..n, s.inflight[i].mid = b[q].mid
        PROVE  t.state[s.inflight[i].id] # "none"
    <3>1. q + 1 \in 1..Len(a) /\ b[q] = a[q + 1] /\ q \in Nat
      BY <1>3
    <3>2. q + 1 \in 1..Len(P) /\ 1 \in 1..Len(P) /\ q + 1 # 1
      <4> DEFINE l == Len(a)
                 m == Len(s.packets)
                 z == Len(P)
      <4>1. l \in Nat /\ m \in Nat /\ z = l + m /\ q + 1 \in 1..l /\ q \in 1..Len(b)
        BY <1>b, <1>2, <3>1
      <4>2. q \in Nat \ {0}
        BY <4>1
      <4> HIDE DEF l, m, z
      <4>3. q + 1 \in 1..z /\ 1 \in 1..z /\ q + 1 # 1
        BY <4>1, <4>2
      <4> QED
        BY <4>3 DEF z
    <3>3. P[q + 1].mid # P[1].mid
      BY <3>2 DEF Tokens, P
    <3>4. P[q + 1] = a[q + 1]
      BY <1>b, <3>1
    <3>5. i # x
      BY <1>2, <1>6, <2>4, <3>1, <3>3, <3>4 DEF mid
    <3>6. s.inflight[i].id # id /\ s.state[s.inflight[i].id] \notin {"none", "invalid"}
      BY <3>5 DEF Lists, Begun, id
    <3> QED
      BY <1>4, <1>12, <3>6
  <2> QED
    BY <1>a, <1>2, <1>8, <2>1, <2>2, <2>3, <2>4, AnswersStay DEF u
<1>14. FirstDup(t, u)
  BY <1>a, <1>8, DupStays DEF u
<1>15. ASSUME NEW y \in Ids
       PROVE  PassedOn(t, u, c, y)
  <2>1. PassedOn(s, r, c, y)
    BY <1>a DEF Account
  <2>2. CASE y # id
    BY <1>1, <1>8, <2>1, <2>2, AccountMoves
  <2>3. CASE y = id
    <3>1. y <= c
      BY <1>6, <2>3, <1>5 DEF Fits, id
    <3>2. CASE Head(a).type = "PUBACK"
      <4>1. s.state[y] = "wait_for_puback"
        BY <1>6, <2>3, <3>2 DEF Fits, id
      <4>2. conf.qos[y] = 1
        BY <4>1 DEF StatesFit
      <4>3. r.delivered[y] > 0
        BY <1>a, <1>6, <1>10, <2>3, <3>2 DEF AnswersTell, id
      <4> QED
        BY <1>1, <1>8, <2>3, <4>2, <4>3 DEF PassedOn
    <3>3. CASE Head(a).type = "PUBCOMP"
      <4>1. s.state[y] = "wait_for_pubcomp"
        BY <1>6, <2>3, <3>3 DEF Fits, id
      <4>2. conf.qos[y] = 2
        BY <4>1 DEF StatesFit
      <4>3. r.delivered[y] = 1
        BY <1>11, <2>1, <2>3, <4>1, <4>2 DEF PassedOn
      <4> QED
        BY <1>1, <1>8, <2>3, <3>1, <4>2, <4>3 DEF PassedOn
    <3> QED
      BY <1>5, <3>2, <3>3
  <2> QED
    BY <2>2, <2>3
<1>16. Account(t, u, c)
  BY <1>15 DEF Account
<1>17. u = [r EXCEPT !.packets = Tail(@)]
  BY DEF u, b
<1> QED
  BY <1>13, <1>14, <1>16, <1>17 DEF Exact

\* The packet that the receiver reads: its message, alone with its id
LEMMA HeadOfPipe ==
  ASSUME NEW s \in Sender, NEW a \in Seq(AnswerPacket), s.packets # <<>>,
         Tokens(s, Pipe(a, s), Len(s.inflight))
  PROVE  LET p == Head(s.packets)
             b == Tail(s.packets)
         IN  /\ \E y \in 1..Len(s.inflight) :
                  p.mid = s.inflight[y].mid /\ Fits(s, p, s.inflight[y].id)
             /\ \A q \in 1..Len(a) : a[q].mid # p.mid
             /\ 1 \in 1..Len(s.packets) /\ s.packets[1] = p /\ p \in OutPacket
             /\ b \in Seq(OutPacket)
             /\ \A k \in 1..Len(b) : k + 1 \in 1..Len(s.packets) /\ b[k] = s.packets[k + 1]
<1> DEFINE w == s.packets
           p == Head(w)
           b == Tail(w)
           P == Pipe(a, s)
           l == Len(a)
           m == Len(w)
           z == Len(P)
<1>1. w \in Seq(OutPacket) /\ w # <<>>
  BY DEF Sender
<1>2. /\ l \in Nat /\ m \in Nat /\ z = l + m
      /\ \A q \in 1..l : P[q] = a[q]
      /\ \A k \in 1..m : P[l + k] = w[k]
  BY PipeDoes
<1> HIDE DEF w, P, l
<1>3. /\ p \in OutPacket /\ b \in Seq(OutPacket) /\ m \in Nat \ {0} /\ Len(b) = m - 1
      /\ w[1] = p /\ \A k \in 1..Len(b) : k + 1 \in 1..m /\ b[k] = w[k + 1]
  BY <1>1, <1>2, HeadTailProperties
<1> HIDE DEF m, z, p
<1>4. 1 \in 1..m /\ l + 1 \in 1..z
  BY <1>2, <1>3
<1>5. P[l + 1] = p
  BY <1>2, <1>3, <1>4
<1>6. \E y \in 1..Len(s.inflight) : /\ p.mid = s.inflight[y].mid
                                    /\ Fits(s, p, s.inflight[y].id)
  BY <1>4, <1>5 DEF Tokens, P, z
<1>7. ASSUME NEW q \in 1..l
      PROVE  a[q].mid # p.mid
  <2>1. q \in 1..z /\ q # l + 1
    BY <1>2
  <2>2. P[q].mid # P[l + 1].mid
    BY <1>4, <2>1 DEF Tokens, P, z
  <2> QED
    BY <1>2, <1>5, <2>2
<1> QED
  BY <1>3, <1>4, <1>6, <1>7 DEF w, p, l, m

\* What is left to read
LEMMA DupRead ==
  ASSUME NEW s \in Sender, NEW a \in Seq(AnswerPacket), s.packets # <<>>,
         Tokens(s, Pipe(a, s), Len(s.inflight)),
         NEW t, t.packets = Tail(s.packets), NEW r, NEW u, FirstDup(s, r),
         Len(r.held) = 0 /\ ~OfQos2(Head(s.packets)) => Len(u.held) = 0
  PROVE  FirstDup(t, u)
<1> DEFINE b == Tail(s.packets)
<1>1. /\ s.packets[1] = Head(s.packets) /\ b \in Seq(OutPacket) /\ Len(b) \in Nat
      /\ \A k \in 1..Len(b) : k + 1 \in 1..Len(s.packets) /\ b[k] = s.packets[k + 1]
  BY HeadOfPipe, LenProperties
<1> HIDE DEF b
<1> SUFFICES ASSUME conf.server, NEW k \in 1..Len(b), OfQos2(b[k]), b[k].dup
             PROVE  Len(u.held) = 0 /\ \A l \in 1..(k - 1) : ~OfQos2(b[l])
  BY DEF FirstDup, b
<1>2. /\ Len(r.held) = 0
      /\ \A l \in 1..((k + 1) - 1) : ~OfQos2(s.packets[l])
  BY <1>1 DEF FirstDup
<1>3. \A l \in 1..k : ~OfQos2(s.packets[l])
  BY <1>1, <1>2
<1>4. 1 \in 1..k
  BY <1>1
<1>5. Len(u.held) = 0
  BY <1>1, <1>2, <1>3, <1>4
<1>6. ASSUME NEW l \in 1..(k - 1)
      PROVE  ~OfQos2(b[l])
  <2>1. l \in 1..Len(b) /\ l + 1 \in 1..k
    BY <1>1
  <2> QED
    BY <1>1, <1>3, <2>1
<1> QED
  BY <1>5, <1>6

\* A packet or a row behind the others changes none of them.
LEMMA AppendDoes ==
  ASSUME NEW S, NEW a \in Seq(S), NEW e
  PROVE  LET w == Append(a, e)
         IN  /\ Len(a) \in Nat /\ Len(w) = Len(a) + 1
             /\ \A q \in 1..Len(a) : q \in 1..Len(w) /\ w[q] = a[q]
             /\ Len(a) + 1 \in 1..Len(w) /\ w[Len(a) + 1] = e
             /\ \A q \in 1..Len(w) : q \in 1..Len(a) \/ w[q] = e
<1> DEFINE w == Append(a, e)
           l == Len(a)
<1>1. /\ l \in Nat /\ Len(w) = l + 1 /\ w[l + 1] = e
      /\ \A q \in 1..l : w[q] = a[q]
  BY AppendProperties, LenProperties
<1> HIDE DEF w, l
<1>2. \A q \in 1..(l + 1) : q \in 1..l \/ q = l + 1
  BY <1>1
<1>3. l + 1 \in 1..(l + 1) /\ \A q \in 1..l : q \in 1..(l + 1)
  BY <1>1
<1> QED
  BY <1>1, <1>2, <1>3 DEF w, l

\* One more answer
LEMMA AnswersMore ==
  ASSUME NEW s \in Sender, NEW r \in Receiver, AnswersTell(s, r), NEW u, NEW e,
         u.packets = Append(r.packets, e),
         \A q \in 1..Len(r.packets) :
           LET a == r.packets[q]
           IN  /\ a.type = "PUBREC" /\ Holds(r, a.mid) => Holds(u, a.mid)
               /\ a.type = "PUBCOMP" /\ ~Holds(r, a.mid) => ~Holds(u, a.mid),
         \A id \in Ids : r.delivered[id] > 0 => u.delivered[id] > 0,
         e.type = "PUBREC" => Holds(u, e.mid),
         e.type = "PUBCOMP" => ~Holds(u, e.mid),
         e.type = "PUBACK" => \A i \in 1..Len(s.inflight) :
           s.inflight[i].mid = e.mid => u.delivered[s.inflight[i].id] > 0
  PROVE  AnswersTell(s, u)
<1> DEFINE b == r.packets
           w == Append(b, e)
<1>1. b \in Seq(AnswerPacket)
  BY DEF Receiver
<1>2. /\ \A q \in 1..Len(b) : w[q] = b[q]
      /\ \A q \in 1..Len(w) : q \in 1..Len(b) \/ w[q] = e
  BY <1>1, AppendDoes
<1>3. u.packets = w
  OBVIOUS
<1>4. \A i \in 1..Len(s.inflight) : s.inflight[i].id \in Ids
  BY InflightType
<1> HIDE DEF w
<1>5. ASSUME NEW q \in 1..Len(w)
      PROVE  /\ w[q].type = "PUBREC" => Holds(u, w[q].mid)
             /\ w[q].type = "PUBCOMP" => ~Holds(u, w[q].mid)
             /\ w[q].type = "PUBACK" => \A i \in 1..Len(s.inflight) :
                  s.inflight[i].mid = w[q].mid => u.delivered[s.inflight[i].id] > 0
  <2>1. CASE w[q] = e
    BY <2>1
  <2>2. CASE q \in 1..Len(b)
    <3>1. w[q] = b[q]
      BY <1>2, <2>2
    <3>2. /\ b[q].type = "PUBREC" => Holds(r, b[q].mid)
          /\ b[q].type = "PUBCOMP" => ~Holds(r, b[q].mid)
          /\ b[q].type = "PUBACK" => \A i \in 1..Len(s.inflight) :
               s.inflight[i].mid = b[q].mid => r.delivered[s.inflight[i].id] > 0
      BY <2>2 DEF AnswersTell
    <3> QED
      BY <1>4, <2>2, <3>1, <3>2
  <2> QED
    BY <1>2, <2>1, <2>2
<1> QED
  BY <1>3, <1>5 DEF AnswersTell

\* What u holds was held by r, or is what the answer e is about.
HeldFrom(r, u, e) ==
  \A k \in 1..Len(u.held) :
    \/ \E l \in 1..Len(r.held) : r.held[l] = u.held[k]
    \/ e.type = "PUBREC" /\ e.mid = u.held[k].mid

\* HeldAnswered with one more answer, of a message that is held or not
LEMMA HeldAnsweredMore ==
  ASSUME NEW s, NEW r \in Receiver, HeldAnswered(s, r), NEW u, NEW e,
         u.packets = Append(r.packets, e), HeldFrom(r, u, e)
  PROVE  HeldAnswered(s, u)
<1> DEFINE b == r.packets
           w == Append(b, e)
<1>1. b \in Seq(AnswerPacket)
  BY DEF Receiver
<1>2. /\ \A q \in 1..Len(b) : q \in 1..Len(w) /\ w[q] = b[q]
      /\ Len(b) + 1 \in 1..Len(w) /\ w[Len(b) + 1] = e
  BY <1>1, AppendDoes
<1>3. u.packets = w
  OBVIOUS
<1> HIDE DEF w
<1>4. ASSUME NEW k \in 1..Len(u.held), s.state[u.held[k].id] = "wait_for_pubrec"
      PROVE  \E q \in 1..Len(w) : w[q].type = "PUBREC" /\ w[q].mid = u.held[k].mid
  <2>0. \/ \E l \in 1..Len(r.held) : r.held[l] = u.held[k]
        \/ e.type = "PUBREC" /\ e.mid = u.held[k].mid
    BY DEF HeldFrom
  <2>1. CASE e.type = "PUBREC" /\ e.mid = u.held[k].mid
    BY <1>2, <2>1
  <2>2. CASE \E l \in 1..Len(r.held) : r.held[l] = u.held[k]
    <3>1. PICK l \in 1..Len(r.held) : r.held[l] = u.held[k]
      BY <2>2
    <3>2. PICK q \in 1..Len(b) : b[q].type = "PUBREC" /\ b[q].mid = u.held[k].mid
      BY <1>4, <3>1 DEF HeldAnswered
    <3> QED
      BY <1>2, <3>2
  <2> QED
    BY <2>0, <2>1, <2>2
<1> QED
  BY <1>3, <1>4 DEF HeldAnswered

\* To read a packet changes no row and nothing inflight.
LEMMA ExactSame ==
  ASSUME NEW s, NEW t, NEW u, NEW c, t.inflight = s.inflight, t.state = s.state,
         Account(s, u, c), HeldFit(s, u), AnswersTell(s, u), FirstDup(t, u)
  PROVE  Exact(t, u, c)
<1>1. Account(t, u, c)
  BY DEF Account, PassedOn
<1>2. HeldFit(t, u)
  BY DEF HeldFit, HeldInflight, HeldBegun, HeldAnswered
<1>3. AnswersTell(t, u)
  BY DEF AnswersTell
<1> QED
  BY <1>1, <1>2, <1>3 DEF Exact

\* A message passed on
LEMMA DeliverDoes ==
  ASSUME NEW r \in Receiver, NEW id \in Ids
  PROVE  LET d == Deliver(r, id)
         IN  /\ d \in Receiver
             /\ d.held = r.held /\ d.packets = r.packets /\ r.delivered[id] \in Nat
             /\ d.delivered[id] = r.delivered[id] + 1
             /\ \A a \in Ids : a # id => d.delivered[a] = r.delivered[a]
             /\ \A a \in Ids : r.delivered[a] > 0 => d.delivered[a] > 0
<1> DEFINE d == Deliver(r, id)
<1>1. d \in Receiver /\ d.held = r.held /\ d.packets = r.packets
  BY DeliverTypes
<1>2. d.delivered = [r.delivered EXCEPT ![id] = @ + 1] /\ r.delivered \in [Ids -> Nat]
  BY DEF Deliver, Receiver
<1> HIDE DEF d
<1>3. /\ d.delivered[id] = r.delivered[id] + 1 /\ r.delivered[id] \in Nat
      /\ \A a \in Ids : a # id => d.delivered[a] = r.delivered[a]
  BY <1>2
<1>4. \A a \in Ids : r.delivered[a] > 0 => d.delivered[a] > 0
  BY <1>3
<1> QED
  BY <1>1, <1>3, <1>4 DEF d

\* The receiver reads PUBLISH of QoS 1.
LEMMA ExactQos1 ==
  ASSUME ConfType, NEW s \in Sender, NEW r \in Receiver, NEW c, s.packets # <<>>,
         NEW t, t.packets = Tail(s.packets), t.inflight = s.inflight, t.state = s.state,
         Exact(s, r, c), Mids(s, Len(s.inflight)),
         Tokens(s, Pipe(r.packets, s), Len(s.inflight)),
         NEW p, p = Head(s.packets), p.type = "PUBLISH", conf.qos[p.id] = 1
  PROVE  Exact(t, Answer(Deliver(r, p.id), "PUBACK", p.mid), c)
<1> DEFINE d == Deliver(r, p.id)
           e == Packet("PUBACK", p.mid)
           u == Answer(d, "PUBACK", p.mid)
<1>1. r.packets \in Seq(AnswerPacket)
  BY DEF Receiver
<1>2. /\ p \in OutPacket
      /\ \E y \in 1..Len(s.inflight) :
           p.mid = s.inflight[y].mid /\ Fits(s, p, s.inflight[y].id)
  BY <1>1, HeadOfPipe
<1>3. p.id \in Ids /\ p.mid \in 1..MaxMid
  BY <1>2, PublishPacket
<1>4. /\ d \in Receiver
      /\ d.held = r.held /\ d.packets = r.packets /\ r.delivered[p.id] \in Nat
      /\ d.delivered[p.id] = r.delivered[p.id] + 1
      /\ \A a \in Ids : a # p.id => d.delivered[a] = r.delivered[a]
      /\ \A a \in Ids : r.delivered[a] > 0 => d.delivered[a] > 0
  BY <1>3, DeliverDoes
<1> HIDE DEF d
<1>5. /\ u.held = r.held /\ u.delivered = d.delivered
      /\ u.packets = Append(r.packets, e)
  <2>1. d \in Receiver /\ p.mid \in 1..MaxMid
    BY <1>3, <1>4
  <2>2. /\ u \in Receiver
        /\ u.held = d.held /\ u.rows = d.rows /\ u.delivered = d.delivered
        /\ u.packets = Append(d.packets, e)
    BY <2>1, AnswerTypes
  <2> HIDE DEF u, e
  <2> QED
    BY <1>4, <2>2
<1>6. e.type = "PUBACK" /\ e.mid = p.mid
  BY DEF Packet
<1> HIDE DEF u, e
<1>7. ASSUME NEW a \in Ids
      PROVE  PassedOn(s, u, c, a)
  <2>1. PassedOn(s, r, c, a)
    BY DEF Exact, Account
  <2>2. CASE a # p.id
    <3>1. u.delivered[a] = r.delivered[a]
      BY <1>4, <1>5, <2>2
    <3> QED
      BY <1>5, <2>1, <3>1 DEF PassedOn
  <2>3. CASE a = p.id
    <3>1. u.delivered[a] > 0
      BY <1>4, <1>5, <2>3
    <3> QED
      BY <2>3, <3>1 DEF PassedOn
  <2> QED
    BY <2>2, <2>3
<1>8. HeldFit(s, u)
  <2>1. HeldFit(s, r)
    BY DEF Exact
  <2>2. HeldInflight(s, u)
    BY <1>5, <2>1 DEF HeldFit, HeldInflight
  <2>3. HeldBegun(s, u) /\ HeldOnce(u)
    BY <1>5, <2>1 DEF HeldFit, HeldBegun, HeldOnce
  <2>4. HeldAnswered(s, u)
    <3>1. HeldFrom(r, u, e)
      BY <1>5 DEF HeldFrom
    <3>2. HeldAnswered(s, r) /\ u.packets = Append(r.packets, e)
      BY <1>5, <2>1 DEF HeldFit
    <3> QED
      BY <3>1, <3>2, HeldAnsweredMore
  <2> QED
    BY <2>2, <2>3, <2>4 DEF HeldFit
<1>9. AnswersTell(s, u)
  <2>1. \A mid : Holds(u, mid) <=> Holds(r, mid)
    BY <1>5 DEF Holds
  <2>2. \A id \in Ids : r.delivered[id] > 0 => u.delivered[id] > 0
    BY <1>4, <1>5
  <2>3. ASSUME NEW i \in 1..Len(s.inflight), s.inflight[i].mid = e.mid
        PROVE  u.delivered[s.inflight[i].id] > 0
    <3>1. PICK y \in 1..Len(s.inflight) :
            p.mid = s.inflight[y].mid /\ Fits(s, p, s.inflight[y].id)
      BY <1>2
    <3>2. i = y
      BY <1>6, <2>3, <3>1 DEF Mids
    <3>3. s.inflight[i].id = p.id
      BY <3>1, <3>2 DEF Fits
    <3> QED
      BY <1>4, <1>5, <3>3
  <2>4. AnswersTell(s, r)
    BY DEF Exact
  <2> QED
    BY <1>5, <1>6, <2>1, <2>2, <2>3, <2>4, AnswersMore
<1>10. FirstDup(t, u)
  BY <1>1, <1>5, DupRead DEF Exact
<1>11. Account(s, u, c)
  BY <1>7 DEF Account
<1> QED
  BY <1>8, <1>9, <1>10, <1>11, ExactSame DEF u, d

\* A PUBLISH of QoS 2 is of no message that is held: what
\* db__message_remove_incoming_dup() looks for is not there.
LEMMA NothingReplaced ==
  ASSUME NEW s \in Sender, NEW r \in Receiver, s.packets # <<>>,
         HeldFit(s, r), FirstDup(s, r), Lists(s, Len(s.inflight)),
         Mids(s, Len(s.inflight)), Tokens(s, Pipe(r.packets, s), Len(s.inflight)),
         NEW p, p = Head(s.packets), OfQos2(p)
  PROVE  ~Holds(r, p.mid) /\ WithoutDup(r, p) = r
<1>1. r.packets \in Seq(AnswerPacket) /\ r.held \in Seq(Held)
  BY DEF Receiver
<1>2. DOMAIN r.held = 1..Len(r.held)
  BY <1>1
<1>3. /\ \E y \in 1..Len(s.inflight) :
           p.mid = s.inflight[y].mid /\ Fits(s, p, s.inflight[y].id)
      /\ \A q \in 1..Len(r.packets) : r.packets[q].mid # p.mid
      /\ 1 \in 1..Len(s.packets) /\ s.packets[1] = p
  BY <1>1, HeadOfPipe
<1>4. PICK y \in 1..Len(s.inflight) :
        p.mid = s.inflight[y].mid /\ Fits(s, p, s.inflight[y].id)
  BY <1>3
<1>5. s.state[s.inflight[y].id] = "wait_for_pubrec"
  BY <1>4 DEF Fits, OfQos2, FirstWait
<1>6. ~Holds(r, p.mid)
  <2> SUFFICES ASSUME NEW k \in 1..Len(r.held), r.held[k].mid = p.mid PROVE FALSE
    BY DEF Holds
  <2>1. r.held[k].id = s.inflight[y].id
    BY <1>4, HeldIs
  <2>2. PICK q \in 1..Len(r.packets) : r.packets[q].mid = r.held[k].mid
    BY <1>5, <2>1 DEF HeldFit, HeldAnswered
  <2> QED
    BY <1>3, <2>2
<1>7. p.dup => Replaced(r, p.mid) = {}
  <2>1. CASE conf.server
    <3>1. p.dup => Len(r.held) = 0
      BY <1>3, <2>1 DEF FirstDup
    <3>2. Replaced(r, p.mid) = {i \in DOMAIN r.held : r.held[i].row = p.mid}
      BY <2>1 DEF Replaced
    <3> QED
      BY <1>2, <3>1, <3>2
  <2>2. CASE ~conf.server
    <3>1. Replaced(r, p.mid) = WithMid(r.held, p.mid)
      BY <2>2 DEF Replaced
    <3> QED
      BY <1>2, <1>6, <3>1 DEF WithMid, Holds
  <2> QED
    BY <2>1, <2>2
<1>8. (IF p.dup THEN Replaced(r, p.mid) ELSE {}) = {}
  BY <1>7
<1>9. WithoutDup(r, p) = r
  BY <1>8 DEF WithoutDup
<1> QED
  BY <1>6, <1>9

\* The receiver reads PUBLISH of QoS 2, with room for it.
LEMMA ExactQos2 ==
  ASSUME ConfType, NEW s \in Sender, NEW r \in Receiver, NEW c, s.packets # <<>>,
         NEW t, t.packets = Tail(s.packets), t.inflight = s.inflight, t.state = s.state,
         RowsKnown(r), Room(r.held), Exact(s, r, c), Lists(s, Len(s.inflight)),
         Mids(s, Len(s.inflight)), Tokens(s, Pipe(r.packets, s), Len(s.inflight)),
         NEW p, p = Head(s.packets), OfQos2(p)
  PROVE  LET h == [r EXCEPT !.rows = @ + 1,
                            !.held = Append(@, [id |-> p.id, mid |-> p.mid,
                                                row |-> r.rows + 1])]
         IN  Exact(t, Answer(h, "PUBREC", p.mid), c)
<1> DEFINE v == [id |-> p.id, mid |-> p.mid, row |-> r.rows + 1]
           h == [r EXCEPT !.rows = @ + 1,
                          !.held = Append(@, [id |-> p.id, mid |-> p.mid,
                                              row |-> r.rows + 1])]
           e == Packet("PUBREC", p.mid)
           u == Answer(h, "PUBREC", p.mid)
<1>1. r.packets \in Seq(AnswerPacket) /\ r.held \in Seq(Held)
  BY DEF Receiver
<1>2. /\ p \in OutPacket
      /\ \E y \in 1..Len(s.inflight) :
           p.mid = s.inflight[y].mid /\ Fits(s, p, s.inflight[y].id)
      /\ \A q \in 1..Len(r.packets) : r.packets[q].mid # p.mid
  BY <1>1, HeadOfPipe
<1>3. p.id \in Ids /\ p.mid \in 1..MaxMid /\ p.type = "PUBLISH" /\ conf.qos[p.id] = 2
  BY <1>2, PublishPacket DEF OfQos2
<1>4. /\ HeldFit(s, r) /\ AnswersTell(s, r) /\ FirstDup(s, r) /\ Account(s, r, c)
  BY DEF Exact
<1>5. ~Holds(r, p.mid)
  BY <1>4, NothingReplaced
<1>6. /\ h \in Receiver /\ h.packets = r.packets
  BY <1>3, HeldTypes
<1>7. h.held = Append(r.held, v) /\ h.delivered = r.delivered
  BY DEF Receiver
<1> HIDE DEF h
<1>8. /\ u.held = Append(r.held, v) /\ u.delivered = r.delivered
      /\ u.packets = Append(r.packets, e)
  <2>1. h \in Receiver /\ p.mid \in 1..MaxMid
    BY <1>3, <1>6
  <2>2. /\ u \in Receiver
        /\ u.held = h.held /\ u.rows = h.rows /\ u.delivered = h.delivered
        /\ u.packets = Append(h.packets, e)
    BY <2>1, AnswerTypes
  <2> HIDE DEF u, e, v
  <2> QED
    BY <1>6, <1>7, <2>2
<1>9. e.type = "PUBREC" /\ e.mid = p.mid /\ v.id = p.id /\ v.mid = p.mid
  BY DEF Packet
<1> HIDE DEF u, e, v
<1>10. LET w == u.held
           l == Len(r.held)
       IN  /\ l \in Nat /\ l + 1 \in 1..Len(w) /\ w[l + 1] = v
           /\ \A k \in 1..l : k \in 1..Len(w) /\ w[k] = r.held[k]
           /\ \A k \in 1..Len(w) : k \in 1..l \/ w[k] = v
           /\ Len(w) = l + 1
  BY <1>1, <1>8, AppendDoes
<1>11. PICK y \in 1..Len(s.inflight) :
         p.mid = s.inflight[y].mid /\ Fits(s, p, s.inflight[y].id)
  BY <1>2
<1>12. p.id = s.inflight[y].id /\ s.state[p.id] = "wait_for_pubrec"
  BY <1>3, <1>11 DEF Fits, FirstWait
<1>13. \A mid : Holds(u, mid) <=> Holds(r, mid) \/ mid = p.mid
  BY <1>9, <1>10 DEF Holds
<1>14. ASSUME NEW a \in Ids
       PROVE  PassedOn(s, u, c, a)
  <2>1. PassedOn(s, r, c, a)
    BY <1>4 DEF Account
  <2>2. CASE a = p.id
    BY <1>8, <1>12, <2>1, <2>2 DEF PassedOn
  <2>3. CASE a # p.id
    <3>1. (\E k \in 1..Len(u.held) : u.held[k].id = a)
            <=> (\E k \in 1..Len(r.held) : r.held[k].id = a)
      BY <1>9, <1>10, <2>3
    <3> QED
      BY <1>8, <2>1, <3>1 DEF PassedOn
  <2> QED
    BY <2>2, <2>3
<1>15. HeldFit(s, u)
  <2>1. ASSUME NEW k \in 1..Len(u.held)
        PROVE  \E i \in 1..Len(s.inflight) :
                 s.inflight[i].id = u.held[k].id /\ s.inflight[i].mid = u.held[k].mid
    <3>1. CASE u.held[k] = v
      BY <1>9, <1>11, <1>12, <3>1
    <3>2. CASE k \in 1..Len(r.held)
      BY <1>4, <1>10, <3>2 DEF HeldFit, HeldInflight
    <3> QED
      BY <1>10, <3>1, <3>2
  <2>2. HeldBegun(s, u)
    BY <1>4, <1>9, <1>10, <1>12 DEF HeldFit, HeldBegun
  <2>3. ASSUME NEW k \in 1..Len(u.held), NEW l \in 1..Len(u.held),
               u.held[k].mid = u.held[l].mid
        PROVE  k = l
    <3>1. CASE k \in 1..Len(r.held) /\ l \in 1..Len(r.held)
      BY <1>4, <1>10, <2>3, <3>1 DEF HeldFit, HeldOnce
    <3>2. ASSUME NEW i \in 1..Len(r.held)
          PROVE  u.held[i].mid # p.mid
      BY <1>5, <1>10 DEF Holds
    <3>3. ASSUME NEW i \in 1..Len(u.held), i \notin 1..Len(r.held)
          PROVE  i = Len(r.held) + 1 /\ u.held[i].mid = p.mid
      <4>1. i = Len(r.held) + 1
        BY <1>10, <3>3
      <4> QED
        BY <1>9, <1>10, <3>3, <4>1
    <3> QED
      BY <2>3, <3>1, <3>2, <3>3
  <2>4. HeldAnswered(s, u)
    <3>1. HeldFrom(r, u, e)
      BY <1>9, <1>10 DEF HeldFrom
    <3>2. HeldAnswered(s, r) /\ u.packets = Append(r.packets, e)
      BY <1>4, <1>8 DEF HeldFit
    <3> QED
      BY <3>1, <3>2, HeldAnsweredMore
  <2>5. HeldInflight(s, u)
    BY <2>1 DEF HeldInflight
  <2>6. HeldOnce(u)
    BY <2>3 DEF HeldOnce
  <2> QED
    BY <2>2, <2>4, <2>5, <2>6 DEF HeldFit
<1>16. AnswersTell(s, u)
  <2>1. \A id \in Ids : r.delivered[id] > 0 => u.delivered[id] > 0
    BY <1>8
  <2>2. e.type # "PUBCOMP" /\ e.type # "PUBACK" /\ Holds(u, e.mid)
    BY <1>9, <1>13
  <2>3. \A q \in 1..Len(r.packets) :
          LET a == r.packets[q]
          IN  /\ a.type = "PUBREC" /\ Holds(r, a.mid) => Holds(u, a.mid)
              /\ a.type = "PUBCOMP" /\ ~Holds(r, a.mid) => ~Holds(u, a.mid)
    BY <1>2, <1>13
  <2>4. u.packets = Append(r.packets, e) /\ AnswersTell(s, r)
    BY <1>4, <1>8
  <2> QED
    BY <2>1, <2>2, <2>3, <2>4, AnswersMore
<1>17. FirstDup(t, u)
  BY <1>1, <1>4, DupRead
<1>18. Account(s, u, c)
  BY <1>14 DEF Account
<1>19. Exact(t, u, c)
  BY <1>15, <1>16, <1>17, <1>18, ExactSame
<1> QED
  BY <1>19 DEF u, h

\* The receiver reads PUBREL of a message that it does not hold,
LEMMA ExactReleasedBefore ==
  ASSUME ConfType, NEW s \in Sender, NEW r \in Receiver, NEW c, s.packets # <<>>,
         NEW t, t.packets = Tail(s.packets), t.inflight = s.inflight, t.state = s.state,
         Exact(s, r, c), Tokens(s, Pipe(r.packets, s), Len(s.inflight)),
         NEW p, p = Head(s.packets), p.type = "PUBREL", WithMid(r.held, p.mid) = {}
  PROVE  Exact(t, Answer(r, "PUBCOMP", p.mid), c)
<1> DEFINE e == Packet("PUBCOMP", p.mid)
           u == Answer(r, "PUBCOMP", p.mid)
<1>1. r.packets \in Seq(AnswerPacket) /\ r.held \in Seq(Held)
  BY DEF Receiver
<1>2. p \in OutPacket
  BY <1>1, HeadOfPipe
<1>3. p.mid \in 1..MaxMid
  BY <1>2, PublishPacket
<1>4. HeldFit(s, r) /\ AnswersTell(s, r) /\ FirstDup(s, r) /\ Account(s, r, c)
  BY DEF Exact
<1>5. ~Holds(r, p.mid)
  <2>1. DOMAIN r.held = 1..Len(r.held)
    BY <1>1
  <2> QED
    BY <2>1 DEF Holds, WithMid
<1>6. /\ u.held = r.held /\ u.delivered = r.delivered
      /\ u.packets = Append(r.packets, e)
  BY <1>3, AnswerTypes
<1>7. e.type = "PUBCOMP" /\ e.mid = p.mid
  BY DEF Packet
<1> HIDE DEF u, e
<1>8. Account(s, u, c)
  BY <1>4, <1>6 DEF Account, PassedOn
<1>9. HeldFit(s, u)
  <2>1. HeldInflight(s, u)
    BY <1>4, <1>6 DEF HeldFit, HeldInflight
  <2>2. HeldBegun(s, u) /\ HeldOnce(u)
    BY <1>4, <1>6 DEF HeldFit, HeldBegun, HeldOnce
  <2>3. HeldFrom(r, u, e)
    BY <1>6 DEF HeldFrom
  <2>4. HeldAnswered(s, r) /\ u.packets = Append(r.packets, e)
    BY <1>4, <1>6 DEF HeldFit
  <2>5. HeldAnswered(s, u)
    BY <2>3, <2>4, HeldAnsweredMore
  <2> QED
    BY <2>1, <2>2, <2>5 DEF HeldFit
<1>10. AnswersTell(s, u)
  <2>1. \A mid : Holds(u, mid) <=> Holds(r, mid)
    BY <1>6 DEF Holds
  <2>2. \A id \in Ids : r.delivered[id] > 0 => u.delivered[id] > 0
    BY <1>6
  <2>3. u.packets = Append(r.packets, e) /\ AnswersTell(s, r)
    BY <1>4, <1>6
  <2>4. e.type # "PUBREC" /\ e.type # "PUBACK" /\ ~Holds(u, e.mid)
    BY <1>5, <1>7, <2>1
  <2> QED
    BY <2>1, <2>2, <2>3, <2>4, AnswersMore
<1>11. FirstDup(t, u)
  BY <1>1, <1>4, <1>6, DupRead
<1>12. Exact(t, u, c)
  BY <1>8, <1>9, <1>10, <1>11, ExactSame
<1> QED
  BY <1>12 DEF u

\* or holds, and passes on.
LEMMA ExactReleased ==
  ASSUME ConfType, NEW s \in Sender, NEW r \in Receiver, NEW c, s.packets # <<>>,
         NEW t, t.packets = Tail(s.packets), t.inflight = s.inflight, t.state = s.state,
         Exact(s, r, c), StatesFit(s),
         Lists(s, Len(s.inflight)), Mids(s, Len(s.inflight)),
         Tokens(s, Pipe(r.packets, s), Len(s.inflight)),
         NEW p, p = Head(s.packets), p.type = "PUBREL",
         NEW x, x = First(WithMid(r.held, p.mid)), WithMid(r.held, p.mid) # {}
  PROVE  Exact(t, Answer(Deliver([r EXCEPT !.held = RemoveAt(@, x)], r.held[x].id),
                         "PUBCOMP", p.mid), c)
<1> DEFINE g == [r EXCEPT !.held = RemoveAt(@, x)]
           id == r.held[x].id
           d == Deliver(g, id)
           e == Packet("PUBCOMP", p.mid)
           u == Answer(d, "PUBCOMP", p.mid)
           l == Len(r.held)
           w == RemoveAt(r.held, x)
<1>1. r.packets \in Seq(AnswerPacket) /\ r.held \in Seq(Held)
  BY DEF Receiver
<1>2. /\ p \in OutPacket
      /\ \E y \in 1..Len(s.inflight) :
           p.mid = s.inflight[y].mid /\ Fits(s, p, s.inflight[y].id)
      /\ \A q \in 1..Len(r.packets) : r.packets[q].mid # p.mid
  BY <1>1, HeadOfPipe
<1>3. p.mid \in 1..MaxMid
  BY <1>2, PublishPacket
<1>4. HeldFit(s, r) /\ AnswersTell(s, r) /\ FirstDup(s, r) /\ Account(s, r, c)
  BY DEF Exact
<1>5. x \in 1..l /\ r.held[x].mid = p.mid /\ l \in Nat
  <2> DEFINE places == WithMid(r.held, p.mid)
  <2>1. places \in SUBSET DOMAIN r.held /\ places # {}
    BY DEF WithMid
  <2>2. \A i \in places : r.held[i].mid = p.mid
    BY DEF WithMid
  <2> HIDE DEF places
  <2>3. First(places) \in places /\ First(places) \in 1..Len(r.held)
    BY <1>1, <2>1, FirstDoes
  <2>4. x = First(places)
    BY DEF places
  <2> QED
    BY <1>1, <2>2, <2>3, <2>4, LenProperties
<1>6. /\ w \in Seq(Held) /\ Len(w) = l - 1
      /\ \A j \in 1..(l - 1) : w[j] = IF j < x THEN r.held[j] ELSE r.held[j + 1]
  BY <1>1, <1>5, RemoveAtDoes
<1>7. id \in Ids
  <2>1. r.held[x] \in Held
    BY <1>1, <1>5
  <2> QED
    BY <2>1 DEF Held
<1> HIDE DEF w
<1>8. /\ g \in Receiver /\ g.held = w /\ g.packets = r.packets
      /\ g.delivered = r.delivered
  <2>1. g = [r EXCEPT !.held = w] /\ r \in Receiver
    BY DEF w
  <2> HIDE DEF g
  <2> QED
    BY ONLY <1>6, <2>1 DEF Receiver
<1> HIDE DEF g
<1>9. /\ d \in Receiver
      /\ d.held = g.held /\ d.packets = g.packets /\ g.delivered[id] \in Nat
      /\ d.delivered[id] = g.delivered[id] + 1
      /\ \A a \in Ids : a # id => d.delivered[a] = g.delivered[a]
      /\ \A a \in Ids : g.delivered[a] > 0 => d.delivered[a] > 0
  <2>1. g \in Receiver /\ id \in Ids
    BY <1>7, <1>8
  <2> HIDE DEF id
  <2> QED
    BY ONLY <2>1, DeliverDoes
<1> HIDE DEF d
<1>10. /\ u.held = w /\ u.delivered = d.delivered
       /\ u.packets = Append(r.packets, e)
  <2>1. /\ d \in Receiver /\ p.mid \in 1..MaxMid
        /\ "PUBCOMP" \in {"PUBACK", "PUBREC", "PUBCOMP"}
    BY ONLY <1>3, <1>9
  <2>2. /\ u \in Receiver
        /\ u.held = d.held /\ u.rows = d.rows /\ u.delivered = d.delivered
        /\ u.packets = Append(d.packets, e)
    BY ONLY <2>1, AnswerTypes
  <2>3. d.held = g.held /\ d.packets = g.packets
    BY ONLY <1>9
  <2> HIDE DEF u, e
  <2> QED
    BY ONLY <1>8, <2>2, <2>3
<1>11. e.type = "PUBCOMP" /\ e.mid = p.mid
  BY DEF Packet
<1> HIDE DEF u, e, id, l
<1>12. PICK y \in 1..Len(s.inflight) :
         p.mid = s.inflight[y].mid /\ Fits(s, p, s.inflight[y].id)
  BY <1>2
<1>13. id = s.inflight[y].id /\ s.state[id] = "wait_for_pubcomp"
  <2>1. id = s.inflight[y].id
    BY <1>4, <1>5, <1>12, HeldIs DEF id, l
  <2> QED
    BY <1>12, <2>1 DEF Fits
\* w is what was held, without the message.
<1>14. ASSUME NEW k \in 1..l, r.held[k].mid = p.mid \/ r.held[k].id = id
       PROVE  k = x
  <2>1. r.held[k].mid = p.mid
    <3>1. r.held[k].mid = s.inflight[y].mid <=> r.held[k].id = s.inflight[y].id
      BY <1>4, HeldIs DEF l
    <3> QED
      BY <1>12, <1>13, <1>14, <3>1
  <2> QED
    BY <1>4, <1>5, <2>1 DEF HeldFit, HeldOnce, l
<1>15. ASSUME NEW j \in 1..Len(w)
       PROVE  \E k \in 1..l : k # x /\ w[j] = r.held[k] /\ (k = j \/ k = j + 1)
                              /\ (j < x => k = j) /\ (~(j < x) => k = j + 1)
  <2>1. j \in 1..(l - 1) /\ j \in Nat
    BY <1>5, <1>6
  <2>2. CASE j < x
    <3>1. j \in 1..l /\ j # x
      BY <1>5, <2>1, <2>2
    <3> QED
      BY <1>6, <2>1, <2>2, <3>1
  <2>3. CASE ~(j < x)
    <3>1. j + 1 \in 1..l /\ j + 1 # x
      BY <1>5, <2>1, <2>3
    <3> QED
      BY <1>6, <2>1, <2>3, <3>1
  <2> QED
    BY <2>2, <2>3
<1>16. ASSUME NEW k \in 1..l, k # x
       PROVE  \E j \in 1..Len(w) : w[j] = r.held[k]
  <2>1. CASE k < x
    <3>1. k \in 1..(l - 1)
      BY <1>5, <2>1
    <3> QED
      BY <1>6, <2>1, <3>1
  <2>2. CASE ~(k < x)
    <3> DEFINE j == k - 1
    <3>1. j \in 1..(l - 1) /\ ~(j < x) /\ j + 1 = k
      BY <1>5, <1>16, <2>2
    <3> HIDE DEF j
    <3> QED
      BY <1>6, <3>1
  <2> QED
    BY <2>1, <2>2
<1>17. \A mid : Holds(u, mid) <=> Holds(r, mid) /\ mid # p.mid
  <2>1. ASSUME NEW mid, Holds(u, mid)
        PROVE  Holds(r, mid) /\ mid # p.mid
    <3>1. PICK j \in 1..Len(w) : w[j].mid = mid
      BY <1>10, <2>1 DEF Holds
    <3>2. PICK k \in 1..l : k # x /\ w[j] = r.held[k]
      BY <1>15
    <3> QED
      BY <1>14, <3>1, <3>2 DEF Holds, l
  <2>2. ASSUME NEW mid, Holds(r, mid), mid # p.mid
        PROVE  Holds(u, mid)
    <3>1. PICK k \in 1..l : r.held[k].mid = mid
      BY <2>2 DEF Holds, l
    <3>2. k # x
      BY <1>5, <2>2, <3>1
    <3>3. PICK j \in 1..Len(w) : w[j] = r.held[k]
      BY <1>16, <3>2
    <3> QED
      BY <1>10, <3>1, <3>3 DEF Holds
  <2> QED
    BY <2>1, <2>2
<1>18. ASSUME NEW a \in Ids
       PROVE  PassedOn(s, u, c, a)
  <2>1. PassedOn(s, r, c, a)
    BY <1>4 DEF Account
  <2>2. CASE a = id
    <3>1. conf.qos[a] = 2
      BY <1>13, <2>2 DEF StatesFit
    <3>2. \E k \in 1..Len(r.held) : r.held[k].id = a
      BY <1>5, <2>2 DEF id, l
    <3>3. r.delivered[a] = 0
      BY <1>13, <2>1, <2>2, <3>1, <3>2 DEF PassedOn
    <3>4. u.delivered[a] = 1
      BY <1>8, <1>9, <1>10, <2>2, <3>3
    <3>5. ~\E j \in 1..Len(u.held) : u.held[j].id = a
      BY <1>10, <1>14, <1>15, <2>2
    <3> QED
      BY <1>13, <2>2, <3>1, <3>4, <3>5 DEF PassedOn
  <2>3. CASE a # id
    <3>1. u.delivered[a] = r.delivered[a]
      BY <1>8, <1>9, <1>10, <2>3
    <3>2. (\E j \in 1..Len(u.held) : u.held[j].id = a)
            <=> (\E k \in 1..Len(r.held) : r.held[k].id = a)
      <4>1. ASSUME NEW j \in 1..Len(w), w[j].id = a
            PROVE  \E k \in 1..Len(r.held) : r.held[k].id = a
        BY <1>15, <4>1 DEF l
      <4>2. ASSUME NEW k \in 1..l, r.held[k].id = a
            PROVE  \E j \in 1..Len(w) : w[j].id = a
        <5>1. k # x
          BY <2>3, <4>2 DEF id
        <5> QED
          BY <1>16, <4>2, <5>1
      <4> QED
        BY <1>10, <4>1, <4>2 DEF l
    <3> QED
      BY <2>1, <3>1, <3>2 DEF PassedOn
  <2> QED
    BY <2>2, <2>3
<1>19. HeldFit(s, u)
  <2>1. HeldInflight(s, u)
    <3>1. ASSUME NEW j \in 1..Len(w)
          PROVE  \E i \in 1..Len(s.inflight) :
                   s.inflight[i].id = w[j].id /\ s.inflight[i].mid = w[j].mid
      <4>1. PICK k \in 1..l : w[j] = r.held[k]
        BY <1>15
      <4> QED
        BY <1>4, <4>1 DEF HeldFit, HeldInflight, l
    <3> QED
      BY <1>10, <3>1 DEF HeldInflight
  <2>2. HeldBegun(s, u)
    BY <1>4, <1>10, <1>15 DEF HeldFit, HeldBegun, l
  <2>3. ASSUME NEW i \in 1..Len(w), NEW j \in 1..Len(w), w[i].mid = w[j].mid
        PROVE  i = j
    <3>1. PICK k \in 1..l : /\ w[i] = r.held[k]
                            /\ (i < x => k = i) /\ (~(i < x) => k = i + 1)
      BY <1>15
    <3>2. PICK m \in 1..l : /\ w[j] = r.held[m]
                            /\ (j < x => m = j) /\ (~(j < x) => m = j + 1)
      BY <1>15
    <3>3. k = m
      BY <1>4, <2>3, <3>1, <3>2 DEF HeldFit, HeldOnce, l
    <3>4. i \in Nat /\ j \in Nat /\ x \in Nat
      BY <1>5, <1>6
    <3> QED
      BY <3>1, <3>2, <3>3, <3>4
  <2>4. HeldAnswered(s, u)
    <3>1. HeldFrom(r, u, e)
      BY <1>10, <1>15 DEF HeldFrom, l
    <3>2. HeldAnswered(s, r) /\ u.packets = Append(r.packets, e)
      BY <1>4, <1>10 DEF HeldFit
    <3> QED
      BY <3>1, <3>2, HeldAnsweredMore
  <2>5. HeldOnce(u)
    BY <1>10, <2>3 DEF HeldOnce
  <2> QED
    BY <2>1, <2>2, <2>4, <2>5 DEF HeldFit
<1>20. AnswersTell(s, u)
  <2>1. \A a \in Ids : r.delivered[a] > 0 => u.delivered[a] > 0
    BY <1>8, <1>9, <1>10
  <2>2. e.type # "PUBREC" /\ e.type # "PUBACK" /\ ~Holds(u, e.mid)
    BY <1>11, <1>17
  <2>3. \A q \in 1..Len(r.packets) :
          LET a == r.packets[q]
          IN  /\ a.type = "PUBREC" /\ Holds(r, a.mid) => Holds(u, a.mid)
              /\ a.type = "PUBCOMP" /\ ~Holds(r, a.mid) => ~Holds(u, a.mid)
    BY <1>2, <1>17
  <2>4. u.packets = Append(r.packets, e) /\ AnswersTell(s, r)
    BY <1>4, <1>10
  <2> QED
    BY <2>1, <2>2, <2>3, <2>4, AnswersMore
<1>21. FirstDup(t, u)
  <2>1. Len(r.held) # 0
    BY <1>5 DEF l
  <2> QED
    BY <1>1, <1>4, <2>1, DupRead
<1>22. Account(s, u, c)
  BY <1>18 DEF Account
<1>23. Exact(t, u, c)
  BY <1>19, <1>20, <1>21, <1>22, ExactSame
<1> QED
  BY <1>23 DEF u, d, g, id

\* One message of a set of at most one
LEMMA OneOf ==
  ASSUME NEW S, IsFiniteSet(S), Cardinality(S) <= 1, NEW x \in S, NEW y \in S
  PROVE  x = y
<1> SUFFICES ASSUME x # y PROVE FALSE
  OBVIOUS
<1> DEFINE f == [k \in 1..2 |-> IF k = 1 THEN x ELSE y]
<1>1. \A k \in 1..2 : f[k] \in S
  OBVIOUS
<1>2. \A k, l \in 1..2 : f[k] = f[l] => k = l
  OBVIOUS
<1> HIDE DEF f
<1>3. 2 <= Cardinality(S)
  BY <1>1, <1>2, AtMost
<1>4. Cardinality(S) \in Nat
  BY FS_CardinalityType
<1> QED
  BY <1>3, <1>4

\* What a packet says is what it was made with.
LEMMA PacketIs ==
  ASSUME NEW id, NEW mid, NEW dup
  PROVE  /\ Packet("PUBREL", mid).type = "PUBREL"
         /\ Publish(id, mid, dup).id = id
         /\ Publish(id, mid, dup).dup = dup
BY DEF Packet, Publish

\* A new connection: what was sent and not answered goes first, and it is one.
LEMMA ExactConnects ==
  ASSUME ConfType, MaxInflight > 0, NEW s \in Sender, s.packets = <<>>, StatesFit(s),
         conf.server => Rows(s), Cardinality(Sent(s)) <= 1,
         NEW r \in Receiver, Len(r.held) = 0, Len(r.packets) = 0,
         NEW c, Account(s, r, c), NEW t, t = Release(Load(s), TRUE)
  PROVE  Exact(t, r, c)
<1> DEFINE f == Load(s)
           n == Len(f.inflight)
<1>1. /\ f \in Sender /\ f.state = s.state /\ f.packets = s.packets
      /\ n <= MaxInflight /\ 0 \in 0..n
      /\ \A i, j \in 1..n : i < j => f.inflight[i].id < f.inflight[j].id
      /\ Releases(f, TRUE, 0)
  BY LoadReleases
<1>2. t = Release(f, TRUE)
  BY DEF f
<1> HIDE DEF f
<1>3. Released(f, t, 0)
  BY <1>1, <1>2, ReleaseRun
<1>4. n \in Nat /\ \A i \in 1..n : f.inflight[i].id \in Ids
  BY <1>1, InflightType
<1>5. Len(f.packets) = 0
  BY <1>1, EmptySeq
<1> HIDE DEF n
<1>6. /\ Len(t.packets) = n
      /\ \A k \in 1..n :
           t.packets[k] = IF f.state[f.inflight[k].id] = "wait_for_pubcomp"
                          THEN Packet("PUBREL", MidAfter(f.lastMid, k))
                          ELSE Publish(f.inflight[k].id, MidAfter(f.lastMid, k),
                                       f.state[f.inflight[k].id] # "invalid")
  <2>1. /\ Len(t.packets) = Len(f.packets) + n - 0
        /\ \A k \in 1..(n - 0) :
             t.packets[Len(f.packets) + k] =
               IF f.state[f.inflight[0 + k].id] = "wait_for_pubcomp"
               THEN Packet("PUBREL", MidAfter(f.lastMid, k))
               ELSE Publish(f.inflight[0 + k].id, MidAfter(f.lastMid, k),
                            f.state[f.inflight[0 + k].id] # "invalid")
    BY <1>3 DEF Released, n
  <2>2. n - 0 = n /\ Len(f.packets) + n - 0 = n
    BY <1>4, <1>5
  <2>3. \A k \in 1..n : Len(f.packets) + k = k /\ 0 + k = k
    BY <1>4, <1>5
  <2> QED
    BY <2>1, <2>2, <2>3
<1>7. \A id \in Ids : Moves(id, s.state[id], t.state[id])
  BY <1>1, <1>3 DEF Released, Moves
<1>8. Account(t, r, c)
  BY <1>7, AccountMoves DEF Account
<1>9. HeldFit(t, r) /\ AnswersTell(t, r)
  BY DEF HeldFit, HeldInflight, HeldBegun, HeldAnswered, HeldOnce, AnswersTell
<1>10. ASSUME NEW k \in 1..n, OfQos2(t.packets[k])
       PROVE  LET id == f.inflight[k].id
              IN  /\ id \in Ids /\ s.state[id] \in {"invalid", "wait_for_pubrec"}
                  /\ t.packets[k].dup <=> s.state[id] # "invalid"
  <2> DEFINE id == f.inflight[k].id
             mid == MidAfter(f.lastMid, k)
             again == f.state[id] # "invalid"
  <2>0. t.packets[k] = IF f.state[id] = "wait_for_pubcomp" THEN Packet("PUBREL", mid)
                       ELSE Publish(id, mid, again)
    BY <1>6
  <2> HIDE DEF id, mid, again
  <2>1. f.state[id] # "wait_for_pubcomp"
    <3> SUFFICES ASSUME f.state[id] = "wait_for_pubcomp" PROVE FALSE
      OBVIOUS
    <3>1. t.packets[k] = Packet("PUBREL", mid)
      BY <2>0
    <3>2. Packet("PUBREL", mid).type = "PUBREL"
      BY ONLY PacketIs
    <3>3. t.packets[k].type = "PUBREL"
      BY ONLY <3>1, <3>2
    <3> QED
      BY <1>10, <3>3 DEF OfQos2
  <2>2. t.packets[k] = Publish(id, mid, again)
    BY <2>0, <2>1
  <2>3. t.packets[k].id = id /\ t.packets[k].dup = again
    <3>1. Publish(id, mid, again).id = id /\ Publish(id, mid, again).dup = again
      BY PacketIs
    <3> DEFINE e == Publish(id, mid, again)
    <3> HIDE DEF e
    <3>2. t.packets[k] = e
      BY <2>2 DEF e
    <3>3. e.id = id /\ e.dup = again
      BY <3>1 DEF e
    <3> QED
      BY <3>2, <3>3
  <2>4. conf.qos[id] = 2 /\ id \in Ids
    BY <1>4, <1>10, <2>3 DEF OfQos2, id
  <2>5. f.state[id] # "none"
    <3>1. \A i \in (0 + 1)..Len(f.inflight) : f.state[f.inflight[i].id] # "none"
      BY <1>1 DEF Releases
    <3>2. k \in (0 + 1)..Len(f.inflight)
      BY DEF n
    <3> QED
      BY <3>1, <3>2 DEF id
  <2>6. f.state[id] \in States
    BY <1>1, <2>4 DEF Sender
  <2>7. s.state[id] \in {"invalid", "wait_for_pubrec"}
    BY <1>1, <2>1, <2>4, <2>5, <2>6 DEF StatesFit, States
  <2> QED
    BY <1>1, <2>3, <2>4, <2>7 DEF id, again
<1>11. ASSUME conf.server, NEW k \in 1..n, OfQos2(t.packets[k]), t.packets[k].dup,
              NEW l \in 1..(k - 1)
       PROVE  ~OfQos2(t.packets[l])
  <2> SUFFICES ASSUME OfQos2(t.packets[l]) PROVE FALSE
    OBVIOUS
  <2> DEFINE a == f.inflight[l].id
             b == f.inflight[k].id
  <2>1. l \in 1..n /\ l < k
    BY <1>4
  <2>2. a < b
    BY <1>1, <2>1
  <2>3. b \in Ids /\ s.state[b] = "wait_for_pubrec"
    BY <1>10, <1>11
  <2>4. a \in Ids /\ s.state[a] \in {"invalid", "wait_for_pubrec"}
    BY <1>10, <2>1
  <2> HIDE DEF a, b
  <2>5. CASE s.state[a] = "invalid"
    <3>1. b \in Begun(s)
      BY <2>3 DEF Begun
    <3> QED
      BY <1>11, <2>2, <2>4, <2>5, <3>1 DEF Rows
  <2>6. CASE s.state[a] = "wait_for_pubrec"
    <3>1. a \in Sent(s) /\ b \in Sent(s)
      BY <2>3, <2>4, <2>6 DEF Sent
    <3>2. IsFiniteSet(Sent(s))
      <4>1. IsFiniteSet(Ids) /\ Sent(s) \subseteq Ids
        BY FS_Interval, MqttAssumption DEF Ids, Sent
      <4> QED
        BY <4>1, FS_Subset
    <3>3. a = b
      BY <3>1, <3>2, OneOf
    <3>4. a \in Nat
      BY <2>4, MqttAssumption DEF Ids
    <3> QED
      BY <2>2, <3>3, <3>4
  <2> QED
    BY <2>4, <2>5, <2>6
<1>12. FirstDup(t, r)
  BY <1>6, <1>11 DEF FirstDup
<1> QED
  BY <1>8, <1>9, <1>12 DEF Exact

\* What the next steps have at hand
LEMMA ExactFacts ==
  ASSUME ExactInd
  PROVE  /\ MatchInd /\ TypeInd /\ ConfType /\ out \in Sender /\ in \in Receiver
         /\ StatesFit(out) /\ Exact(out, in, accepted) /\ accepted \in Nat
         /\ RowsKnown(in) /\ Limited(in.held) /\ in.packets \in Seq(AnswerPacket)
         /\ \A id \in Ids : id \in Nat /\ (id > accepted => out.state[id] = "none")
         /\ link # "closed" =>
              LET n == Len(out.inflight)
              IN  Lists(out, n) /\ Mids(out, n) /\ Tokens(out, Pipe(in.packets, out), n)
BY MqttAssumption DEF ExactInd, MatchInd, TypeInd, Fresh, Receiver, Window, Ids

\* The invariant after a step that keeps cleanStart FALSE, from its parts
LEMMA ExactKept ==
  ASSUME MatchInd', conf' = conf, Exact(out', in', accepted'), cleanStart' = FALSE,
         link' # "open" => Len(in'.held) = 0 /\ Cardinality(Sent(out')) <= 1
  PROVE  ExactInd'
<1>1. Exact(out, in, accepted)'
  BY DEF Exact, Account, PassedOn, HeldFit, HeldInflight, HeldBegun, HeldAnswered,
         HeldOnce, AnswersTell, Holds, FirstDup, OfQos2
<1>2. Sent(out)' = Sent(out')
  BY DEF Sent
<1> QED
  BY <1>1, <1>2 DEF ExactInd

\* Every step keeps it: a message taken by the sender,
LEMMA ExactAccept ==
  ASSUME ExactFits, ExactInd, MatchInd', Accept
  PROVE  ExactInd'
<1>1. /\ MatchInd /\ TypeInd /\ ConfType /\ out \in Sender /\ in \in Receiver
      /\ StatesFit(out) /\ Exact(out, in, accepted) /\ accepted \in Nat
      /\ \A id \in Ids : id \in Nat /\ (id > accepted => out.state[id] = "none")
      /\ link # "closed" =>
           LET n == Len(out.inflight)
           IN  Lists(out, n) /\ Mids(out, n) /\ Tokens(out, Pipe(in.packets, out), n)
  BY ExactFacts
<1>2. /\ accepted + 1 \in Ids /\ accepted' = accepted + 1
      /\ conf' = conf /\ in' = in /\ link' = link /\ cleanStart' = cleanStart
  BY <1>1, MqttAssumption DEF Accept, Ids, TypeInd, MatchInd
<1>3. out.state[accepted + 1] = "none"
  BY <1>1, <1>2
<1>4. cleanStart' = FALSE
  BY <1>2 DEF ExactInd
<1>5. CASE SendMessage
  <2>1. /\ link \in {"open", "receiverCloses"} /\ out' = Enqueue(out, accepted + 1)
        /\ link = "open" \/ MayEnd(out', in)
    BY <1>5 DEF SendMessage
  <2>2. out' \in Sender /\ Mids(out', Len(out'.inflight))
    BY <1>2, <2>1 DEF MatchInd, TypeInd, Window
  <2>3. Exact(out', in, accepted + 1)
    BY <1>1, <1>2, <1>3, <2>1, <2>2, ExactEnqueue
  <2>4. link # "open" => Len(in.held) = 0 /\ Cardinality(Sent(out')) <= 1
    <3>1. StatesFit(out') /\ HeldBegun(out', in)
      BY <1>2, <2>3, NextFits DEF Exact, HeldFit
    <3> QED
      BY <1>1, <2>1, <3>1, EndIs
  <2>5. Exact(out', in', accepted')
    BY <1>2, <2>3
  <2> QED
    BY <1>2, <1>4, <2>4, <2>5, ExactKept
<1>6. CASE StoreMessage
  <2> DEFINE id == accepted + 1
  <2>1. link = "closed" /\ out' = [out EXCEPT !.state[id] = "invalid"]
    BY <1>6 DEF StoreMessage
  <2>2. /\ out'.packets = out.packets /\ out'.state[id] = "invalid"
        /\ \A a \in Ids : a # id => out'.state[a] = out.state[a]
    <3>1. /\ out'.packets = out.packets
          /\ out'.state = [out.state EXCEPT ![id] = "invalid"]
          /\ out.state \in [Ids -> States]
      BY <1>1, <2>1 DEF Sender
    <3> QED
      BY <1>2, <3>1
  <2>3. out.packets = <<>> /\ in.packets = <<>>
    BY <2>1 DEF MatchInd, ExactInd
  <2>4. Len(in.held) = 0 /\ Len(in.packets) = 0 /\ Len(out'.packets) = 0
        /\ Cardinality(Sent(out)) <= 1
    BY <2>1, <2>2, <2>3, EmptySeq DEF ExactInd
  <2>5. ASSUME NEW a \in Ids
        PROVE  PassedOn(out', in, id, a)
    <3>1. PassedOn(out, in, accepted, a)
      BY <1>1 DEF Exact, Account
    <3>2. CASE a = id
      <4>1. ~(a <= accepted) /\ out.state[a] = "none"
        BY <1>1, <1>3, <3>2
      <4> QED
        BY <2>2, <3>1, <3>2, <4>1 DEF PassedOn
    <3>3. CASE a # id
      <4>1. a <= id <=> a <= accepted
        BY <1>1, <3>3
      <4>2. out'.state[a] = out.state[a]
        BY <2>2, <3>3
      <4> QED
        BY <3>1, <4>1, <4>2 DEF PassedOn
    <3> QED
      BY <3>2, <3>3
  <2>6. Exact(out', in, id)
    BY <2>4, <2>5 DEF Exact, Account, HeldFit, HeldInflight, HeldBegun, HeldAnswered,
                      HeldOnce, AnswersTell, FirstDup
  <2>7. Sent(out') = Sent(out)
    BY <1>2, <1>3, <2>2 DEF Sent
  <2> QED
    BY <1>2, <1>4, <2>4, <2>6, <2>7, ExactKept
<1>7. CASE RouteToClosing
  BY <1>7 DEF RouteToClosing, ExactFits
<1> QED
  BY <1>5, <1>6, <1>7 DEF Accept

\* an answer that the sender reads,
LEMMA ExactSender ==
  ASSUME ExactFits, ExactInd, MatchInd', SenderReads
  PROVE  ExactInd'
<1>1. /\ ConfType /\ out \in Sender /\ in \in Receiver
      /\ StatesFit(out) /\ Exact(out, in, accepted) /\ accepted \in Nat
      /\ \A id \in Ids : id \in Nat /\ (id > accepted => out.state[id] = "none")
      /\ link # "closed" =>
           LET n == Len(out.inflight)
           IN  Lists(out, n) /\ Mids(out, n) /\ Tokens(out, Pipe(in.packets, out), n)
  BY ExactFacts
<1> DEFINE a == Head(in.packets)
           u == [in EXCEPT !.packets = Tail(@)]
<1>2. /\ link \in {"open", "receiverCloses"} /\ in.packets # <<>>
      /\ out' = IF a.type = "PUBREC" THEN Received(out, a.mid) ELSE Settle(out, a.mid)
      /\ in' = u /\ conf' = conf /\ accepted' = accepted /\ link' = link
      /\ link = "open" \/ MayEnd(out', in')
  BY DEF SenderReads
<1>3. cleanStart' = FALSE
  BY DEF SenderReads, ExactInd
<1>4. /\ Lists(out, Len(out.inflight)) /\ Mids(out, Len(out.inflight))
      /\ Tokens(out, Pipe(in.packets, out), Len(out.inflight))
  BY <1>1, <1>2
<1>5. out' \in Sender /\ Mids(out', Len(out'.inflight))
  BY <1>2 DEF MatchInd, TypeInd, Window
<1>6. Exact(out', u, accepted)
  <2>1. CASE a.type = "PUBREC"
    <3>1. out' = Received(out, a.mid)
      BY <1>2, <2>1
    <3> QED
      BY <1>1, <1>2, <1>4, <1>5, <2>1, <3>1, ExactReceived
  <2>2. CASE a.type # "PUBREC"
    <3>1. out' = Settle(out, a.mid)
      BY <1>2, <2>2
    <3>2. \A id \in Ids : ~(id <= accepted) => out.state[id] = "none"
      BY <1>1
    <3> QED
      BY <1>1, <1>2, <1>4, <1>5, <2>2, <3>1, <3>2, ExactSettled
  <2> QED
    BY <2>1, <2>2
<1>7. Exact(out', in', accepted')
  BY <1>2, <1>6
<1>8. link' # "open" => Len(in'.held) = 0 /\ Cardinality(Sent(out')) <= 1
  <2>1. in' \in Receiver /\ StatesFit(out') /\ HeldBegun(out', in')
    BY <1>2, <1>7, NextFits DEF Exact, HeldFit
  <2> QED
    BY <1>1, <1>2, <2>1, EndIs
<1> QED
  BY <1>2, <1>3, <1>7, <1>8, ExactKept

\* a packet that the receiver reads,
LEMMA ExactReceiver ==
  ASSUME ExactFits, ExactInd, MatchInd', ReceiverReads
  PROVE  ExactInd'
<1>1. /\ ConfType /\ out \in Sender /\ in \in Receiver
      /\ StatesFit(out) /\ Exact(out, in, accepted)
      /\ RowsKnown(in) /\ in.packets \in Seq(AnswerPacket)
      /\ link # "closed" =>
           LET n == Len(out.inflight)
           IN  Lists(out, n) /\ Mids(out, n) /\ Tokens(out, Pipe(in.packets, out), n)
  BY ExactFacts
<1> DEFINE p == Head(out.packets)
           t == [out EXCEPT !.packets = Tail(@)]
           c == accepted
<1>2. /\ link \in {"open", "senderCloses"} /\ out.packets # <<>>
      /\ p.type = "PUBLISH" => HandlePublish(p)
      /\ p.type # "PUBLISH" => HandlePubrel(p)
      /\ out' = t /\ conf' = conf /\ accepted' = c
      /\ link' = "open" \/ MayEnd(out', in')
  BY DEF ReceiverReads
<1>3. cleanStart' = FALSE
  BY DEF ReceiverReads, ExactInd
<1>4. t.packets = Tail(out.packets) /\ t.inflight = out.inflight /\ t.state = out.state
  BY <1>1 DEF Sender
<1>5. /\ Lists(out, Len(out.inflight)) /\ Mids(out, Len(out.inflight))
      /\ Tokens(out, Pipe(in.packets, out), Len(out.inflight))
  BY <1>1, <1>2
<1>6. p \in OutPacket
  BY <1>1, <1>2, HeadTailProperties DEF Sender
<1>7. /\ p.type \in {"PUBLISH", "PUBREL"}
      /\ p.type = "PUBLISH" => conf.qos[p.id] \in {1, 2}
  BY <1>1, <1>6, PublishPacket, MqttAssumption DEF ConfType
<1> HIDE DEF p, t, c
<1>8. ASSUME p.type = "PUBLISH", conf.qos[p.id] = 1
      PROVE  Exact(t, in', c)
  <2>1. in' = Answer(Deliver(in, p.id), "PUBACK", p.mid)
    BY <1>2, <1>8 DEF HandlePublish
  <2>2. Exact(t, Answer(Deliver(in, p.id), "PUBACK", p.mid), c)
    BY <1>1, <1>2, <1>4, <1>5, <1>8, ExactQos1 DEF p, c
  <2> QED
    BY <2>1, <2>2
<1>9. ASSUME p.type = "PUBLISH", conf.qos[p.id] = 2
      PROVE  Exact(t, in', c)
  <2> DEFINE h == [in EXCEPT !.rows = @ + 1,
                             !.held = Append(@, [id |-> p.id, mid |-> p.mid,
                                                 row |-> in.rows + 1])]
  <2>1. OfQos2(p)
    BY <1>9 DEF OfQos2
  <2>2. WithoutDup(in, p) = in
    BY <1>1, <1>2, <1>5, <2>1, NothingReplaced DEF Exact, p
  <2>3. \/ Room(in.held) /\ in' = Answer(h, "PUBREC", p.mid)
        \/ /\ ~Room(in.held) /\ in' = in
           /\ link' = IF link = "open" THEN "receiverCloses" ELSE link
    BY <1>2, <1>9, <2>2 DEF HandlePublish
  <2>4. CASE Room(in.held) /\ in' = Answer(h, "PUBREC", p.mid)
    <3>1. Exact(t, Answer(h, "PUBREC", p.mid), c)
      BY <1>1, <1>2, <1>4, <1>5, <2>1, <2>4, ExactQos2 DEF p, c
    <3> QED
      BY <2>4, <3>1
  \* A connection that it closes would end with all that it can hold.
  <2>5. CASE /\ ~Room(in.held) /\ in' = in
             /\ link' = IF link = "open" THEN "receiverCloses" ELSE link
    <3>1. MayEnd(out', in)
      BY <1>2, <2>5
    <3>2. StatesFit(out') /\ HeldBegun(out', in)
      BY <1>1, <1>2, <1>4, NextFits DEF Exact, HeldFit, HeldBegun
    <3>3. Len(in.held) = 0
      BY <1>1, <3>1, <3>2, EndIs
    <3> QED
      BY <2>5, <3>3, MqttAssumption DEF Room, ExactFits, WindowFits
  <2> QED
    BY <2>3, <2>4, <2>5
<1>10. ASSUME p.type = "PUBREL"
       PROVE  Exact(t, in', c)
  <2> DEFINE found == WithMid(in.held, p.mid)
             x == First(found)
             d == Deliver([in EXCEPT !.held = RemoveAt(@, x)], in.held[x].id)
  <2>1. in' = Answer(IF found = {} THEN in ELSE d, "PUBCOMP", p.mid)
    BY <1>2, <1>10 DEF HandlePubrel
  <2>2. CASE found = {}
    <3>1. Exact(t, Answer(in, "PUBCOMP", p.mid), c)
      BY <1>1, <1>2, <1>4, <1>5, <1>10, <2>2, ExactReleasedBefore DEF p, c
    <3> QED
      BY <2>1, <2>2, <3>1
  <2>3. CASE found # {}
    <3>1. Exact(t, Answer(d, "PUBCOMP", p.mid), c)
      BY <1>1, <1>2, <1>4, <1>5, <1>10, <2>3, ExactReleased DEF p, c
    <3> QED
      BY <2>1, <2>3, <3>1
  <2> QED
    BY <2>2, <2>3
<1>11. Exact(out', in', accepted')
  BY <1>2, <1>7, <1>8, <1>9, <1>10
<1>12. link' # "open" => Len(in'.held) = 0 /\ Cardinality(Sent(out')) <= 1
  <2>1. in' \in Receiver /\ StatesFit(out') /\ HeldBegun(out', in')
    BY <1>2, <1>11, NextFits DEF Exact, HeldFit
  <2> QED
    BY <1>1, <1>2, <2>1, EndIs
<1> QED
  BY <1>2, <1>3, <1>11, <1>12, ExactKept

\* a new connection,
LEMMA ExactConnect ==
  ASSUME ExactFits, ExactInd, MatchInd', Connect
  PROVE  ExactInd'
<1> DEFINE s == [out EXCEPT !.lastMid = IF conf.server THEN savedMid ELSE 0]
           t == Release(Load(s), TRUE)
<1>1. /\ ConfType /\ out \in Sender /\ StatesFit(out) /\ in \in Receiver
      /\ (IF conf.server THEN savedMid ELSE 0) \in 0..MaxMid
      /\ Exact(out, in, accepted)
  BY MqttAssumption DEF ExactInd, MatchInd, TypeInd
<1>2. /\ link = "closed" /\ link' = "open" /\ out' = t
      /\ conf' = conf /\ accepted' = accepted /\ in' = in /\ cleanStart' = cleanStart
  BY DEF Connect
<1>3. out.packets = <<>> /\ in.packets = <<>> /\ (conf.server => Rows(out))
  BY <1>2 DEF ExactInd, MatchInd
<1>4. /\ Len(in.held) = 0 /\ Cardinality(Sent(out)) <= 1 /\ cleanStart' = FALSE
      /\ Len(in.packets) = 0
  BY <1>2, <1>3, EmptySeq DEF ExactInd
<1>5. s \in Sender /\ s.packets = <<>> /\ s.state = out.state
  BY <1>1, <1>3 DEF Sender
<1> HIDE DEF s
<1>6. StatesFit(s) /\ (conf.server => Rows(s)) /\ Cardinality(Sent(s)) <= 1
  BY <1>1, <1>3, <1>4, <1>5 DEF StatesFit, Rows, Begun, Sent
<1>7. Account(s, in, accepted)
  BY <1>1, <1>5 DEF Exact, Account, PassedOn
<1>8. Exact(t, in, accepted)
  BY <1>1, <1>4, <1>5, <1>6, <1>7, ExactConnects DEF ExactFits, WindowFits
<1> HIDE DEF t
<1>9. Exact(out', in', accepted')
  BY <1>2, <1>8
<1> QED
  BY <1>2, <1>4, <1>9, ExactKept

\* and the end of one.
LEMMA ExactEnds ==
  ASSUME ExactFits, ExactInd, MatchInd', Close \/ Disconnect \/ BrokerCrashes
  PROVE  ExactInd'
<1>1. /\ out \in Sender /\ in \in Receiver /\ Exact(out, in, accepted)
  BY DEF ExactInd, MatchInd, TypeInd
<1>2. Len(in.held) = 0 /\ Cardinality(Sent(out)) <= 1
  <2>1. link # "open" \/ MayEnd(out, in)
    BY DEF Close, Disconnect, BrokerCrashes
  <2>2. ConfType /\ StatesFit(out) /\ HeldBegun(out, in)
    BY DEF ExactInd, MatchInd, TypeInd, Exact, HeldFit
  <2> QED
    BY <1>1, <2>1, <2>2, EndIs DEF ExactInd
<1>3. cleanStart = FALSE
  BY DEF ExactInd
<1>4. CASE Close
  <2>1. /\ conf' = conf /\ accepted' = accepted /\ out' = out /\ in' = in
        /\ cleanStart' = cleanStart
    BY <1>4 DEF Close
  <2> QED
    BY <1>1, <1>2, <1>3, <2>1, ExactKept
<1>5. CASE Disconnect \/ BrokerCrashes
  <2> DEFINE o == Forgotten(out)
             i == [in EXCEPT !.packets = <<>>]
  <2>1. /\ conf' = conf /\ accepted' = accepted /\ cleanStart' = FALSE
        /\ out' = o /\ in' = i
    BY <1>3, <1>5 DEF Disconnect, BrokerCrashes
  <2>2. o.state = out.state /\ o.packets = <<>>
    BY <1>1, ForgottenTypes
  <2>3. i.held = in.held /\ i.delivered = in.delivered /\ i.packets = <<>>
    BY <1>1 DEF Receiver
  <2> HIDE DEF o, i
  <2>4. Len(o.packets) = 0 /\ Len(i.packets) = 0 /\ Len(i.held) = 0
    BY <1>2, <2>2, <2>3, EmptySeq
  <2>5. Account(o, i, accepted)
    BY <1>1, <2>2, <2>3 DEF Exact, Account, PassedOn
  <2>6. Exact(o, i, accepted)
    BY <2>4, <2>5 DEF Exact, HeldFit, HeldInflight, HeldBegun, HeldAnswered, HeldOnce,
                      AnswersTell, FirstDup
  <2>7. Sent(o) = Sent(out)
    BY <2>2 DEF Sent
  <2>8. /\ Exact(out', in', accepted') /\ Len(in'.held) = 0
        /\ Cardinality(Sent(out')) <= 1
    BY <1>2, <2>1, <2>4, <2>6, <2>7
  <2> QED
    BY <2>1, <2>8, ExactKept
<1> QED
  BY <1>4, <1>5

\* No step breaks it,
LEMMA ExactStep == ExactFits /\ ExactInd /\ [Next]_vars => ExactInd'
<1> SUFFICES ASSUME ExactFits, ExactInd, [Next]_vars PROVE ExactInd'
  OBVIOUS
<1>1. MatchInd'
  BY MatchStep DEF ExactFits, ExactInd
<1>2. CASE Accept
  BY <1>1, <1>2, ExactAccept
<1>3. CASE ReceiverReads
  BY <1>1, <1>3, ExactReceiver
<1>4. CASE SenderReads
  BY <1>1, <1>4, ExactSender
<1>5. CASE Connect
  BY <1>1, <1>5, ExactConnect
<1>6. CASE Close \/ Disconnect \/ BrokerCrashes
  BY <1>1, <1>6, ExactEnds
<1>7. CASE UNCHANGED vars
  BY <1>1, <1>7, ExactKept DEF ExactInd, vars
<1> QED
  BY <1>2, <1>3, <1>4, <1>5, <1>6, <1>7 DEF Next

-----------------------------------------------------------------------------
(* A message is owed until it was passed on, then settled.                   *)

\* The sender takes a message,
LEMMA PromiseAccept ==
  ASSUME ExactFits, ExactInd, Accept
  PROVE  Promise!Accept
<1>1. /\ ConfType /\ out \in Sender /\ accepted \in Nat
      /\ \A id \in Ids : id \in Nat /\ (id > accepted => out.state[id] = "none")
  BY ExactFacts
<1> DEFINE id == accepted + 1
<1>2. /\ accepted < MaxMsgs /\ id \in Ids /\ accepted' = id /\ in' = in
      /\ out.state[id] = "none"
  BY <1>1, MqttAssumption DEF Accept, Ids
<1> HIDE DEF id
<1>3. /\ out'.state[id] # "none"
      /\ \A a \in Ids : a # id => (out'.state[a] = "none" <=> out.state[a] = "none")
  <2>1. CASE SendMessage
    <3>1. out' = Enqueue(out, id)
      BY <2>1 DEF SendMessage, id
    <3>2. /\ out'.state[id] \in {"invalid", FirstWait(conf.qos[id])}
          /\ \A a \in Ids : a # id => Moves(a, out.state[a], out'.state[a])
      BY <1>1, <1>2, <3>1, EnqueueKeeps
    <3> QED
      BY <3>2 DEF Moves, FirstWait
  <2>2. CASE StoreMessage
    <3>1. /\ out'.state = [out.state EXCEPT ![id] = "invalid"]
          /\ out.state \in [Ids -> States]
      BY <1>1, <2>2 DEF StoreMessage, Sender, id
    <3> QED
      BY <1>2, <3>1
  <2>3. CASE RouteToClosing
    BY <2>3 DEF RouteToClosing, ExactFits
  <2> QED
    BY <2>1, <2>2, <2>3 DEF Accept
<1>4. Outstanding' = Outstanding \cup {id}
  BY <1>2, <1>3 DEF Outstanding
<1>5. Delivered' = Delivered
  BY <1>2 DEF Delivered
<1> QED
  BY <1>2, <1>4, <1>5 DEF Promise!Accept, id

\* the receiver passes on one that the sender has,
LEMMA PromiseProcess ==
  ASSUME ExactFits, ExactInd, ReceiverReads
  PROVE  Promise!Process \/ UNCHANGED <<accepted, Outstanding, Delivered>>
<1> DEFINE p == Head(out.packets)
<1>1. /\ ConfType /\ out \in Sender /\ in \in Receiver /\ in.packets \in Seq(AnswerPacket)
      /\ StatesFit(out) /\ Exact(out, in, accepted) /\ accepted \in Nat
      /\ \A id \in Ids : id \in Nat /\ (id > accepted => out.state[id] = "none")
      /\ link # "closed" =>
           LET n == Len(out.inflight)
           IN  Lists(out, n) /\ Mids(out, n) /\ Tokens(out, Pipe(in.packets, out), n)
  BY ExactFacts
<1>2. /\ link # "closed" /\ out.packets # <<>> /\ accepted' = accepted
      /\ p.type = "PUBLISH" => HandlePublish(p)
      /\ p.type # "PUBLISH" => HandlePubrel(p)
      /\ out' = [out EXCEPT !.packets = Tail(@)]
  BY DEF ReceiverReads
<1>3. Outstanding' = Outstanding
  <2>1. out'.state = out.state
    BY <1>1, <1>2 DEF Sender
  <2> QED
    BY <2>1 DEF Outstanding
<1>4. p \in OutPacket
      /\ \E y \in 1..Len(out.inflight) :
           p.mid = out.inflight[y].mid /\ Fits(out, p, out.inflight[y].id)
  BY <1>1, <1>2, HeadOfPipe
<1> HIDE DEF p
<1>5. /\ p.type \in {"PUBLISH", "PUBREL"}
      /\ p.type = "PUBLISH" => p.id \in Ids
  BY <1>4, PublishPacket
\* What is passed on is one message that the sender has.
<1>6. ASSUME NEW id \in Ids, NEW r \in Receiver, r.delivered = in.delivered,
             out.state[id] # "none", NEW type, NEW mid,
             in' = Answer(Deliver(r, id), type, mid)
      PROVE  Promise!Process
  <2>1. id \in 1..accepted
    BY <1>1, <1>6, MqttAssumption DEF Ids
  <2>2. /\ Deliver(r, id).delivered[id] = r.delivered[id] + 1 /\ r.delivered[id] \in Nat
        /\ \A a \in Ids : a # id => Deliver(r, id).delivered[a] = r.delivered[a]
    BY DeliverDoes
  <2>3. in'.delivered = Deliver(r, id).delivered
    <3>1. Deliver(r, id) \in Receiver
      BY DeliverTypes
    <3> DEFINE d == Deliver(r, id)
    <3>2. d \in Receiver
      BY <3>1
    <3>3. in' = Answer(d, type, mid)
      BY <1>6
    <3> HIDE DEF d
    <3>4. in'.delivered = d.delivered
      BY <3>2, <3>3 DEF Answer, Receiver
    <3> QED
      BY <3>4 DEF d
  <2>4. Delivered' = Delivered \cup {id}
    BY <1>6, <2>2, <2>3 DEF Delivered
  <2> QED
    BY <1>2, <1>3, <2>1, <2>4 DEF Promise!Process
<1>7. ASSUME in'.delivered = in.delivered
      PROVE  UNCHANGED <<accepted, Outstanding, Delivered>>
  BY <1>2, <1>3, <1>7 DEF Delivered
<1>8. CASE p.type = "PUBLISH" /\ conf.qos[p.id] = 1
  <2>1. in' = Answer(Deliver(in, p.id), "PUBACK", p.mid)
    BY <1>2, <1>8 DEF HandlePublish
  <2>2. out.state[p.id] # "none"
    BY <1>4, <1>8 DEF Fits, FirstWait
  <2> QED
    BY <1>1, <1>5, <1>6, <1>8, <2>1, <2>2
<1>9. CASE p.type = "PUBLISH" /\ conf.qos[p.id] # 1
  <2> DEFINE s == WithoutDup(in, p)
             h == [s EXCEPT !.rows = @ + 1,
                            !.held = Append(@, [id |-> p.id, mid |-> p.mid,
                                                row |-> s.rows + 1])]
  <2>1. in' = Answer(h, "PUBREC", p.mid) \/ in' = s
    BY <1>2, <1>9 DEF HandlePublish
  <2>2. s.delivered = in.delivered /\ s \in Receiver
    <3>1. s.delivered = in.delivered
      BY <1>1 DEF WithoutDup, Receiver
    <3>2. RowsKnown(in) /\ Limited(in.held)
      BY ExactFacts
    <3> QED
      BY <1>1, <3>1, <3>2, WithoutDupTypes
  <2> HIDE DEF s
  <2>3. in'.delivered = s.delivered
    BY <2>1, <2>2 DEF Answer, Receiver
  <2> QED
    BY <1>7, <2>2, <2>3
<1>10. CASE p.type = "PUBREL"
  <2> DEFINE found == WithMid(in.held, p.mid)
             x == First(found)
             r == [in EXCEPT !.held = RemoveAt(@, x)]
             id == in.held[x].id
  <2>1. in' = Answer(IF found = {} THEN in ELSE Deliver(r, id), "PUBCOMP", p.mid)
    BY <1>2, <1>10 DEF HandlePubrel
  <2>2. CASE found = {}
    <3>1. in' = Answer(in, "PUBCOMP", p.mid)
      BY <2>1, <2>2
    <3>2. in'.delivered = in.delivered
      BY <1>1, <3>1 DEF Answer, Receiver
    <3> QED
      BY <1>7, <3>2
  <2>3. CASE found # {}
    <3>1. in.held \in Seq(Held) /\ found \in SUBSET DOMAIN in.held
      BY <1>1 DEF Receiver, WithMid
    <3>2. x \in 1..Len(in.held)
      BY <2>3, <3>1, FirstDoes
    <3>3. in.held[x] \in Held
      BY <3>1, <3>2
    <3>4. id \in Ids
      BY <3>3 DEF Held
    <3>5. RemoveAt(in.held, x) \in Seq(Held)
      BY <3>1, <3>2, RemoveAtDoes
    <3>6. r \in Receiver /\ r.delivered = in.delivered
      BY <1>1, <3>5 DEF Receiver
    <3>7. out.state[id] # "none"
      BY <1>1, <3>2 DEF Exact, HeldFit, HeldBegun
    <3>8. in' = Answer(Deliver(r, id), "PUBCOMP", p.mid)
      BY <2>1, <2>3
    <3> HIDE DEF r, id
    <3> QED
      BY <1>6, <3>4, <3>6, <3>7, <3>8
  <2> QED
    BY <2>2, <2>3
<1> QED
  BY <1>5, <1>8, <1>9, <1>10

\* A message that is settled was passed on, whatever its QoS.
SettledPassed == \A id \in Ids : Settled(id) => in.delivered[id] > 0

\* It follows from the account of each message.
LEMMA ExactPasses == ExactInd => SettledPassed
<1> SUFFICES ASSUME ExactInd, NEW id \in Ids, Settled(id)
             PROVE  in.delivered[id] > 0
  BY DEF SettledPassed
<1>1. PassedOn(out, in, accepted, id)
  BY DEF ExactInd, Exact, Account
<1>2. conf.qos[id] \in {1, 2}
  BY MqttAssumption, ExactFacts DEF ConfType
<1> QED
  BY <1>1, <1>2 DEF PassedOn, Settled

\* and the sender settles one that was passed on.
LEMMA PromiseSettle ==
  ASSUME ExactFits, ExactInd, SettledPassed', SenderReads
  PROVE  Promise!Settle \/ UNCHANGED <<accepted, Outstanding, Delivered>>
<1> DEFINE a == Head(in.packets)
           P == Pipe(in.packets, out)
<1>1. /\ ConfType /\ out \in Sender /\ in \in Receiver
      /\ in.packets \in Seq(AnswerPacket)
      /\ StatesFit(out) /\ accepted \in Nat
      /\ \A id \in Ids : id \in Nat /\ (id > accepted => out.state[id] = "none")
      /\ link # "closed" =>
           LET n == Len(out.inflight)
           IN  Lists(out, n) /\ Mids(out, n) /\ Tokens(out, Pipe(in.packets, out), n)
  BY ExactFacts
<1>2. /\ link # "closed" /\ in.packets # <<>> /\ accepted' = accepted /\ conf' = conf
      /\ out' = IF a.type = "PUBREC" THEN Received(out, a.mid) ELSE Settle(out, a.mid)
      /\ in' = [in EXCEPT !.packets = Tail(@)]
  BY DEF SenderReads
<1>3. Lists(out, Len(out.inflight)) /\ Mids(out, Len(out.inflight))
      /\ Tokens(out, P, Len(out.inflight))
  BY <1>1, <1>2
<1>4. in'.delivered = in.delivered
  BY <1>1, <1>2 DEF Receiver
<1>5. Delivered' = Delivered
  BY <1>4 DEF Delivered
<1>6. a \in AnswerPacket /\ Len(P) \in Nat \ {0} /\ P[1] = a
  BY <1>1, <1>2, PipeHead
<1>7. PICK x \in 1..Len(out.inflight) : /\ a.mid = out.inflight[x].mid
                                        /\ Fits(out, a, out.inflight[x].id)
  BY <1>3, <1>6 DEF Tokens
<1> DEFINE id == out.inflight[x].id
<1>8. id \in Ids /\ out.state[id] # "none"
  <2>1. id \in Ids
    BY <1>1, InflightType
  <2>2. out.state[id] # "none"
    BY <1>3 DEF Lists, Begun
  <2> QED
    BY <2>1, <2>2
<1>9. CASE a.type = "PUBREC"
  <2>1. WithMid(out.inflight, a.mid) = {x} /\ First(WithMid(out.inflight, a.mid)) = x
    BY <1>1, <1>3, <1>7, FoundByMid
  <2>2. out' = Received(out, a.mid) /\ a.mid \in 1..MaxMid
    BY <1>2, <1>6, <1>9 DEF AnswerPacket
  <2>3. out'.state = [out.state EXCEPT ![id] = "wait_for_pubcomp"]
    <3> DEFINE mid == a.mid
    <3>1. LET f == Received(out, mid)
              found == WithMid(out.inflight, mid)
              y == out.inflight[First(found)].id
          IN  f.state = IF found = {} THEN out.state
                        ELSE [out.state EXCEPT ![y] = "wait_for_pubcomp"]
      BY <1>1, <2>2, ReceivedDoes
    <3> QED
      BY <2>1, <2>2, <3>1
  <2> HIDE DEF id
  <2>4. \A y \in Ids : out'.state[y] = "none" <=> out.state[y] = "none"
    <3>1. out.state \in [Ids -> States]
      BY <1>1 DEF Sender
    <3> QED
      BY <1>8, <2>3, <3>1
  <2>5. Outstanding' = Outstanding
    BY <2>4 DEF Outstanding
  <2> QED
    BY <1>2, <1>5, <2>5
<1>10. CASE a.type # "PUBREC"
  <2>1. out' = Settle(out, out.inflight[x].mid)
    BY <1>2, <1>7, <1>10
  <2>2. /\ out'.state[id] = "none"
        /\ \A y \in Ids : y # id => Moves(y, out.state[y], out'.state[y])
    BY <1>1, <1>3, <2>1, SettleKeeps
  <2> HIDE DEF id
  <2>3. \A y \in Ids : y # id => (out'.state[y] = "none" <=> out.state[y] = "none")
    BY <2>2 DEF Moves, FirstWait
  <2>4. Outstanding' = Outstanding \ {id}
    BY <1>8, <2>2, <2>3 DEF Outstanding
  <2>5. id \in Outstanding
    BY <1>8 DEF Outstanding
  <2>6. in.delivered[id] > 0
    <3>1. \A y \in Ids : y <= accepted' /\ out'.state[y] = "none"
                           => in'.delivered[y] > 0
      BY DEF SettledPassed, Settled
    <3>2. id <= accepted
      BY <1>1, <1>8
    <3> QED
      BY <1>2, <1>4, <1>8, <2>2, <3>1, <3>2
  <2>7. id \in Delivered
    BY <1>8, <2>6 DEF Delivered
  <2> QED
    BY <1>2, <1>5, <2>4, <2>5, <2>7 DEF Promise!Settle
<1> QED
  BY <1>9, <1>10

\* Every step is one of the promise's, or none of its business: a connection that
\* begins or ends settles nothing.
LEMMA PromiseStep ==
  ASSUME ExactFits, ExactInd, SettledPassed', [Next]_vars
  PROVE  Promise!Next \/ UNCHANGED <<accepted, Outstanding, Delivered>>
<1>1. /\ ConfType /\ out \in Sender /\ in \in Receiver /\ StatesFit(out)
      /\ cleanStart = FALSE
  BY ExactFacts DEF ExactInd
<1>2. ASSUME accepted' = accepted, in'.delivered = in.delivered,
             \A id \in Ids : out'.state[id] = "none" <=> out.state[id] = "none"
      PROVE  UNCHANGED <<accepted, Outstanding, Delivered>>
  BY <1>2 DEF Outstanding, Delivered
<1>3. CASE Accept
  BY <1>3, PromiseAccept DEF Promise!Next
<1>4. CASE ReceiverReads
  BY <1>4, PromiseProcess DEF Promise!Next
<1>5. CASE SenderReads
  BY <1>5, PromiseSettle DEF Promise!Next
<1>6. CASE Connect
  <2> DEFINE s == [out EXCEPT !.lastMid = IF conf.server THEN savedMid ELSE 0]
  <2>1. /\ link = "closed" /\ out' = Release(Load(s), TRUE)
        /\ accepted' = accepted /\ in' = in
    BY <1>6 DEF Connect
  <2>2. /\ out.packets = <<>> /\ (conf.server => Rows(out))
        /\ (IF conf.server THEN savedMid ELSE 0) \in 0..MaxMid
    BY <2>1, MqttAssumption DEF ExactInd, MatchInd, TypeInd
  <2>3. s \in Sender /\ s.packets = out.packets /\ s.state = out.state
    BY <1>1, <2>2 DEF Sender
  <2> HIDE DEF s
  <2>4. StatesFit(s) /\ (conf.server => Rows(s))
    <3>1. StatesFit(s)
      BY <1>1, <2>3 DEF StatesFit
    <3>2. Begun(s) = Begun(out)
      BY <2>3 DEF Begun
    <3>3. Rows(out) => Rows(s)
      BY <2>3, <3>2 DEF Rows
    <3> QED
      BY <2>2, <3>1, <3>3
  <2>5. MaxInflight > 0 /\ MaxMid >= 2 * MaxInflight - 1
    BY DEF ExactFits, WindowFits
  <2>6. \A id \in Ids : out'.state[id] = "none" <=> s.state[id] = "none"
    BY <1>1, <2>1, <2>2, <2>3, <2>4, <2>5, ConnectWindow
  <2> QED
    BY <1>2, <2>1, <2>3, <2>6
<1>7. CASE Close \/ UNCHANGED vars
  BY <1>2, <1>7 DEF Close, vars
<1>8. CASE Disconnect \/ BrokerCrashes
  <2>1. accepted' = accepted /\ out' = Forgotten(out) /\ in' = [in EXCEPT !.packets = <<>>]
    BY <1>1, <1>8 DEF Disconnect, BrokerCrashes
  <2>2. out'.state = out.state
    BY <1>1, <2>1, ForgottenTypes
  <2>3. in'.delivered = in.delivered
    BY <1>1, <2>1 DEF Receiver
  <2> QED
    BY <1>2, <2>1, <2>2, <2>3
<1> QED
  BY <1>3, <1>4, <1>5, <1>6, <1>7, <1>8 DEF Next

\* A session of QoS 1, whose connections may break and whose broker may die at any
\* point, implements the safe part of what AtLeastOnce promises: each message is
\* accepted once and in turn, is owed from then on, is settled only after the
\* receiver passed it on, and is never owed again.  So does one with messages of
\* QoS 2 as long as its connections end between their exchanges; of the others
\* TLC shows that it is not so (MqttExactlyOnce.cfg) (message__queue, tr2q_load,
\* message__release_to_inflight, handle__pubackcomp).
THEOREM MqttKeepsPromise ==
  ASSUME MaxInflight > 0, MaxMid >= 2 * MaxInflight - 1,
         BreaksInExchange = FALSE \/ 2 \notin QosLevels,
         RoutesWhileClosing = FALSE, CleanStarts = {FALSE}
  PROVE  Spec => Promise!SafeSpec
<1>1. ExactFits
  BY DEF ExactFits, WindowFits
<1>2. Init => ExactInd
  BY <1>1, ExactStarts
<1>3. ExactInd /\ [Next]_vars => ExactInd'
  BY <1>1, ExactStep
<1>4. Init => Promise!Init
  BY DEF Init, Promise!Init, Outstanding, Delivered
<1>5. ExactInd /\ SettledPassed' /\ [Next]_vars => [Promise!Next]_(Promise!vars)
  BY <1>1, PromiseStep DEF Promise!vars
<1> QED
  BY <1>2, <1>3, <1>4, <1>5, ExactPasses, PTL DEF Spec, Promise!SafeSpec

-----------------------------------------------------------------------------
(* The broker's messages reach the receiver in turn.                         *)

\* Of what is held, the message that PUBREC or PUBREL names with the id `mid' came
\* before the one that is named with the other.
Ranks(r, mid, later) ==
  \A k, l \in 1..Len(r.held) :
    r.held[k].mid = mid /\ r.held[l].mid = later => r.held[k].id <= r.held[l].id

\* Messages are sent in their order,
PublishesUp(s) ==
  \A p, q \in 1..Len(s.packets) :
    p < q /\ s.packets[p].type = "PUBLISH" /\ s.packets[q].type = "PUBLISH"
      => s.packets[p].id < s.packets[q].id

\* what is held came before what is on its way,
HeldBefore(s, r) ==
  \A k \in 1..Len(r.held), p \in 1..Len(s.packets) :
    OfQos2(s.packets[p]) => r.held[k].id < s.packets[p].id

\* PUBREL and PUBREC go round in the order of the messages that are held.
ReleasesUp(s, r) ==
  \A p, q \in 1..Len(s.packets) :
    p < q /\ s.packets[p].type = "PUBREL" /\ s.packets[q].type = "PUBREL"
      => Ranks(r, s.packets[p].mid, s.packets[q].mid)

AnswersUp(r) ==
  \A p, q \in 1..Len(r.packets) :
    p < q /\ r.packets[p].type = "PUBREC" /\ r.packets[q].type = "PUBREC"
      => Ranks(r, r.packets[p].mid, r.packets[q].mid)

ReleasesFirst(s, r) ==
  \A p \in 1..Len(s.packets), q \in 1..Len(r.packets) :
    s.packets[p].type = "PUBREL" /\ r.packets[q].type = "PUBREC"
      => Ranks(r, s.packets[p].mid, r.packets[q].mid)

InSequence(s, r) ==
  /\ PublishesUp(s) /\ HeldBefore(s, r)
  /\ ReleasesUp(s, r) /\ AnswersUp(r) /\ ReleasesFirst(s, r)

\* What a handler of the sender adds to the packets: messages not sent before, in
\* their order
Grows(s, r) ==
  LET c == Len(s.packets)
  IN  /\ c <= Len(r.packets)
      /\ \A p \in 1..c : r.packets[p] = s.packets[p]
      /\ \A p \in (c + 1)..Len(r.packets) :
           /\ r.packets[p].type = "PUBLISH" /\ r.packets[p].id \in Ids
           /\ \A b \in Begun(s) : b < r.packets[p].id
      /\ \A p, q \in (c + 1)..Len(r.packets) : p < q => r.packets[p].id < r.packets[q].id

\* It does, if what was never sent is at the end of the list, in order.
LEMMA ReleaseInOrder ==
  ASSUME ConfType, NEW f \in Sender, NEW m \in 0..Len(f.inflight),
         \A i \in 1..m : f.state[f.inflight[i].id] # "invalid",
         \A i, j \in (m + 1)..Len(f.inflight) :
           i < j => f.inflight[i].id < f.inflight[j].id
  PROVE  LET r == Release(f, FALSE)
             c == Len(f.packets)
         IN  /\ c <= Len(r.packets)
             /\ \A p \in 1..c : r.packets[p] = f.packets[p]
             /\ \A p \in (c + 1)..Len(r.packets) :
                  /\ r.packets[p].type = "PUBLISH"
                  /\ \E i \in (m + 1)..Len(f.inflight) : r.packets[p].id = f.inflight[i].id
             /\ \A p, q \in (c + 1)..Len(r.packets) :
                  p < q => r.packets[p].id < r.packets[q].id
<1> DEFINE r == Release(f, FALSE)
           n == Len(f.inflight)
           c == Len(f.packets)
           d == Len(r.packets)
<1>1. r \in Sender /\ \E at : Adds(f, r, at)
  BY ReleaseAdds
<1>2. PICK at : Adds(f, r, at)
  BY <1>1
<1>3. n \in Nat /\ c \in Nat /\ d \in Nat
  BY <1>1, InflightType
<1> HIDE DEF r
<1>4. /\ d - c \in Nat /\ at \in [1..(d - c) -> 1..n]
      /\ \A k, l \in 1..(d - c) : k < l => at[k] < at[l]
      /\ \A p \in 1..c : r.packets[p] = f.packets[p]
      /\ \A k \in 1..(d - c) :
           /\ f.state[f.inflight[at[k]].id] = "invalid"
           /\ r.packets[c + k].type = "PUBLISH"
           /\ r.packets[c + k].id = f.inflight[at[k]].id
  BY <1>2 DEF Adds
<1> HIDE DEF n, c, d
<1>5. ASSUME NEW k \in 1..(d - c)
      PROVE  at[k] \in (m + 1)..n
  <2>1. at[k] \in 1..n /\ f.state[f.inflight[at[k]].id] = "invalid"
    BY <1>4
  <2>2. at[k] \notin 1..m
    BY <2>1
  <2>3. m \in Nat
    BY <1>3 DEF n
  <2> QED
    BY <1>3, <2>1, <2>2, <2>3
<1>6. ASSUME NEW p \in (c + 1)..d
      PROVE  /\ p - c \in 1..(d - c)
             /\ r.packets[p].type = "PUBLISH"
             /\ r.packets[p].id = f.inflight[at[p - c]].id
  <2>1. p - c \in 1..(d - c) /\ c + (p - c) = p
    BY <1>3
  <2> QED
    BY <1>4, <2>1
<1>7. ASSUME NEW p \in (c + 1)..d, NEW q \in (c + 1)..d, p < q
      PROVE  r.packets[p].id < r.packets[q].id
  <2>1. p - c < q - c
    BY <1>3, <1>7
  <2>2. at[p - c] < at[q - c]
    BY <1>4, <1>6, <2>1
  <2> QED
    BY <1>5, <1>6, <2>2 DEF n
<1>8. ASSUME NEW p \in (c + 1)..d
      PROVE  r.packets[p].type = "PUBLISH"
             /\ \E i \in (m + 1)..n : r.packets[p].id = f.inflight[i].id
  BY <1>5, <1>6
<1>9. c <= d
  BY <1>3, <1>4
<1> QED
  BY <1>4, <1>7, <1>8, <1>9 DEF r, n, c, d

\* A message that is taken comes after all others (message__queue).
LEMMA EnqueueGrows ==
  ASSUME ConfType, NEW s \in Sender, NEW id \in Ids,
         \A b \in Ids : b >= id => s.state[b] = "none",
         Lists(s, Len(s.inflight))
  PROVE  Grows(s, Enqueue(s, id))
<1> DEFINE u == [s EXCEPT !.state[id] = "invalid"]
           f == NewMsg(u, id)
           r == Release(f, FALSE)
           n == Len(s.inflight)
           c == Len(s.packets)
<1>1. /\ u \in Sender /\ u.inflight = s.inflight /\ u.packets = s.packets
      /\ u.state[id] = "invalid" /\ \A b \in Ids : b # id => u.state[b] = s.state[b]
  BY DEF Sender, States
<1>2. n \in Nat /\ \A i \in 1..n : s.inflight[i].id \in Begun(s)
  BY InflightType DEF Lists
<1> HIDE DEF u
<1>3. /\ f \in Sender /\ f.state = u.state /\ f.packets = s.packets
      /\ \A i \in 1..n : f.inflight[i] = s.inflight[i]
      /\ Len(f.inflight) = n \/ (Len(f.inflight) = n + 1 /\ f.inflight[n + 1].id = id)
  <2>1. /\ f \in Sender /\ f.state = u.state /\ f.packets = u.packets
        /\ Room(u.inflight) =>
             /\ Len(f.inflight) = Len(u.inflight) + 1
             /\ \A i \in 1..Len(u.inflight) : f.inflight[i] = u.inflight[i]
             /\ f.inflight[Len(u.inflight) + 1] = [id |-> id, mid |-> 0]
        /\ ~Room(u.inflight) => f.inflight = u.inflight
    BY <1>1, NewMsgDoes
  <2> QED
    BY <1>1, <2>1
<1> HIDE DEF f
<1>4. \A b \in Begun(s) : b \in Ids /\ b < id /\ u.state[b] = s.state[b]
  BY <1>1, MqttAssumption DEF Begun, Ids
<1>5. \A i \in 1..n : f.state[f.inflight[i].id] # "invalid"
  BY <1>2, <1>3, <1>4 DEF Begun
<1>6. n \in 0..Len(f.inflight) /\ \A i \in (n + 1)..Len(f.inflight) : i = n + 1
  BY <1>2, <1>3
<1>7. \A i, j \in (n + 1)..Len(f.inflight) : i < j => f.inflight[i].id < f.inflight[j].id
  BY <1>2, <1>6
<1>8. /\ c <= Len(r.packets)
      /\ \A p \in 1..c : r.packets[p] = s.packets[p]
      /\ \A p \in (c + 1)..Len(r.packets) :
           /\ r.packets[p].type = "PUBLISH"
           /\ \E i \in (n + 1)..Len(f.inflight) : r.packets[p].id = f.inflight[i].id
      /\ \A p, q \in (c + 1)..Len(r.packets) :
           p < q => r.packets[p].id < r.packets[q].id
  <2>1. LET v == Release(f, FALSE)
            g == Len(f.packets)
        IN  /\ g <= Len(v.packets)
            /\ \A p \in 1..g : v.packets[p] = f.packets[p]
            /\ \A p \in (g + 1)..Len(v.packets) :
                 /\ v.packets[p].type = "PUBLISH"
                 /\ \E i \in (n + 1)..Len(f.inflight) : v.packets[p].id = f.inflight[i].id
            /\ \A p, q \in (g + 1)..Len(v.packets) :
                 p < q => v.packets[p].id < v.packets[q].id
    <3> HIDE DEF n
    <3> QED
      BY <1>3, <1>5, <1>6, <1>7, ReleaseInOrder
  <2> HIDE DEF n
  <2> QED
    BY <1>3, <2>1
<1> HIDE DEF r
<1>9. \A i \in (n + 1)..Len(f.inflight) : f.inflight[i].id = id
  BY <1>2, <1>3, <1>6
<1>10. Grows(s, r)
  <2>1. ASSUME NEW p \in (c + 1)..Len(r.packets)
        PROVE  r.packets[p].type = "PUBLISH" /\ r.packets[p].id = id
    BY ONLY <1>8, <1>9, <2>1
  <2>2. id \in Ids /\ \A b \in Begun(s) : b < id
    BY <1>4
  <2>3. ASSUME NEW p \in (c + 1)..Len(r.packets)
        PROVE  /\ r.packets[p].type = "PUBLISH" /\ r.packets[p].id \in Ids
               /\ \A b \in Begun(s) : b < r.packets[p].id
    BY ONLY <2>1, <2>2, <2>3
  <2> QED
    BY ONLY <1>8, <2>3 DEF Grows
<1> QED
  BY <1>10 DEF r, f, u, Enqueue

\* What takes the place of a message that is settled was next in the line
\* (db__message_delete_outgoing).
LEMMA SettleGrows ==
  ASSUME ConfType, conf.server, NEW s \in Sender, NEW x \in 1..Len(s.inflight),
         Lists(s, Len(s.inflight)), Mids(s, Len(s.inflight)), InLine(s)
  PROVE  Grows(s, Settle(s, s.inflight[x].mid))
<1> DEFINE mid == s.inflight[x].mid
           t == Without(s, mid)
           f == Fill(t)
           r == Release(f, FALSE)
           n == Len(s.inflight)
           q == Len(s.queued)
           c == Len(s.packets)
<1>1. WithMid(s.inflight, mid) = {x} /\ First(WithMid(s.inflight, mid)) = x
  BY FoundByMid
<1>2. /\ n \in Nat \ {0} /\ q \in Nat /\ c \in Nat
      /\ \A i \in 1..n : s.inflight[i].id \in Begun(s)
      /\ \A i, j \in 1..n : s.inflight[i].id = s.inflight[j].id => i = j
      /\ \A k \in 1..q : s.queued[k] \in Ids
  BY InflightType DEF Lists
<1>3. /\ t \in Sender /\ t.packets = s.packets /\ t.queued = s.queued
      /\ Len(t.inflight) = n - 1
      /\ \A i \in 1..(n - 1) :
           t.inflight[i] = IF i < x THEN s.inflight[i] ELSE s.inflight[i + 1]
      /\ t.state = [s.state EXCEPT ![s.inflight[x].id] = "none"]
  <2> HIDE DEF mid
  <2> DEFINE y == First(WithMid(s.inflight, mid))
  <2>1. WithMid(s.inflight, mid) # {} /\ y = x
    BY <1>1
  <2>2. /\ y \in 1..n /\ s.inflight[y].mid = mid
        /\ t \in Sender
        /\ t.queued = s.queued /\ t.lastMid = s.lastMid /\ t.packets = s.packets
        /\ Len(t.inflight) = n - 1
        /\ \A i \in 1..(n - 1) :
             t.inflight[i] = IF i < y THEN s.inflight[i] ELSE s.inflight[i + 1]
        /\ t.state = [s.state EXCEPT ![s.inflight[y].id] = "none"]
    BY <2>1, WithoutDoes
  <2> HIDE DEF y, t, n
  <2> QED
    BY <2>1, <2>2
<1>4. Settle(s, mid) = r
  BY <1>1, SettleIs DEF Refill
<1> HIDE DEF mid, t
<1>5. /\ f \in Sender /\ f.state = t.state /\ f.packets = t.packets
      /\ \E m \in 0..Len(t.queued) :
           /\ Len(f.inflight) = Len(t.inflight) + m
           /\ \A i \in 1..Len(t.inflight) : f.inflight[i] = t.inflight[i]
           /\ \A i \in 1..m : f.inflight[Len(t.inflight) + i] =
                                [id |-> t.queued[i], mid |-> 0]
  BY <1>3, FillDoes
<1> HIDE DEF f, n, q
<1>6. PICK m \in 0..q :
        /\ Len(f.inflight) = n - 1 + m
        /\ \A i \in 1..(n - 1) : f.inflight[i] = t.inflight[i]
        /\ \A i \in 1..m : f.inflight[n - 1 + i].id = s.queued[i]
  <2>1. PICK m \in 0..Len(t.queued) :
          /\ Len(f.inflight) = Len(t.inflight) + m
          /\ \A i \in 1..Len(t.inflight) : f.inflight[i] = t.inflight[i]
          /\ \A i \in 1..m : f.inflight[Len(t.inflight) + i] =
                               [id |-> t.queued[i], mid |-> 0]
    BY <1>5
  <2>2. m \in 0..q /\ Len(t.inflight) = n - 1
    BY <1>3, <2>1 DEF q
  <2>3. t.queued = s.queued
    BY <1>3
  <2>4. ASSUME NEW i \in 1..m
        PROVE  f.inflight[n - 1 + i].id = s.queued[i]
    <3>1. f.inflight[Len(t.inflight) + i] = [id |-> t.queued[i], mid |-> 0]
      BY <2>1
    <3>2. f.inflight[Len(t.inflight) + i].id = t.queued[i]
      BY <3>1
    <3> QED
      BY ONLY <2>2, <2>3, <3>2
  <2> QED
    BY <2>1, <2>2, <2>4
<1>7. m \in Nat /\ m <= q /\ x \in 1..n
  BY <1>2, <1>6 DEF n
<1>8. ASSUME NEW i \in 1..(n - 1)
      PROVE  f.state[f.inflight[i].id] # "invalid"
  <2> DEFINE j == IF i < x THEN i ELSE i + 1
  <2>1. j \in 1..n
    BY <1>2, <1>7
  <2>2. f.inflight[i] = s.inflight[j]
    BY <1>3, <1>6
  <2>3. s.inflight[j].id \in Ids /\ s.state[s.inflight[j].id] # "invalid"
    BY <1>2, <2>1 DEF Begun
  <2>4. s.state \in [Ids -> States]
    BY DEF Sender
  <2> HIDE DEF j
  <2> QED
    BY <1>3, <1>5, <2>2, <2>3, <2>4
<1>9. ASSUME NEW i \in n..(n - 1 + m)
      PROVE  /\ i - (n - 1) \in 1..m /\ i - (n - 1) \in 1..q
             /\ f.inflight[i].id = s.queued[i - (n - 1)]
  <2>1. i - (n - 1) \in 1..m /\ n - 1 + (i - (n - 1)) = i
    BY <1>2, <1>7
  <2>2. i - (n - 1) \in 1..q
    BY <1>2, <1>7, <2>1
  <2> QED
    BY <1>6, <2>1, <2>2
<1>10. /\ \A k, l \in 1..q : k < l => s.queued[k] < s.queued[l]
       /\ \A i \in 1..n, k \in 1..q : s.inflight[i].id < s.queued[k]
       /\ \A k \in 1..q : s.state[s.queued[k]] = "invalid"
       /\ \A id \in Ids : s.state[id] # "none" =>
            (\E i \in 1..n : s.inflight[i].id = id) \/ (\E k \in 1..q : s.queued[k] = id)
  BY DEF InLine, n, q
<1>11. ASSUME NEW i \in n..(n - 1 + m), NEW j \in n..(n - 1 + m), i < j
       PROVE  f.inflight[i].id < f.inflight[j].id
  <2>1. i - (n - 1) < j - (n - 1)
    BY <1>2, <1>7, <1>11
  <2> QED
    BY <1>9, <1>10, <2>1
<1>12. ASSUME NEW b \in Begun(s), NEW k \in 1..q
       PROVE  b < s.queued[k]
  <2>1. b \in Ids /\ s.state[b] \notin {"none", "invalid"}
    BY DEF Begun
  <2>2. PICK i \in 1..n : s.inflight[i].id = b
    BY <1>10, <2>1
  <2> QED
    BY <1>10, <2>2
<1>13. n - 1 \in 0..Len(f.inflight) /\ n - 1 + 1 = n
  BY <1>2, <1>6, <1>7
<1>14. LET g == Len(f.packets)
           v == Release(f, FALSE)
       IN  /\ g <= Len(v.packets)
           /\ \A p \in 1..g : v.packets[p] = f.packets[p]
           /\ \A p \in (g + 1)..Len(v.packets) :
                /\ v.packets[p].type = "PUBLISH"
                /\ \E i \in (n - 1 + 1)..Len(f.inflight) :
                     v.packets[p].id = f.inflight[i].id
           /\ \A p, w \in (g + 1)..Len(v.packets) :
                p < w => v.packets[p].id < v.packets[w].id
  <2> DEFINE h == n - 1
  <2>1. h \in 0..Len(f.inflight) /\ \A i \in 1..h : f.state[f.inflight[i].id] # "invalid"
    BY <1>8, <1>13
  <2>2. \A i, j \in (h + 1)..Len(f.inflight) :
          i < j => f.inflight[i].id < f.inflight[j].id
    BY <1>6, <1>11, <1>13
  <2> HIDE DEF h
  <2>3. LET g == Len(f.packets)
            v == Release(f, FALSE)
        IN  /\ g <= Len(v.packets)
            /\ \A p \in 1..g : v.packets[p] = f.packets[p]
            /\ \A p \in (g + 1)..Len(v.packets) :
                 /\ v.packets[p].type = "PUBLISH"
                 /\ \E i \in (h + 1)..Len(f.inflight) : v.packets[p].id = f.inflight[i].id
            /\ \A p, w \in (g + 1)..Len(v.packets) :
                 p < w => v.packets[p].id < v.packets[w].id
    BY <1>5, <2>1, <2>2, ReleaseInOrder
  <2> QED
    BY <2>3 DEF h
<1> HIDE DEF c
<1>15. /\ c <= Len(r.packets)
       /\ \A p \in 1..c : r.packets[p] = s.packets[p]
       /\ \A p \in (c + 1)..Len(r.packets) :
            /\ r.packets[p].type = "PUBLISH"
            /\ \E i \in n..(n - 1 + m) : r.packets[p].id = f.inflight[i].id
       /\ \A p, w \in (c + 1)..Len(r.packets) :
            p < w => r.packets[p].id < r.packets[w].id
  <2>1. f.packets = s.packets /\ Len(f.packets) = c
    BY <1>3, <1>5 DEF c
  <2>2. Len(f.inflight) = n - 1 + m /\ n - 1 + 1 = n
    BY <1>6, <1>13
  <2> HIDE DEF r
  <2>3. /\ Len(f.packets) <= Len(r.packets)
        /\ \A p \in 1..Len(f.packets) : r.packets[p] = f.packets[p]
        /\ \A p \in (Len(f.packets) + 1)..Len(r.packets) :
             /\ r.packets[p].type = "PUBLISH"
             /\ \E i \in (n - 1 + 1)..Len(f.inflight) : r.packets[p].id = f.inflight[i].id
        /\ \A p, w \in (Len(f.packets) + 1)..Len(r.packets) :
             p < w => r.packets[p].id < r.packets[w].id
    BY <1>14 DEF r
  <2> QED
    BY ONLY <2>1, <2>2, <2>3
<1> HIDE DEF r
<1>16. ASSUME NEW p \in (c + 1)..Len(r.packets)
       PROVE  r.packets[p].id \in Ids /\ \A b \in Begun(s) : b < r.packets[p].id
  <2>1. PICK i \in n..(n - 1 + m) : r.packets[p].id = f.inflight[i].id
    BY <1>15
  <2> QED
    BY <1>2, <1>9, <1>12, <2>1
<1>17. Grows(s, r)
  BY <1>15, <1>16 DEF Grows, c
<1> QED
  BY <1>4, <1>17 DEF mid

\* Every message on its way to the receiver is begun.
LEMMA BegunPackets ==
  ASSUME NEW s \in Sender, NEW a \in Seq(AnswerPacket), Lists(s, Len(s.inflight)),
         Tokens(s, Pipe(a, s), Len(s.inflight)),
         NEW p \in 1..Len(s.packets), s.packets[p].type = "PUBLISH"
  PROVE  s.packets[p].id \in Begun(s)
<1> DEFINE l == Len(a)
           m == Len(s.packets)
           P == Pipe(a, s)
<1>1. /\ l \in Nat /\ m \in Nat /\ Len(P) = l + m
      /\ \A k \in 1..m : P[l + k] = s.packets[k]
  BY PipeDoes
<1> HIDE DEF l, m, P
<1>2. l + p \in 1..Len(P) /\ P[l + p] = s.packets[p]
  BY <1>1 DEF m
<1>3. PICK i \in 1..Len(s.inflight) : Fits(s, P[l + p], s.inflight[i].id)
  BY <1>2 DEF Tokens, P
<1>4. s.packets[p].id = s.inflight[i].id
  BY <1>2, <1>3 DEF Fits
<1> QED
  BY <1>4 DEF Lists

\* The packets of two senders, the one ahead of the other by d packets
Follows(b, w, d) ==
  \A q \in 1..Len(b) : q + d \in 1..Len(w) /\ b[q] = w[q + d]

\* The messages that are held
LEMMA HeldRows ==
  ASSUME NEW r \in Receiver
  PROVE  /\ Len(r.held) \in Nat /\ DOMAIN r.held = 1..Len(r.held)
         /\ \A k \in 1..Len(r.held) : r.held[k].id \in Ids /\ r.held[k].mid \in 1..MaxMid
<1>1. r.held \in Seq(Held)
  BY DEF Receiver
<1>2. \A k \in 1..Len(r.held) : r.held[k] \in Held
  BY <1>1, ElementOfSeq
<1>3. \A k \in 1..Len(r.held) : r.held[k].id \in Ids /\ r.held[k].mid \in 1..MaxMid
  BY <1>2 DEF Held
<1> QED
  BY <1>1, <1>3, LenProperties

\* An answer is read, or none, and messages are sent.
LEMMA SequenceGrows ==
  ASSUME NEW s \in Sender, NEW t \in Sender, NEW r \in Receiver, Grows(s, t),
         HeldFit(s, r), InSequence(s, r),
         \A p \in 1..Len(s.packets) :
           s.packets[p].type = "PUBLISH" => s.packets[p].id \in Begun(s),
         NEW u \in Receiver, u.held = r.held, NEW d \in Nat,
         Follows(u.packets, r.packets, d)
  PROVE  InSequence(t, u)
<1> DEFINE c == Len(s.packets)
           e == Len(t.packets)
           b == s.packets
           w == t.packets
<1>1. /\ c \in Nat /\ e \in Nat /\ Len(u.packets) \in Nat
      /\ \A p \in 1..c : b[p] \in OutPacket
  BY InflightType, LenProperties DEF Receiver
<1>2. /\ c <= e
      /\ \A p \in 1..c : w[p] = b[p]
      /\ \A p \in (c + 1)..e : /\ w[p].type = "PUBLISH" /\ w[p].id \in Ids
                               /\ \A y \in Begun(s) : y < w[p].id
      /\ \A p, q \in (c + 1)..e : p < q => w[p].id < w[q].id
  BY DEF Grows
<1>3. \A k \in 1..Len(r.held) : r.held[k].id \in Begun(s)
  <2>1. \A k \in 1..Len(r.held) : r.held[k].id \in Ids
    BY HeldRows
  <2> QED
    BY <2>1 DEF HeldFit, HeldBegun, Begun
<1>4. /\ \A p \in 1..c : b[p].type = "PUBLISH" => b[p].id \in Begun(s)
      /\ \A p, q \in 1..c : p < q /\ b[p].type = "PUBLISH" /\ b[q].type = "PUBLISH"
                              => b[p].id < b[q].id
      /\ \A p, q \in 1..c : p < q /\ b[p].type = "PUBREL" /\ b[q].type = "PUBREL"
                              => Ranks(r, b[p].mid, b[q].mid)
      /\ \A k \in 1..Len(r.held), p \in 1..c : OfQos2(b[p]) => r.held[k].id < b[p].id
  BY DEF InSequence, PublishesUp, ReleasesUp, HeldBefore
<1> HIDE DEF b, w, c, e
<1>5. \A p \in 1..e : p \in 1..c \/ p \in (c + 1)..e
  BY <1>1
<1>6. ASSUME NEW p \in 1..e, NEW q \in 1..e, p < q,
             w[p].type = "PUBLISH", w[q].type = "PUBLISH"
      PROVE  w[p].id < w[q].id
  <2>1. CASE q \in 1..c
    <3>1. p \in 1..c
      BY <1>1, <1>6, <2>1
    <3> QED
      BY <1>2, <1>4, <1>6, <2>1, <3>1
  <2>2. CASE q \in (c + 1)..e /\ p \in 1..c
    BY <1>2, <1>4, <1>6, <2>2
  <2>3. CASE q \in (c + 1)..e /\ p \in (c + 1)..e
    BY <1>2, <1>6, <2>3
  <2> QED
    BY <1>5, <2>1, <2>2, <2>3
<1>7. ASSUME NEW k \in 1..Len(r.held), NEW p \in 1..e, OfQos2(w[p])
      PROVE  r.held[k].id < w[p].id
  BY <1>2, <1>3, <1>4, <1>5, <1>7
<1>8. ASSUME NEW p \in 1..e, w[p].type = "PUBREL"
      PROVE  p \in 1..c /\ w[p] = b[p]
  BY <1>2, <1>5, <1>8
<1>9. ASSUME NEW p \in 1..e, NEW q \in 1..e, p < q,
             w[p].type = "PUBREL", w[q].type = "PUBREL"
      PROVE  Ranks(u, w[p].mid, w[q].mid)
  BY <1>4, <1>8, <1>9 DEF Ranks
<1>10. ASSUME NEW p \in 1..Len(u.packets), NEW q \in 1..Len(u.packets), p < q,
              u.packets[p].type = "PUBREC", u.packets[q].type = "PUBREC"
       PROVE  Ranks(u, u.packets[p].mid, u.packets[q].mid)
  <2>1. /\ p + d \in 1..Len(r.packets) /\ u.packets[p] = r.packets[p + d]
        /\ q + d \in 1..Len(r.packets) /\ u.packets[q] = r.packets[q + d]
    BY DEF Follows
  <2>2. p + d < q + d
    BY <1>10
  <2> QED
    BY <1>10, <2>1, <2>2 DEF Ranks, InSequence, AnswersUp
<1>11. ASSUME NEW p \in 1..e, NEW q \in 1..Len(u.packets),
              w[p].type = "PUBREL", u.packets[q].type = "PUBREC"
       PROVE  Ranks(u, w[p].mid, u.packets[q].mid)
  <2>1. q + d \in 1..Len(r.packets) /\ u.packets[q] = r.packets[q + d]
    BY DEF Follows
  <2>2. p \in 1..Len(s.packets) /\ w[p] = s.packets[p]
    BY <1>8, <1>11 DEF b, c
  <2> QED
    BY <1>11, <2>1, <2>2 DEF Ranks, InSequence, ReleasesFirst
<1> QED
  BY <1>6, <1>7, <1>9, <1>10, <1>11
     DEF InSequence, PublishesUp, HeldBefore, ReleasesUp, AnswersUp, ReleasesFirst, w, e

\* PUBREC is read, and PUBREL takes its place in the round.
LEMMA SequenceReceived ==
  ASSUME NEW s \in Sender, NEW t \in Sender, NEW r \in Receiver, InSequence(s, r),
         r.packets # <<>>, Head(r.packets).type = "PUBREC",
         t.packets = Append(s.packets, Packet("PUBREL", Head(r.packets).mid)),
         NEW u \in Receiver, u.held = r.held, u.packets = Tail(r.packets)
  PROVE  InSequence(t, u)
<1> DEFINE b == s.packets
           w == t.packets
           c == Len(b)
           e == Len(w)
           a == r.packets
           v == u.packets
           f == Packet("PUBREL", Head(r.packets).mid)
<1>1. /\ c \in Nat /\ e = c + 1 /\ \A p \in 1..c : w[p] = b[p]
      /\ w[c + 1] = f
  <2>1. b \in Seq(OutPacket) /\ w = Append(b, f)
    BY DEF Sender
  <2> HIDE DEF b, f, w
  <2> QED
    BY <2>1, AppendDoes
<1>2. /\ 1 \in 1..Len(a) /\ a[1] = Head(a) /\ Len(v) \in Nat
      /\ \A q \in 1..Len(v) : q + 1 \in 1..Len(a) /\ v[q] = a[q + 1]
  <2>1. a \in Seq(AnswerPacket)
    BY DEF Receiver
  <2>2. /\ Len(a) \in Nat \ {0} /\ Len(v) = Len(a) - 1
        /\ \A i \in 1..Len(v) : v[i] = a[i + 1]
    BY <2>1, HeadTailProperties, EmptySeq
  <2>3. a[1] = Head(a)
    BY <2>1
  <2> HIDE DEF a, v
  <2> QED
    BY <2>2, <2>3
<1>3. f.type = "PUBREL" /\ f.mid = a[1].mid /\ a[1].type = "PUBREC"
  BY <1>2 DEF Packet
<1>4. /\ \A p, q \in 1..c : p < q /\ b[p].type = "PUBLISH" /\ b[q].type = "PUBLISH"
                              => b[p].id < b[q].id
      /\ \A p, q \in 1..c : p < q /\ b[p].type = "PUBREL" /\ b[q].type = "PUBREL"
                              => Ranks(r, b[p].mid, b[q].mid)
      /\ \A k \in 1..Len(r.held), p \in 1..c : OfQos2(b[p]) => r.held[k].id < b[p].id
      /\ \A p, q \in 1..Len(a) : p < q /\ a[p].type = "PUBREC" /\ a[q].type = "PUBREC"
                                   => Ranks(r, a[p].mid, a[q].mid)
      /\ \A p \in 1..c, q \in 1..Len(a) : b[p].type = "PUBREL" /\ a[q].type = "PUBREC"
                                            => Ranks(r, b[p].mid, a[q].mid)
  BY DEF InSequence, PublishesUp, ReleasesUp, HeldBefore, AnswersUp, ReleasesFirst
<1>5. \A m, n : Ranks(u, m, n) <=> Ranks(r, m, n)
  BY DEF Ranks
<1> HIDE DEF b, w, c, e, a, v, f
<1>6. \A p \in 1..e : p \in 1..c \/ (p = c + 1 /\ w[p] = f)
  BY <1>1
<1>7. ASSUME NEW p \in 1..e, NEW q \in 1..e, p < q,
             w[p].type = "PUBLISH", w[q].type = "PUBLISH"
      PROVE  w[p].id < w[q].id
  BY <1>1, <1>3, <1>4, <1>6, <1>7
<1>8. ASSUME NEW k \in 1..Len(r.held), NEW p \in 1..e, OfQos2(w[p])
      PROVE  r.held[k].id < w[p].id
  <2>1. w[p].type = "PUBLISH"
    BY <1>8 DEF OfQos2
  <2> QED
    BY <1>1, <1>3, <1>4, <1>6, <1>8, <2>1
<1>9. ASSUME NEW p \in 1..e, NEW q \in 1..e, p < q,
             w[p].type = "PUBREL", w[q].type = "PUBREL"
      PROVE  Ranks(r, w[p].mid, w[q].mid)
  <2>1. p \in 1..c
    BY <1>1, <1>6, <1>9
  <2>2. CASE q \in 1..c
    BY <1>1, <1>4, <1>9, <2>1, <2>2
  <2>3. CASE w[q] = f
    BY <1>1, <1>2, <1>3, <1>4, <1>9, <2>1, <2>3
  <2> QED
    BY <1>6, <2>2, <2>3
<1>10. ASSUME NEW p \in 1..Len(v), NEW q \in 1..Len(v), p < q,
              v[p].type = "PUBREC", v[q].type = "PUBREC"
       PROVE  Ranks(r, v[p].mid, v[q].mid)
  <2>1. p + 1 < q + 1
    BY <1>10
  <2> QED
    BY <1>2, <1>4, <1>10, <2>1
<1>11. ASSUME NEW p \in 1..e, NEW q \in 1..Len(v),
              w[p].type = "PUBREL", v[q].type = "PUBREC"
       PROVE  Ranks(r, w[p].mid, v[q].mid)
  <2>1. CASE p \in 1..c
    BY <1>1, <1>2, <1>4, <1>11, <2>1
  <2>2. CASE w[p] = f
    <3>1. 1 < q + 1
      BY <1>2
    <3> QED
      BY <1>2, <1>3, <1>4, <1>11, <2>2, <3>1
  <2> QED
    BY <1>6, <2>1, <2>2
<1> QED
  BY <1>5, <1>7, <1>8, <1>9, <1>10, <1>11
     DEF InSequence, PublishesUp, HeldBefore, ReleasesUp, AnswersUp, ReleasesFirst, w, e, v

\* The receiver of u holds nothing that that of r does not.
HeldOf(r, u) ==
  \A k \in 1..Len(u.held) : \E l \in 1..Len(r.held) : u.held[k] = r.held[l]

\* A packet is read, and nothing new is held.
LEMMA SequenceRead ==
  ASSUME NEW s \in Sender, s.packets # <<>>, NEW t, t.packets = Tail(s.packets),
         NEW r \in Receiver, InSequence(s, r), NEW u, HeldOf(r, u),
         NEW e, e.type # "PUBREC", u.packets = Append(r.packets, e)
  PROVE  InSequence(t, u)
<1> DEFINE b == s.packets
           w == t.packets
           a == r.packets
           v == u.packets
<1>1. /\ Len(w) \in Nat
      /\ \A k \in 1..Len(w) : k + 1 \in 1..Len(b) /\ w[k] = b[k + 1]
  <2>1. b \in Seq(OutPacket) /\ b # <<>>
    BY DEF Sender
  <2>2. /\ Len(w) \in Nat /\ Len(b) \in Nat /\ Len(w) = Len(b) - 1
        /\ \A i \in 1..Len(w) : w[i] = b[i + 1]
    BY <2>1, HeadTailProperties, EmptySeq, LenProperties
  <2> HIDE DEF b, w
  <2> QED
    BY <2>2
<1>2. \A q \in 1..Len(v) : v[q].type = "PUBREC" => q \in 1..Len(a) /\ v[q] = a[q]
  <2>1. a \in Seq(AnswerPacket) /\ v = Append(a, e)
    BY DEF Receiver
  <2> HIDE DEF a, v
  <2>2. /\ \A q \in 1..Len(a) : v[q] = a[q]
        /\ \A q \in 1..Len(v) : q \in 1..Len(a) \/ v[q] = e
    BY <2>1, AppendDoes
  <2> QED
    BY <2>2
<1>3. ASSUME NEW m, NEW n, Ranks(r, m, n)
      PROVE  Ranks(u, m, n)
  <2> SUFFICES ASSUME NEW k \in 1..Len(u.held), NEW l \in 1..Len(u.held),
                      u.held[k].mid = m, u.held[l].mid = n
               PROVE  u.held[k].id <= u.held[l].id
    BY DEF Ranks
  <2>1. PICK y \in 1..Len(r.held) : u.held[k] = r.held[y]
    BY DEF HeldOf
  <2>2. PICK z \in 1..Len(r.held) : u.held[l] = r.held[z]
    BY DEF HeldOf
  <2> QED
    BY <1>3, <2>1, <2>2 DEF Ranks
<1>4. /\ \A p, q \in 1..Len(b) : p < q /\ b[p].type = "PUBLISH" /\ b[q].type = "PUBLISH"
                                   => b[p].id < b[q].id
      /\ \A p, q \in 1..Len(b) : p < q /\ b[p].type = "PUBREL" /\ b[q].type = "PUBREL"
                                   => Ranks(r, b[p].mid, b[q].mid)
      /\ \A k \in 1..Len(r.held), p \in 1..Len(b) :
           OfQos2(b[p]) => r.held[k].id < b[p].id
      /\ \A p, q \in 1..Len(a) : p < q /\ a[p].type = "PUBREC" /\ a[q].type = "PUBREC"
                                   => Ranks(r, a[p].mid, a[q].mid)
      /\ \A p \in 1..Len(b), q \in 1..Len(a) :
           b[p].type = "PUBREL" /\ a[q].type = "PUBREC" => Ranks(r, b[p].mid, a[q].mid)
  BY DEF InSequence, PublishesUp, ReleasesUp, HeldBefore, AnswersUp, ReleasesFirst
<1> HIDE DEF b, w, a, v
<1>5. ASSUME NEW p \in 1..Len(w), NEW q \in 1..Len(w), p < q
      PROVE  /\ p + 1 \in 1..Len(b) /\ q + 1 \in 1..Len(b) /\ p + 1 < q + 1
             /\ w[p] = b[p + 1] /\ w[q] = b[q + 1]
  BY <1>1, <1>5
<1>6. ASSUME NEW p \in 1..Len(w), NEW q \in 1..Len(w), p < q,
             w[p].type = "PUBLISH", w[q].type = "PUBLISH"
      PROVE  w[p].id < w[q].id
  BY <1>4, <1>5, <1>6
<1>7. ASSUME NEW k \in 1..Len(u.held), NEW p \in 1..Len(w), OfQos2(w[p])
      PROVE  u.held[k].id < w[p].id
  <2>1. PICK y \in 1..Len(r.held) : u.held[k] = r.held[y]
    BY DEF HeldOf
  <2> QED
    BY <1>1, <1>4, <1>7, <2>1
<1>8. ASSUME NEW p \in 1..Len(w), NEW q \in 1..Len(w), p < q,
             w[p].type = "PUBREL", w[q].type = "PUBREL"
      PROVE  Ranks(u, w[p].mid, w[q].mid)
  BY <1>3, <1>4, <1>5, <1>8
<1>9. ASSUME NEW p \in 1..Len(v), NEW q \in 1..Len(v), p < q,
             v[p].type = "PUBREC", v[q].type = "PUBREC"
      PROVE  Ranks(u, v[p].mid, v[q].mid)
  BY <1>2, <1>3, <1>4, <1>9
<1>10. ASSUME NEW p \in 1..Len(w), NEW q \in 1..Len(v),
              w[p].type = "PUBREL", v[q].type = "PUBREC"
       PROVE  Ranks(u, w[p].mid, v[q].mid)
  BY <1>1, <1>2, <1>3, <1>4, <1>10
<1> QED
  BY <1>6, <1>7, <1>8, <1>9, <1>10
     DEF InSequence, PublishesUp, HeldBefore, ReleasesUp, AnswersUp, ReleasesFirst, w, v

\* No other packet has the id of the one that is read.
LEMMA HeadAlone ==
  ASSUME NEW s \in Sender, NEW a \in Seq(AnswerPacket), s.packets # <<>>,
         Tokens(s, Pipe(a, s), Len(s.inflight)),
         NEW k \in 1..Len(s.packets), s.packets[k].mid = Head(s.packets).mid
  PROVE  k = 1
<1> DEFINE l == Len(a)
           m == Len(s.packets)
           P == Pipe(a, s)
<1>1. /\ l \in Nat /\ m \in Nat /\ Len(P) = l + m
      /\ \A i \in 1..m : P[l + i] = s.packets[i]
  BY PipeDoes
<1>2. 1 \in 1..m /\ s.packets[1] = Head(s.packets)
  BY HeadOfPipe
<1>3. \A p, q \in 1..Len(P) : P[p].mid = P[q].mid => p = q
  BY DEF Tokens
<1> HIDE DEF l, m, P
<1>4. l + k \in 1..Len(P) /\ l + 1 \in 1..Len(P)
  BY <1>1 DEF m
<1>5. P[l + k] = s.packets[k] /\ P[l + 1] = s.packets[1]
  BY <1>1, <1>2 DEF m
<1>6. l + k = l + 1
  BY <1>2, <1>3, <1>4, <1>5
<1> QED
  BY <1>1, <1>6

\* A message of QoS 2 is held, behind all that are (handle__publish_s).
LEMMA SequenceQos2 ==
  ASSUME NEW s \in Sender, s.packets # <<>>, NEW t, t.packets = Tail(s.packets),
         NEW r \in Receiver, InSequence(s, r),
         Tokens(s, Pipe(r.packets, s), Len(s.inflight)),
         NEW p, p = Head(s.packets), OfQos2(p), ~Holds(r, p.mid),
         NEW e, e.id = p.id, e.mid = p.mid,
         NEW u, u.held = Append(r.held, e),
         u.packets = Append(r.packets, Packet("PUBREC", p.mid))
  PROVE  InSequence(t, u)
<1> DEFINE b == s.packets
           w == t.packets
           a == r.packets
           v == u.packets
           h == r.held
           g == u.held
           f == Packet("PUBREC", p.mid)
<1>1. /\ Len(w) \in Nat
      /\ \A k \in 1..Len(w) : k + 1 \in 1..Len(b) /\ w[k] = b[k + 1]
      /\ 1 \in 1..Len(b) /\ b[1] = p
  <2>1. b \in Seq(OutPacket) /\ b # <<>> /\ p = Head(b)
    BY DEF Sender
  <2>2. /\ Len(w) \in Nat /\ Len(b) \in Nat \ {0} /\ Len(w) = Len(b) - 1
        /\ \A i \in 1..Len(w) : w[i] = b[i + 1]
    BY <2>1, HeadTailProperties, EmptySeq, LenProperties
  <2>3. b[1] = p
    BY <2>1
  <2> HIDE DEF b, w
  <2> QED
    BY <2>2, <2>3
<1>2. /\ Len(a) \in Nat
      /\ \A q \in 1..Len(v) :
           (q \in 1..Len(a) /\ v[q] = a[q]) \/ (q = Len(a) + 1 /\ v[q] = f)
  <2>1. a \in Seq(AnswerPacket) /\ v = Append(a, f)
    BY DEF Receiver
  <2> HIDE DEF a, v, f
  <2>2. /\ Len(v) = Len(a) + 1 /\ Len(a) \in Nat /\ v[Len(a) + 1] = f
        /\ \A q \in 1..Len(a) : v[q] = a[q]
    BY <2>1, AppendDoes
  <2> QED
    BY <2>2
<1>3. /\ \A k \in 1..Len(g) : (k \in 1..Len(h) /\ g[k] = h[k]) \/ g[k] = e
  <2>1. h \in Seq(Held) /\ g = Append(h, e)
    BY DEF Receiver
  <2> HIDE DEF h, g
  <2>2. /\ \A q \in 1..Len(h) : g[q] = h[q]
        /\ \A q \in 1..Len(g) : q \in 1..Len(h) \/ g[q] = e
    BY <2>1, AppendDoes
  <2> QED
    BY <2>2
<1>4. f.type = "PUBREC" /\ f.mid = p.mid
  BY DEF Packet
<1>5. /\ \A q \in 1..Len(a) : a[q].mid # p.mid
      /\ \A k \in 1..Len(w) : w[k].mid # p.mid
  <2>1. a \in Seq(AnswerPacket)
    BY DEF Receiver
  <2>2. \A q \in 1..Len(a) : a[q].mid # p.mid
    BY <2>1, HeadOfPipe
  <2>3. ASSUME NEW k \in 1..Len(w), w[k].mid = p.mid
        PROVE  FALSE
    <3>1. k + 1 \in 1..Len(s.packets) /\ s.packets[k + 1].mid = Head(s.packets).mid
      BY <1>1, <2>3
    <3>2. k + 1 = 1
      BY <2>1, <3>1, HeadAlone
    <3> QED
      BY <1>1, <3>2
  <2> QED
    BY <2>2, <2>3
<1>6. p.type = "PUBLISH" /\ p.id \in Nat /\ \A k \in 1..Len(h) : h[k].id \in Nat
  <2>1. p \in OutPacket
    BY <1>1, InflightType
  <2>2. p.id \in Ids
    BY <2>1, PublishPacket DEF OfQos2
  <2> QED
    BY <2>2, HeldRows DEF OfQos2, Ids
<1>7. /\ \A m, n \in 1..Len(b) : m < n /\ b[m].type = "PUBLISH" /\ b[n].type = "PUBLISH"
                                   => b[m].id < b[n].id
      /\ \A m, n \in 1..Len(b) : m < n /\ b[m].type = "PUBREL" /\ b[n].type = "PUBREL"
                                   => Ranks(r, b[m].mid, b[n].mid)
      /\ \A k \in 1..Len(h), m \in 1..Len(b) : OfQos2(b[m]) => h[k].id < b[m].id
      /\ \A m, n \in 1..Len(a) : m < n /\ a[m].type = "PUBREC" /\ a[n].type = "PUBREC"
                                   => Ranks(r, a[m].mid, a[n].mid)
      /\ \A m \in 1..Len(b), n \in 1..Len(a) :
           b[m].type = "PUBREL" /\ a[n].type = "PUBREC" => Ranks(r, b[m].mid, a[n].mid)
  BY DEF InSequence, PublishesUp, ReleasesUp, HeldBefore, AnswersUp, ReleasesFirst
<1>8. \A k \in 1..Len(h) : h[k].mid # p.mid
  BY DEF Holds
\* The others keep their order, and the new one comes last.
<1>9. ASSUME NEW m, NEW n, m # p.mid, n # p.mid, Ranks(r, m, n)
      PROVE  Ranks(u, m, n)
  <2> SUFFICES ASSUME NEW k \in 1..Len(g), NEW l \in 1..Len(g), g[k].mid = m, g[l].mid = n
               PROVE  g[k].id <= g[l].id
    BY DEF Ranks
  <2> HIDE DEF g, h
  <2> QED
    BY <1>3, <1>9 DEF Ranks, h
<1>10. ASSUME NEW m, m # p.mid
       PROVE  Ranks(u, m, p.mid)
  <2> SUFFICES ASSUME NEW k \in 1..Len(g), NEW l \in 1..Len(g),
                      g[k].mid = m, g[l].mid = p.mid
               PROVE  g[k].id <= g[l].id
    BY DEF Ranks
  <2> HIDE DEF g, h
  <2>1. k \in 1..Len(h) /\ g[k] = h[k]
    BY <1>3, <1>10
  <2>2. g[l] = e
    BY <1>3, <1>8
  <2>3. h[k].id < p.id
    BY <1>1, <1>7, <2>1
  <2> QED
    BY <1>6, <2>1, <2>2, <2>3
<1> HIDE DEF b, w, a, v, h, g, f
<1>11. ASSUME NEW m \in 1..Len(w), NEW n \in 1..Len(w), m < n
       PROVE  /\ m + 1 \in 1..Len(b) /\ n + 1 \in 1..Len(b) /\ m + 1 < n + 1
              /\ w[m] = b[m + 1] /\ w[n] = b[n + 1]
  BY <1>1, <1>11
<1>12. ASSUME NEW m \in 1..Len(w), NEW n \in 1..Len(w), m < n,
              w[m].type = "PUBLISH", w[n].type = "PUBLISH"
       PROVE  w[m].id < w[n].id
  BY <1>7, <1>11, <1>12
<1>13. ASSUME NEW k \in 1..Len(g), NEW m \in 1..Len(w), OfQos2(w[m])
       PROVE  g[k].id < w[m].id
  <2>1. m + 1 \in 1..Len(b) /\ w[m] = b[m + 1] /\ 1 < m + 1
    BY <1>1
  <2>2. CASE g[k] = e
    <3>1. b[m + 1].type = "PUBLISH"
      BY <1>13, <2>1 DEF OfQos2
    <3> QED
      BY <1>1, <1>6, <1>7, <2>1, <2>2, <3>1
  <2>3. CASE k \in 1..Len(h) /\ g[k] = h[k]
    BY <1>7, <1>13, <2>1, <2>3
  <2> QED
    BY <1>3, <2>2, <2>3
<1>14. ASSUME NEW m \in 1..Len(w), NEW n \in 1..Len(w), m < n,
              w[m].type = "PUBREL", w[n].type = "PUBREL"
       PROVE  Ranks(u, w[m].mid, w[n].mid)
  BY <1>5, <1>7, <1>9, <1>11, <1>14
<1>15. ASSUME NEW m \in 1..Len(v), NEW n \in 1..Len(v), m < n,
              v[m].type = "PUBREC", v[n].type = "PUBREC"
       PROVE  Ranks(u, v[m].mid, v[n].mid)
  <2>1. m \in 1..Len(a) /\ v[m] = a[m]
    <3>1. m # Len(a) + 1
      BY <1>2, <1>15
    <3> QED
      BY <1>2, <3>1
  <2>2. CASE n \in 1..Len(a) /\ v[n] = a[n]
    BY <1>5, <1>7, <1>9, <1>15, <2>1, <2>2
  <2>3. CASE v[n] = f
    BY <1>4, <1>5, <1>10, <2>1, <2>3
  <2> QED
    BY <1>2, <2>2, <2>3
<1>16. ASSUME NEW m \in 1..Len(w), NEW n \in 1..Len(v),
              w[m].type = "PUBREL", v[n].type = "PUBREC"
       PROVE  Ranks(u, w[m].mid, v[n].mid)
  <2>1. CASE n \in 1..Len(a) /\ v[n] = a[n]
    BY <1>1, <1>5, <1>7, <1>9, <1>16, <2>1
  <2>2. CASE v[n] = f
    BY <1>4, <1>5, <1>10, <2>2
  <2> QED
    BY <1>2, <2>1, <2>2
<1> QED
  BY <1>12, <1>13, <1>14, <1>15, <1>16
     DEF InSequence, PublishesUp, HeldBefore, ReleasesUp, AnswersUp, ReleasesFirst, w, v, g

\* The messages of one QoS were first passed on in their order.
FirstsUp(r) ==
  \A i, j \in Ids :
    i < j /\ conf.qos[i] = conf.qos[j] /\ r.delivered[j] > 0 => r.delivered[i] > 0

\* While the receiver reads, a message of QoS 1 that waits for its answer was passed
\* on or is on its way.
StillSent(s, r) ==
  \A id \in Ids :
    s.state[id] = "wait_for_puback" /\ r.delivered[id] = 0 =>
      \E p \in 1..Len(s.packets) : s.packets[p].type = "PUBLISH" /\ s.packets[p].id = id

\* What follows when one message more is passed on, and all that came before it were
LEMMA FirstsMore ==
  ASSUME NEW r \in Receiver, FirstsUp(r), NEW j \in Ids, NEW u,
         u.delivered[j] > 0, \A a \in Ids : a # j => u.delivered[a] = r.delivered[a],
         \A i \in Ids : i < j /\ conf.qos[i] = conf.qos[j] => r.delivered[i] > 0
  PROVE  FirstsUp(u)
<1> SUFFICES ASSUME NEW i \in Ids, NEW k \in Ids, i < k, conf.qos[i] = conf.qos[k],
                    u.delivered[k] > 0
             PROVE  u.delivered[i] > 0
  BY DEF FirstsUp
<1>1. CASE i = j
  BY <1>1
<1>2. CASE i # j /\ k = j
  BY <1>2
<1>3. CASE i # j /\ k # j
  BY <1>3 DEF FirstsUp
<1> QED
  BY <1>1, <1>2, <1>3

\* A message of QoS 1 is read, and none before it is left behind.
LEMMA Qos1Turn ==
  ASSUME ConfType, NEW s \in Sender, NEW r \in Receiver, s.packets # <<>>, StatesFit(s),
         PublishesUp(s), StillSent(s, r), Rows(s), NEW c \in Nat, Account(s, r, c),
         \A id \in Ids : id > c => s.state[id] = "none",
         NEW p, p = Head(s.packets), p.type = "PUBLISH", conf.qos[p.id] = 1,
         p.id \in Begun(s), NEW i \in Ids, i < p.id, conf.qos[i] = conf.qos[p.id]
  PROVE  r.delivered[i] > 0
<1>1. /\ Len(s.packets) \in Nat /\ s.packets[1] = p /\ 1 \in 1..Len(s.packets)
  <2>1. s.packets \in Seq(OutPacket) /\ s.packets # <<>>
    BY DEF Sender
  <2>2. Len(s.packets) \in Nat \ {0}
    BY <2>1, EmptySeq, LenProperties
  <2> QED
    BY <2>1, <2>2
<1>2. /\ p.id \in Ids /\ s.state[p.id] # "none" /\ i \in Nat /\ p.id \in Nat
      /\ s.state[i] \in States /\ r.delivered[i] \in Nat
  <2>1. s.state \in [Ids -> States] /\ r.delivered \in [Ids -> Nat]
    BY DEF Sender, Receiver
  <2>2. \A id \in Ids : id \in Nat
    BY MqttAssumption DEF Ids
  <2>3. p.id \in Ids /\ s.state[p.id] # "none"
    BY DEF Begun
  <2> QED
    BY <2>1, <2>2, <2>3
<1>3. i <= c
  BY <1>2
<1>4. s.state[i] # "invalid"
  BY DEF Rows
<1>5. s.state[i] \notin {"wait_for_pubrec", "wait_for_pubcomp"}
  BY DEF StatesFit
<1>6. CASE s.state[i] = "none"
  <2>1. PassedOn(s, r, c, i)
    BY DEF Account
  <2> QED
    BY <1>3, <1>6, <2>1 DEF PassedOn
<1>7. CASE s.state[i] = "wait_for_puback"
  <2> SUFFICES ASSUME r.delivered[i] = 0
               PROVE  FALSE
    BY <1>2
  <2>1. PICK q \in 1..Len(s.packets) : s.packets[q].type = "PUBLISH" /\ s.packets[q].id = i
    BY <1>7 DEF StillSent
  <2>2. q = 1 \/ 1 < q
    BY <1>1
  <2>3. 1 < q => p.id < i
    BY <1>1, <2>1 DEF PublishesUp
  <2> QED
    BY <1>1, <1>2, <2>1, <2>2, <2>3
<1> QED
  BY <1>2, <1>4, <1>5, <1>6, <1>7 DEF States

\* The client has a PUBREL to read, of what it was sent in sequence.
ReleaseTurn(s, r, c) ==
  /\ s \in Sender /\ r \in Receiver /\ s.packets # <<>>
  /\ StatesFit(s) /\ InSequence(s, r) /\ Rows(s) /\ InLine(s)
  /\ c \in Nat /\ Exact(s, r, c)
  /\ \A id \in Ids : id > c => s.state[id] = "none"
  /\ Lists(s, Len(s.inflight)) /\ Mids(s, Len(s.inflight))
  /\ Tokens(s, Pipe(r.packets, s), Len(s.inflight))
  /\ Covered(s, Pipe(r.packets, s), Len(s.inflight))

\* PUBREL is read, of the message that came before the others that are held.
LEMMA Qos2Turn ==
  ASSUME ConfType, NEW s, NEW r, NEW c, ReleaseTurn(s, r, c),
         NEW p, p = Head(s.packets), p.type = "PUBREL",
         NEW x \in 1..Len(r.held), r.held[x].mid = p.mid,
         NEW i \in Ids, i < r.held[x].id, conf.qos[i] = conf.qos[r.held[x].id]
  PROVE  r.delivered[i] > 0
<1> SUFFICES ASSUME s \in Sender, r \in Receiver, s.packets # <<>>, StatesFit(s),
                    InSequence(s, r), Rows(s), InLine(s), c \in Nat, Exact(s, r, c),
                    \A id \in Ids : id > c => s.state[id] = "none",
                    Lists(s, Len(s.inflight)), Mids(s, Len(s.inflight)),
                    Tokens(s, Pipe(r.packets, s), Len(s.inflight)),
                    Covered(s, Pipe(r.packets, s), Len(s.inflight))
             PROVE  r.delivered[i] > 0
  BY DEF ReleaseTurn
<1> DEFINE j == r.held[x].id
           n == Len(s.inflight)
           a == r.packets
           b == s.packets
           l == Len(a)
           m == Len(b)
           P == Pipe(a, s)
<1>1. /\ a \in Seq(AnswerPacket) /\ l \in Nat /\ m \in Nat /\ Len(P) = l + m
      /\ \A q \in 1..l : P[q] = a[q]
      /\ \A k \in 1..m : P[l + k] = b[k]
      /\ 1 \in 1..m /\ b[1] = p
  <2>1. a \in Seq(AnswerPacket)
    BY DEF Receiver
  <2> QED
    BY <2>1, PipeDoes, HeadOfPipe
<1>2. /\ j \in Ids /\ j \in Nat /\ i \in Nat /\ r.delivered[i] \in Nat
      /\ s.state[i] \in States
      /\ s.state[j] \in {"wait_for_pubrec", "wait_for_pubcomp"} /\ j \in Begun(s)
  <2>1. j \in Ids
    BY HeldRows
  <2>2. s.state[j] \in {"wait_for_pubrec", "wait_for_pubcomp"}
    BY DEF Exact, HeldFit, HeldBegun
  <2>3. s.state \in [Ids -> States] /\ r.delivered \in [Ids -> Nat]
    BY DEF Sender, Receiver
  <2>4. \A id \in Ids : id \in Nat
    BY MqttAssumption DEF Ids
  <2>5. j \in Begun(s)
    BY <2>1, <2>2 DEF Begun
  <2> QED
    BY <2>1, <2>2, <2>3, <2>4, <2>5
<1>3. conf.qos[j] = 2 /\ conf.qos[i] = 2
  BY <1>2 DEF StatesFit
<1>4. i <= c
  BY <1>2
<1>5. s.state[i] # "invalid"
  BY <1>2 DEF Rows
<1>6. PassedOn(s, r, c, i)
  BY DEF Exact, Account
<1>7. CASE s.state[i] = "none"
  BY <1>3, <1>4, <1>6, <1>7 DEF PassedOn
<1>8. s.state[i] # "wait_for_puback"
  BY <1>3 DEF StatesFit
<1>9. CASE s.state[i] \in {"wait_for_pubrec", "wait_for_pubcomp"}
  <2> SUFFICES ASSUME r.delivered[i] = 0
               PROVE  FALSE
    BY <1>2
  <2> HIDE DEF n, l, m, P
  <2>1. PICK y \in 1..n : s.inflight[y].id = i
    BY <1>9 DEF InLine, n
  <2>2. PICK t \in 1..Len(P) : P[t].mid = s.inflight[y].mid
    BY DEF Covered, P, n
  <2>3. Fits(s, P[t], i)
    <3>1. PICK z \in 1..n : P[t].mid = s.inflight[z].mid /\ Fits(s, P[t], s.inflight[z].id)
      BY DEF Tokens, P, n
    <3>2. z = y
      BY <2>2, <3>1 DEF Mids, n
    <3> QED
      BY <2>1, <3>1, <3>2
\* The message is held, or still to be,
  <2>4. \A k \in 1..Len(r.held) : r.held[k].id = i <=> r.held[k].mid = P[t].mid
    <3>1. /\ s \in Sender /\ r \in Receiver /\ HeldFit(s, r)
          /\ Lists(s, Len(s.inflight)) /\ Mids(s, Len(s.inflight))
          /\ y \in 1..Len(s.inflight) /\ P[t].mid = s.inflight[y].mid
          /\ s.inflight[y].id = i
      BY <2>1, <2>2 DEF Exact, n
    <3> QED
      BY ONLY <3>1, HeldIs
  <2>5. s.state[i] = "wait_for_pubcomp" => Holds(r, P[t].mid)
    BY <1>3, <1>6, <2>4 DEF PassedOn, Holds
\* and then this one would not have been the first of them.
  <2>6. ASSUME Ranks(r, p.mid, P[t].mid), Holds(r, P[t].mid)
        PROVE  FALSE
    <3>1. PICK k \in 1..Len(r.held) : r.held[k].mid = P[t].mid
      BY <2>6 DEF Holds
    <3>2. r.held[k].id = i
      BY <2>4, <3>1
    <3>3. j <= i
      BY <2>6, <3>1, <3>2 DEF Ranks
    <3> QED
      BY <1>2, <3>3
  <2>7. CASE t \in 1..l
    <3>1. P[t] = a[t] /\ a[t].type \in {"PUBACK", "PUBREC", "PUBCOMP"}
      <4>1. a[t] \in AnswerPacket
        BY <1>1, <2>7, ElementOfSeq DEF l
      <4> QED
        BY <1>1, <2>7, <4>1 DEF AnswerPacket
    <3>2. CASE a[t].type = "PUBREC"
      <4>1. Holds(r, P[t].mid)
        BY <2>7, <3>1, <3>2 DEF Exact, AnswersTell, l
      <4>2. Ranks(r, p.mid, P[t].mid)
        BY <1>1, <2>7, <3>1, <3>2 DEF InSequence, ReleasesFirst, l, m
      <4> QED
        BY <2>6, <4>1, <4>2
    <3>3. CASE a[t].type = "PUBCOMP"
      <4>1. ~Holds(r, P[t].mid)
        BY <2>7, <3>1, <3>3 DEF Exact, AnswersTell, l
      <4>2. s.state[i] = "wait_for_pubcomp"
        BY <2>3, <3>1, <3>3 DEF Fits
      <4> QED
        BY <2>5, <4>1, <4>2
    <3>4. a[t].type # "PUBACK"
      BY <1>9, <2>3, <3>1 DEF Fits
    <3> QED
      BY <3>1, <3>2, <3>3, <3>4
  <2>8. CASE t \notin 1..l
    <3> DEFINE k == t - l
    <3>1. k \in 1..m /\ P[t] = b[k]
      <4>1. k \in 1..m /\ l + k = t
        BY <1>1, <2>8
      <4> QED
        BY <1>1, <4>1
    <3> HIDE DEF k
    <3>2. b[k] \in OutPacket
      BY <3>1, InflightType DEF m
    <3>3. CASE b[k].type = "PUBREL"
      <4>1. s.state[i] = "wait_for_pubcomp"
        BY <2>3, <3>1, <3>3 DEF Fits
      <4>2. k # 1
        <5>1. k = 1 => r.held[x].id = i
          BY <1>1, <2>4, <3>1
        <5> QED
          BY <1>2, <5>1
      <4>3. 1 < k
        BY <1>1, <3>1, <4>2
      <4>4. Ranks(r, p.mid, P[t].mid)
        BY <1>1, <3>1, <3>3, <4>3 DEF InSequence, ReleasesUp, m
      <4> QED
        BY <2>5, <2>6, <4>1, <4>4
    <3>4. CASE b[k].type = "PUBLISH"
      <4>1. b[k].id = i
        BY <2>3, <3>1, <3>4 DEF Fits
      <4>2. j < i
        BY <1>3, <3>1, <3>4, <4>1 DEF InSequence, HeldBefore, OfQos2, m
      <4> QED
        BY <1>2, <4>2
    <3> QED
      BY <3>2, <3>3, <3>4, PublishPacket
  <2> QED
    BY <2>7, <2>8
<1> QED
  BY <1>2, <1>5, <1>7, <1>8, <1>9 DEF States

\* While both ends read it is so (Covered),
LEMMA OpenSends ==
  ASSUME NEW s \in Sender, NEW r \in Receiver, AnswersTell(s, r), InLine(s),
         Mids(s, Len(s.inflight)),
         Tokens(s, Pipe(r.packets, s), Len(s.inflight)),
         Covered(s, Pipe(r.packets, s), Len(s.inflight))
  PROVE  StillSent(s, r)
<1> DEFINE n == Len(s.inflight)
           a == r.packets
           b == s.packets
           l == Len(a)
           m == Len(b)
           P == Pipe(a, s)
<1> SUFFICES ASSUME NEW i \in Ids, s.state[i] = "wait_for_puback", r.delivered[i] = 0
             PROVE  \E p \in 1..m : b[p].type = "PUBLISH" /\ b[p].id = i
  BY DEF StillSent
<1>1. /\ a \in Seq(AnswerPacket) /\ l \in Nat /\ m \in Nat /\ Len(P) = l + m
      /\ \A q \in 1..l : P[q] = a[q]
      /\ \A k \in 1..m : P[l + k] = b[k]
  <2>1. a \in Seq(AnswerPacket)
    BY DEF Receiver
  <2> QED
    BY <2>1, PipeDoes
<1> HIDE DEF n, l, m, P
<1>2. PICK y \in 1..n : s.inflight[y].id = i
  BY DEF InLine, n
<1>3. PICK t \in 1..Len(P) : P[t].mid = s.inflight[y].mid
  BY DEF Covered, P, n
<1>4. Fits(s, P[t], i)
  <2>1. PICK z \in 1..n : P[t].mid = s.inflight[z].mid /\ Fits(s, P[t], s.inflight[z].id)
    BY DEF Tokens, P, n
  <2>2. z = y
    BY <1>3, <2>1 DEF Mids, n
  <2> QED
    BY <1>2, <2>1, <2>2
<1>5. t \notin 1..l
  <2> SUFFICES ASSUME t \in 1..l
               PROVE  FALSE
    OBVIOUS
  <2>1. a[t] \in AnswerPacket
    BY <1>1, ElementOfSeq DEF l
  <2>2. P[t] = a[t] /\ a[t].type \in {"PUBACK", "PUBREC", "PUBCOMP"}
    BY <1>1, <2>1 DEF AnswerPacket
  <2>3. a[t].type = "PUBACK"
    BY <1>4, <2>2 DEF Fits
  <2>4. r.delivered[s.inflight[y].id] > 0
    BY <1>3, <2>2, <2>3 DEF AnswersTell, l, n
  <2> QED
    BY <1>2, <2>4
<1> DEFINE k == t - l
<1>6. k \in 1..m /\ P[t] = b[k]
  <2>1. k \in 1..m /\ l + k = t
    BY <1>1, <1>5
  <2> QED
    BY <1>1, <2>1
<1> HIDE DEF k
<1>7. b[k].type \in {"PUBLISH", "PUBREL"}
  <2>1. b[k] \in OutPacket
    BY <1>6, InflightType DEF m
  <2> QED
    BY <2>1, PublishPacket
<1>8. b[k].type = "PUBLISH" /\ b[k].id = i
  BY <1>4, <1>6, <1>7 DEF Fits
<1> QED
  BY <1>6, <1>8

\* and when the sender closes, what it sent before can still be read.
LEMMA ReadSends ==
  ASSUME NEW s \in Sender, s.packets # <<>>, NEW r \in Receiver, StillSent(s, r),
         StatesFit(s), NEW t, t.packets = Tail(s.packets), t.state = s.state,
         NEW u, u.delivered \in [Ids -> Nat],
         \A i \in Ids : r.delivered[i] > 0 => u.delivered[i] > 0,
         NEW p, p = Head(s.packets),
         p.type = "PUBLISH" /\ conf.qos[p.id] = 1 => u.delivered[p.id] > 0
  PROVE  StillSent(t, u)
<1> DEFINE b == s.packets
           w == t.packets
<1> SUFFICES ASSUME NEW i \in Ids, s.state[i] = "wait_for_puback", u.delivered[i] = 0
             PROVE  \E k \in 1..Len(w) : w[k].type = "PUBLISH" /\ w[k].id = i
  BY DEF StillSent
<1>1. /\ Len(b) \in Nat \ {0} /\ Len(w) = Len(b) - 1 /\ b[1] = p
      /\ \A k \in 1..Len(w) : w[k] = b[k + 1]
  <2>1. b \in Seq(OutPacket) /\ b # <<>> /\ p = Head(b)
    BY DEF Sender
  <2>2. /\ Len(b) \in Nat \ {0} /\ Len(w) = Len(b) - 1
        /\ \A k \in 1..Len(w) : w[k] = b[k + 1]
    BY <2>1, HeadTailProperties, EmptySeq, LenProperties
  <2>3. b[1] = p
    BY <2>1
  <2> HIDE DEF b, w
  <2> QED
    BY <2>2, <2>3
<1>2. r.delivered[i] = 0
  <2>1. r.delivered[i] \in Nat
    BY DEF Receiver
  <2> QED
    BY <2>1
<1>3. PICK k \in 1..Len(b) : b[k].type = "PUBLISH" /\ b[k].id = i
  BY <1>2 DEF StillSent
<1> HIDE DEF b, w
<1>4. k # 1
  <2>1. conf.qos[i] = 1
    BY DEF StatesFit
  <2> QED
    BY <1>1, <1>3, <2>1
<1>5. k - 1 \in 1..Len(w) /\ w[k - 1] = b[k]
  <2>1. k - 1 \in 1..Len(w) /\ (k - 1) + 1 = k
    BY <1>1, <1>4
  <2> QED
    BY <1>1, <2>1
<1> QED
  BY <1>3, <1>5

\* What is sent in a new connection as a PUBLISH has the id of its row.
LEMMA PublishedIs ==
  ASSUME NEW p, NEW id, NEW mid, NEW dup, NEW rel,
         p = IF rel THEN Packet("PUBREL", mid) ELSE Publish(id, mid, dup),
         p.type = "PUBLISH"
  PROVE  p.id = id
<1>1. CASE rel
  <2>1. p = Packet("PUBREL", mid)
    BY <1>1
  <2> QED
    BY ONLY <2>1, p.type = "PUBLISH" DEF Packet
<1>2. CASE ~rel
  <2>1. p = Publish(id, mid, dup)
    BY <1>2
  <2> QED
    BY ONLY <2>1 DEF Publish
<1> QED
  BY <1>1, <1>2

\* A new connection sends what was not answered in the order of the rows.
LEMMA ConnectSequence ==
  ASSUME ConfType, MaxInflight > 0, NEW s \in Sender, s.packets = <<>>,
         NEW r, Len(r.held) = 0, Len(r.packets) = 0, NEW t, t = Release(Load(s), TRUE)
  PROVE  InSequence(t, r)
<1> DEFINE f == Load(s)
           n == Len(f.inflight)
<1>1. /\ f \in Sender /\ f.packets = s.packets /\ 0 \in 0..n
      /\ \A i, j \in 1..n : i < j => f.inflight[i].id < f.inflight[j].id
      /\ Releases(f, TRUE, 0)
  BY LoadReleases
<1>2. t = Release(f, TRUE)
  BY DEF f
<1> HIDE DEF f
<1>3. Released(f, t, 0)
  BY <1>1, <1>2, ReleaseRun
<1>4. n \in Nat /\ Len(f.packets) = 0
  BY <1>1, InflightType, EmptySeq
<1> HIDE DEF n
<1>5. /\ Len(t.packets) = n
      /\ \A k \in 1..n :
           t.packets[k] = IF f.state[f.inflight[k].id] = "wait_for_pubcomp"
                          THEN Packet("PUBREL", MidAfter(f.lastMid, k))
                          ELSE Publish(f.inflight[k].id, MidAfter(f.lastMid, k),
                                       f.state[f.inflight[k].id] # "invalid")
  <2>1. /\ Len(t.packets) = Len(f.packets) + n - 0
        /\ \A k \in 1..(n - 0) :
             t.packets[Len(f.packets) + k] =
               IF f.state[f.inflight[0 + k].id] = "wait_for_pubcomp"
               THEN Packet("PUBREL", MidAfter(f.lastMid, k))
               ELSE Publish(f.inflight[0 + k].id, MidAfter(f.lastMid, k),
                            f.state[f.inflight[0 + k].id] # "invalid")
    BY <1>3 DEF Released, n
  <2>2. n - 0 = n /\ Len(f.packets) + n - 0 = n
    BY <1>4
  <2>3. \A k \in 1..n : Len(f.packets) + k = k /\ 0 + k = k
    BY <1>4
  <2> QED
    BY <2>1, <2>2, <2>3
<1>6. ASSUME NEW k \in 1..n, t.packets[k].type = "PUBLISH"
      PROVE  t.packets[k].id = f.inflight[k].id
  <2> DEFINE id == f.inflight[k].id
             mid == MidAfter(f.lastMid, k)
             rel == f.state[id] = "wait_for_pubcomp"
             dup == f.state[id] # "invalid"
             p == t.packets[k]
  <2>1. p = IF rel THEN Packet("PUBREL", mid) ELSE Publish(id, mid, dup)
    BY <1>5
  <2>2. p.type = "PUBLISH"
    BY <1>6
  <2> HIDE DEF id, mid, rel, dup, p
  <2>3. p.id = id
    BY ONLY <2>1, <2>2, PublishedIs
  <2> QED
    BY <2>3 DEF p, id
<1>7. PublishesUp(t)
  <2> SUFFICES ASSUME NEW p \in 1..Len(t.packets), NEW q \in 1..Len(t.packets),
                      p < q, t.packets[p].type = "PUBLISH", t.packets[q].type = "PUBLISH"
               PROVE  t.packets[p].id < t.packets[q].id
    BY DEF PublishesUp
  <2>1. p \in 1..n /\ q \in 1..n
    BY <1>5
  <2>2. /\ t.packets[p].id = f.inflight[p].id
        /\ t.packets[q].id = f.inflight[q].id
    BY <1>6, <2>1
  <2>3. f.inflight[p].id < f.inflight[q].id
    BY <1>1, <2>1
  <2> QED
    BY ONLY <2>2, <2>3
<1>8. HeldBefore(t, r) /\ AnswersUp(r) /\ ReleasesFirst(t, r)
  BY DEF HeldBefore, AnswersUp, ReleasesFirst
<1>9. ReleasesUp(t, r)
  BY DEF ReleasesUp, Ranks
<1> QED
  BY <1>7, <1>8, <1>9 DEF InSequence

\* What the receiver passes on of QoS 1 is in its turn,
LEMMA OrderQos1 ==
  ASSUME ConfType, NEW s \in Sender, NEW r \in Receiver, s.packets # <<>>,
         StatesFit(s), InSequence(s, r), FirstsUp(r), StillSent(s, r), Rows(s),
         NEW c \in Nat, Account(s, r, c), Lists(s, Len(s.inflight)),
         \A id \in Ids : id > c => s.state[id] = "none",
         Tokens(s, Pipe(r.packets, s), Len(s.inflight)),
         NEW t, t.packets = Tail(s.packets), t.state = s.state,
         NEW p, p = Head(s.packets), p.type = "PUBLISH", conf.qos[p.id] = 1,
         NEW u, u = Answer(Deliver(r, p.id), "PUBACK", p.mid)
  PROVE  InSequence(t, u) /\ FirstsUp(u) /\ StillSent(t, u)
<1> DEFINE d == Deliver(r, p.id)
           e == Packet("PUBACK", p.mid)
<1>1. r.packets \in Seq(AnswerPacket) /\ s.packets \in Seq(OutPacket)
  BY DEF Receiver, Sender
<1>2. p \in OutPacket /\ Len(s.packets) \in Nat \ {0} /\ s.packets[1] = p
  BY <1>1, HeadTailProperties, LenProperties, EmptySeq
<1>3. p.id \in Ids /\ p.mid \in 1..MaxMid
  BY <1>2, PublishPacket
<1>4. p.id \in Begun(s)
  <2>1. 1 \in 1..Len(s.packets) /\ s.packets[1].type = "PUBLISH"
    BY <1>2
  <2>2. s.packets[1].id \in Begun(s)
    BY <1>1, <2>1, BegunPackets
  <2> QED
    BY <1>2, <2>2
<1>5. /\ d \in Receiver
      /\ d.held = r.held /\ d.packets = r.packets /\ r.delivered[p.id] \in Nat
      /\ d.delivered[p.id] = r.delivered[p.id] + 1
      /\ \A a \in Ids : a # p.id => d.delivered[a] = r.delivered[a]
      /\ \A a \in Ids : r.delivered[a] > 0 => d.delivered[a] > 0
  BY <1>3, DeliverDoes
<1>6. u = Answer(d, "PUBACK", p.mid)
  OBVIOUS
<1> HIDE DEF d
<1>7. /\ u \in Receiver
      /\ u.held = d.held /\ u.rows = d.rows /\ u.delivered = d.delivered
      /\ u.packets = Append(d.packets, e)
  <2> DEFINE v == Answer(d, "PUBACK", p.mid)
  <2>1. /\ d \in Receiver /\ p.mid \in 1..MaxMid
        /\ "PUBACK" \in {"PUBACK", "PUBREC", "PUBCOMP"}
    BY <1>3, <1>5
  <2>2. /\ v \in Receiver
        /\ v.held = d.held /\ v.rows = d.rows /\ v.delivered = d.delivered
        /\ v.packets = Append(d.packets, e)
    BY ONLY <2>1, AnswerTypes
  <2>3. u = v
    BY <1>6
  <2> HIDE DEF v
  <2> QED
    BY ONLY <2>2, <2>3
<1>8. e.type # "PUBREC"
  BY DEF Packet
<1> HIDE DEF e
<1>9. InSequence(t, u)
  <2>1. HeldOf(r, u) /\ u.packets = Append(r.packets, e)
    BY ONLY <1>5, <1>7 DEF HeldOf
  <2>2. /\ s \in Sender /\ s.packets # <<>> /\ t.packets = Tail(s.packets)
        /\ r \in Receiver /\ InSequence(s, r)
    OBVIOUS
  <2> QED
    BY ONLY <1>8, <2>1, <2>2, SequenceRead
<1>10. PublishesUp(s)
  BY DEF InSequence
<1>11. \A i \in Ids : i < p.id /\ conf.qos[i] = conf.qos[p.id] => r.delivered[i] > 0
  BY <1>4, <1>10, Qos1Turn
<1>12. u.delivered[p.id] > 0
  BY ONLY <1>5, <1>7
<1>13. FirstsUp(u)
  <2> DEFINE j == p.id
  <2>1. r \in Receiver /\ FirstsUp(r)
    OBVIOUS
  <2>2. /\ j \in Ids /\ u.delivered[j] > 0
        /\ \A a \in Ids : a # j => u.delivered[a] = r.delivered[a]
    BY ONLY <1>3, <1>5, <1>7, <1>12
  <2>3. \A i \in Ids : i < j /\ conf.qos[i] = conf.qos[j] => r.delivered[i] > 0
    BY ONLY <1>11, Zenon
  <2> HIDE DEF j
  <2> QED
    BY ONLY <2>1, <2>2, <2>3, FirstsMore
<1>14. /\ u.delivered \in [Ids -> Nat]
       /\ \A a \in Ids : r.delivered[a] > 0 => u.delivered[a] > 0
  <2>1. u \in Receiver /\ u.delivered = d.delivered
    BY ONLY <1>7
  <2>2. \A a \in Ids : r.delivered[a] > 0 => d.delivered[a] > 0
    BY ONLY <1>5
  <2>3. u.delivered \in [Ids -> Nat]
    BY ONLY <2>1 DEF Receiver
  <2> QED
    BY ONLY <2>1, <2>2, <2>3
<1>15. StillSent(t, u)
  <2>1. /\ s \in Sender /\ s.packets # <<>> /\ r \in Receiver /\ StillSent(s, r)
        /\ StatesFit(s) /\ t.packets = Tail(s.packets) /\ t.state = s.state
        /\ p = Head(s.packets)
    OBVIOUS
  <2> QED
    BY ONLY <1>12, <1>14, <2>1, ReadSends
<1> QED
  BY <1>9, <1>13, <1>15

\* and so is what it holds when its PUBREL comes.
LEMMA OrderReleased ==
  ASSUME ConfType, NEW s \in Sender, NEW r \in Receiver, s.packets # <<>>,
         StatesFit(s), InSequence(s, r), FirstsUp(r), Rows(s), InLine(s),
         NEW c \in Nat, Exact(s, r, c),
         \A id \in Ids : id > c => s.state[id] = "none",
         Lists(s, Len(s.inflight)), Mids(s, Len(s.inflight)),
         Tokens(s, Pipe(r.packets, s), Len(s.inflight)),
         Covered(s, Pipe(r.packets, s), Len(s.inflight)),
         NEW t, t.packets = Tail(s.packets),
         NEW p, p = Head(s.packets), p.type = "PUBREL",
         NEW x, x = First(WithMid(r.held, p.mid)), WithMid(r.held, p.mid) # {},
         NEW u, u = Answer(Deliver([r EXCEPT !.held = RemoveAt(@, x)], r.held[x].id),
                           "PUBCOMP", p.mid)
  PROVE  InSequence(t, u) /\ FirstsUp(u)
<1> DEFINE g == [r EXCEPT !.held = RemoveAt(@, x)]
           id == r.held[x].id
           d == Deliver(g, id)
           e == Packet("PUBCOMP", p.mid)
           l == Len(r.held)
           w == RemoveAt(r.held, x)
           places == WithMid(r.held, p.mid)
<1>a. /\ r \in Receiver /\ s \in Sender /\ s.packets # <<>> /\ p = Head(s.packets)
      /\ x = First(places) /\ places # {}
  OBVIOUS
<1>b. u = Answer(d, "PUBCOMP", p.mid)
  OBVIOUS
<1>1. r.held \in Seq(Held)
  BY ONLY <1>a DEF Receiver
<1>2. p \in OutPacket
  <2>1. s.packets \in Seq(OutPacket)
    BY ONLY <1>a DEF Sender
  <2> QED
    BY ONLY <1>a, <2>1, HeadTailProperties
<1>3. p.mid \in 1..MaxMid
  BY ONLY <1>2, ConfType, PublishPacket
<1>5. x \in 1..l /\ r.held[x].mid = p.mid /\ l \in Nat
  <2>1. places \in SUBSET DOMAIN r.held
    BY ONLY DEF WithMid
  <2>2. \A i \in places : r.held[i].mid = p.mid
    BY ONLY DEF WithMid
  <2> HIDE DEF places
  <2>3. First(places) \in places /\ First(places) \in 1..Len(r.held)
    BY ONLY <1>1, <1>a, <2>1, FirstDoes
  <2> QED
    BY ONLY <1>1, <1>a, <2>2, <2>3, LenProperties
<1> HIDE DEF places
<1>6. /\ w \in Seq(Held) /\ Len(w) = l - 1
      /\ \A j \in 1..(l - 1) : w[j] = IF j < x THEN r.held[j] ELSE r.held[j + 1]
  BY ONLY <1>1, <1>5, RemoveAtDoes
<1>7. id \in Ids
  BY ONLY <1>a, <1>5, HeldRows
<1> HIDE DEF w
<1>8. /\ g \in Receiver /\ g.held = w /\ g.packets = r.packets
      /\ g.delivered = r.delivered
  <2>1. g = [r EXCEPT !.held = w]
    BY ONLY DEF w
  <2> HIDE DEF g
  <2> QED
    BY ONLY <1>6, <1>a, <2>1 DEF Receiver
<1> HIDE DEF g, id
<1>9. /\ d \in Receiver
      /\ d.held = g.held /\ d.packets = g.packets /\ g.delivered[id] \in Nat
      /\ d.delivered[id] = g.delivered[id] + 1
      /\ \A a \in Ids : a # id => d.delivered[a] = g.delivered[a]
      /\ \A a \in Ids : g.delivered[a] > 0 => d.delivered[a] > 0
  <2>1. g \in Receiver /\ id \in Ids
    BY ONLY <1>7, <1>8
  <2> QED
    BY ONLY <2>1, DeliverDoes
<1> HIDE DEF d
<1>10. /\ u \in Receiver
       /\ u.held = d.held /\ u.rows = d.rows /\ u.delivered = d.delivered
       /\ u.packets = Append(d.packets, e)
  <2> DEFINE v == Answer(d, "PUBCOMP", p.mid)
  <2>1. /\ d \in Receiver /\ p.mid \in 1..MaxMid
        /\ "PUBCOMP" \in {"PUBACK", "PUBREC", "PUBCOMP"}
    BY ONLY <1>3, <1>9
  <2>2. /\ v \in Receiver
        /\ v.held = d.held /\ v.rows = d.rows /\ v.delivered = d.delivered
        /\ v.packets = Append(d.packets, e)
    BY ONLY <2>1, AnswerTypes
  <2>3. u = v
    BY ONLY <1>b
  <2> HIDE DEF v
  <2> QED
    BY ONLY <2>2, <2>3
<1>11. e.type # "PUBREC"
  BY ONLY DEF Packet
<1> HIDE DEF e
<1>12. HeldOf(r, u)
  <2>1. u.held = w
    BY ONLY <1>8, <1>9, <1>10
  <2>2. ASSUME NEW k \in 1..Len(w) PROVE \E j \in 1..l : w[k] = r.held[j]
    <3>1. k \in 1..(l - 1) /\ k \in 1..l /\ k + 1 \in 1..l
      BY ONLY <1>5, <1>6, k \in 1..Len(w)
    <3> QED
      BY ONLY <1>6, <3>1
  <2> QED
    BY ONLY <2>1, <2>2 DEF HeldOf
<1>13. InSequence(t, u)
  <2>1. u.packets = Append(r.packets, e)
    BY ONLY <1>8, <1>9, <1>10
  <2>2. /\ s \in Sender /\ s.packets # <<>> /\ t.packets = Tail(s.packets)
        /\ r \in Receiver /\ InSequence(s, r)
    OBVIOUS
  <2> QED
    BY ONLY <1>11, <1>12, <2>1, <2>2, SequenceRead
<1>14. \A i \in Ids : i < id /\ conf.qos[i] = conf.qos[id] => r.delivered[i] > 0
  <2>1. /\ ConfType /\ ReleaseTurn(s, r, c)
        /\ p.type = "PUBREL"
    BY DEF ReleaseTurn
  <2>2. ASSUME NEW i \in Ids, i < r.held[x].id, conf.qos[i] = conf.qos[r.held[x].id]
        PROVE  r.delivered[i] > 0
    BY ONLY <1>5, <1>a, <2>1, <2>2, Qos2Turn
  <2> QED
    BY ONLY <2>2 DEF id
<1>15. u.delivered[id] > 0 /\ \A a \in Ids : a # id => u.delivered[a] = r.delivered[a]
  BY ONLY <1>8, <1>9, <1>10
<1>16. FirstsUp(u)
  <2>1. r \in Receiver /\ FirstsUp(r)
    OBVIOUS
  <2> QED
    BY ONLY <1>7, <1>14, <1>15, <2>1, FirstsMore
<1> QED
  BY <1>13, <1>16

\* The whole invariant: what a receiver that is read still misses of QoS 1 is on
\* its way, also when the sender is closing and hears of no answer.
OrderInd ==
  /\ ExactInd
  /\ conf.server => /\ InSequence(out, in) /\ FirstsUp(in)
                    /\ link = "senderCloses" => StillSent(out, in)

\* Nothing on its way is in sequence.
LEMMA SequenceEmpty ==
  ASSUME NEW s, NEW r, Len(s.packets) = 0, Len(r.packets) = 0
  PROVE  InSequence(s, r)
BY DEF InSequence, PublishesUp, HeldBefore, ReleasesUp, AnswersUp, ReleasesFirst

\* It begins so,
LEMMA OrderStarts == ExactFits /\ Init => OrderInd
<1> SUFFICES ASSUME ExactFits, Init PROVE OrderInd
  OBVIOUS
<1>1. ExactInd
  BY ExactStarts
<1>2. /\ link # "senderCloses" /\ Len(in.packets) = 0 /\ Len(out.packets) = 0
      /\ \A id \in Ids : in.delivered[id] = 0
  BY EmptySeq DEF Init
<1>3. InSequence(out, in)
  BY <1>2, SequenceEmpty
<1>4. FirstsUp(in)
  BY <1>2 DEF FirstsUp
<1> QED
  BY <1>1, <1>2, <1>3, <1>4 DEF OrderInd

\* What the steps have at hand
LEMMA OrderFacts ==
  ASSUME ExactFits, OrderInd, conf.server
  PROVE  /\ ExactInd /\ InSequence(out, in) /\ FirstsUp(in) /\ Rows(out)
         /\ link # "closed" => InLine(out)
         /\ link = "open" => Covered(out, Pipe(in.packets, out), Len(out.inflight))
         /\ link \in {"open", "senderCloses"} => StillSent(out, in)
<1>1. /\ ExactInd /\ InSequence(out, in) /\ FirstsUp(in)
      /\ link = "senderCloses" => StillSent(out, in)
  BY DEF OrderInd
<1>2. /\ MatchInd /\ out \in Sender /\ in \in Receiver /\ Limited(out.inflight)
      /\ Exact(out, in, accepted)
  BY <1>1 DEF ExactInd, MatchInd, TypeInd
<1> DEFINE n == Len(out.inflight)
           P == Pipe(in.packets, out)
<1>3. link # "closed" =>
        /\ Lists(out, n) /\ Mids(out, n) /\ Tokens(out, P, n) /\ Line(out)
        /\ link = "open" => Covered(out, P, n)
  BY <1>2 DEF MatchInd, Window
<1>4. link # "closed" => InLine(out)
  BY <1>3 DEF Line
<1>5. Rows(out)
  <2>1. CASE link = "closed"
    BY <1>2, <2>1 DEF MatchInd
  <2>2. CASE link # "closed"
    BY <1>2, <1>3, <2>2, LineLeaves DEF ExactFits, WindowFits
  <2> QED
    BY <2>1, <2>2
<1>6. ASSUME link = "open" PROVE StillSent(out, in)
  <2>1. AnswersTell(out, in)
    BY <1>2 DEF Exact
  <2> QED
    BY <1>2, <1>3, <1>4, <1>6, <2>1, OpenSends
<1> QED
  BY <1>1, <1>3, <1>4, <1>5, <1>6

\* The invariant after a step, from its parts
LEMMA OrderKept ==
  ASSUME ExactInd', conf' = conf,
         conf.server => /\ InSequence(out', in') /\ FirstsUp(in')
                        /\ link' = "senderCloses" => StillSent(out', in')
  PROVE  OrderInd'
<1>1. conf.server =>
        /\ InSequence(out, in)' /\ FirstsUp(in)'
        /\ link' = "senderCloses" => StillSent(out, in)'
  BY DEF InSequence, PublishesUp, HeldBefore, ReleasesUp, AnswersUp, ReleasesFirst,
         Ranks, OfQos2, FirstsUp, StillSent
<1> QED
  BY <1>1 DEF OrderInd

\* Every step keeps it: a message taken by the sender,
LEMMA OrderAccept ==
  ASSUME ExactFits, OrderInd, ExactInd', Accept
  PROVE  OrderInd'
<1>1. /\ ExactInd /\ ConfType /\ out \in Sender /\ in \in Receiver
      /\ Exact(out, in, accepted) /\ accepted \in Nat
      /\ in.packets \in Seq(AnswerPacket)
      /\ \A id \in Ids : id \in Nat /\ (id > accepted => out.state[id] = "none")
      /\ link # "closed" =>
           LET n == Len(out.inflight)
           IN  Lists(out, n) /\ Tokens(out, Pipe(in.packets, out), n)
  BY ExactFacts DEF OrderInd
<1>2. /\ accepted + 1 \in Ids /\ conf' = conf /\ in' = in /\ link' = link
  BY <1>1, MqttAssumption DEF Accept, Ids
<1> SUFFICES ASSUME conf.server
             PROVE  /\ InSequence(out', in') /\ FirstsUp(in')
                    /\ link' = "senderCloses" => StillSent(out', in')
  BY <1>2, OrderKept
<1>3. InSequence(out, in) /\ FirstsUp(in)
  BY OrderFacts
<1>4. CASE SendMessage
  <2>1. link \in {"open", "receiverCloses"} /\ out' = Enqueue(out, accepted + 1)
    BY <1>4 DEF SendMessage
  <2>2. out' \in Sender
    BY DEF ExactInd, MatchInd, TypeInd
  <2>3. /\ Lists(out, Len(out.inflight))
        /\ Tokens(out, Pipe(in.packets, out), Len(out.inflight))
    BY <1>1, <2>1
  <2>4. \A b \in Ids : b >= accepted + 1 => out.state[b] = "none"
    BY <1>1
  <2>5. Grows(out, out')
    BY <1>1, <1>2, <2>1, <2>3, <2>4, EnqueueGrows
  <2>6. \A p \in 1..Len(out.packets) :
          out.packets[p].type = "PUBLISH" => out.packets[p].id \in Begun(out)
    BY <1>1, <2>3, BegunPackets
  <2>7. Follows(in.packets, in.packets, 0)
    BY <1>1, LenProperties DEF Follows
  <2>8. HeldFit(out, in)
    BY <1>1 DEF Exact
  <2>9. InSequence(out', in)
    BY <1>1, <1>3, <2>2, <2>5, <2>6, <2>7, <2>8, SequenceGrows
  <2> QED
    BY <1>2, <1>3, <2>1, <2>9
<1>5. CASE StoreMessage
  <2>1. link = "closed" /\ out'.packets = out.packets
    BY <1>1, <1>5 DEF StoreMessage, Sender
  <2>2. out.packets = <<>> /\ in.packets = <<>>
    BY <1>1, <2>1 DEF MatchInd, ExactInd
  <2>3. Len(in.packets) = 0 /\ Len(out'.packets) = 0
    BY <2>1, <2>2, EmptySeq
  <2>4. InSequence(out', in)
    BY <2>3, SequenceEmpty
  <2> QED
    BY <1>2, <1>3, <2>1, <2>4
<1>6. CASE RouteToClosing
  BY <1>6 DEF RouteToClosing, ExactFits
<1> QED
  BY <1>4, <1>5, <1>6 DEF Accept

\* an answer that the sender reads,
LEMMA OrderSender ==
  ASSUME ExactFits, OrderInd, ExactInd', SenderReads
  PROVE  OrderInd'
<1> DEFINE a == Head(in.packets)
           P == Pipe(in.packets, out)
<1>1. /\ ExactInd /\ ConfType /\ out \in Sender /\ in \in Receiver
      /\ Exact(out, in, accepted) /\ in.packets \in Seq(AnswerPacket)
      /\ link # "closed" =>
           LET n == Len(out.inflight)
           IN  Lists(out, n) /\ Mids(out, n) /\ Tokens(out, Pipe(in.packets, out), n)
  BY ExactFacts DEF OrderInd
<1>2. /\ link \in {"open", "receiverCloses"} /\ in.packets # <<>>
      /\ out' = IF a.type = "PUBREC" THEN Received(out, a.mid) ELSE Settle(out, a.mid)
      /\ in' = [in EXCEPT !.packets = Tail(@)] /\ conf' = conf /\ link' = link
  BY DEF SenderReads
<1> SUFFICES ASSUME conf.server
             PROVE  /\ InSequence(out', in') /\ FirstsUp(in')
                    /\ link' = "senderCloses" => StillSent(out', in')
  BY <1>2, OrderKept
<1>3. /\ InSequence(out, in) /\ FirstsUp(in) /\ InLine(out)
      /\ Lists(out, Len(out.inflight)) /\ Mids(out, Len(out.inflight))
      /\ Tokens(out, P, Len(out.inflight))
  BY <1>1, <1>2, OrderFacts
<1>4. /\ in'.held = in.held /\ in'.delivered = in.delivered
      /\ in'.packets = Tail(in.packets)
  BY <1>1, <1>2 DEF Receiver
<1>5. out' \in Sender /\ in' \in Receiver
  BY DEF ExactInd, MatchInd, TypeInd
<1>6. a \in AnswerPacket /\ Len(P) \in Nat \ {0} /\ P[1] = a
  BY <1>1, <1>2, PipeHead
<1>7. PICK x \in 1..Len(out.inflight) : a.mid = out.inflight[x].mid
  BY <1>3, <1>6 DEF Tokens
<1>8. FirstsUp(in')
  BY <1>3, <1>4 DEF FirstsUp
<1>9. InSequence(out', in')
  <2>1. CASE a.type = "PUBREC"
    <3>1. out' = Received(out, a.mid) /\ a.mid \in 1..MaxMid
      BY <1>2, <1>6, <2>1 DEF AnswerPacket
    <3>2. out'.packets = Append(out.packets, Packet("PUBREL", a.mid))
      <4>1. Received(out, a.mid).packets = Append(out.packets, Packet("PUBREL", a.mid))
        BY <1>1, <3>1, ReceivedDoes
      <4> QED
        BY <3>1, <4>1
    <3> QED
      BY <1>1, <1>2, <1>3, <1>4, <1>5, <2>1, <3>2, SequenceReceived
  <2>2. CASE a.type # "PUBREC"
    <3>1. out' = Settle(out, out.inflight[x].mid)
      BY <1>2, <1>7, <2>2
    <3>2. Grows(out, out')
      BY <1>1, <1>3, <3>1, SettleGrows
    <3>3. \A p \in 1..Len(out.packets) :
            out.packets[p].type = "PUBLISH" => out.packets[p].id \in Begun(out)
      BY <1>1, <1>3, BegunPackets
    <3>4. Follows(in'.packets, in.packets, 1)
      <4>1. \A q \in 1..Len(Tail(in.packets)) :
              q + 1 \in 1..Len(in.packets) /\ Tail(in.packets)[q] = in.packets[q + 1]
        BY <1>1, <1>2, HeadTailProperties, LenProperties, EmptySeq
      <4> QED
        BY <1>4, <4>1 DEF Follows
    <3>5. HeldFit(out, in)
      BY <1>1 DEF Exact
    <3> QED
      BY <1>1, <1>3, <1>4, <1>5, <3>2, <3>3, <3>4, <3>5, SequenceGrows
  <2> QED
    BY <2>1, <2>2
<1> QED
  BY <1>2, <1>8, <1>9

\* a packet that the receiver reads,
LEMMA OrderReceiver ==
  ASSUME ExactFits, OrderInd, ExactInd', ReceiverReads
  PROVE  OrderInd'
<1>1. /\ ExactInd /\ ConfType /\ out \in Sender /\ in \in Receiver
      /\ StatesFit(out) /\ Exact(out, in, accepted) /\ accepted \in Nat
      /\ in.packets \in Seq(AnswerPacket)
      /\ \A id \in Ids : id \in Nat /\ (id > accepted => out.state[id] = "none")
      /\ link # "closed" =>
           LET n == Len(out.inflight)
           IN  Lists(out, n) /\ Mids(out, n) /\ Tokens(out, Pipe(in.packets, out), n)
  BY ExactFacts DEF OrderInd
<1> DEFINE p == Head(out.packets)
           t == [out EXCEPT !.packets = Tail(@)]
           c == accepted
           found == WithMid(in.held, p.mid)
           x == First(found)
<1>2. /\ link \in {"open", "senderCloses"} /\ out.packets # <<>>
      /\ p.type = "PUBLISH" => HandlePublish(p)
      /\ p.type # "PUBLISH" => HandlePubrel(p)
      /\ out' = t /\ conf' = conf
      /\ link' = "open" \/ MayEnd(out', in')
  BY DEF ReceiverReads
<1>3. link' = link \/ link' = "receiverCloses"
  BY <1>2 DEF HandlePublish, HandlePubrel
<1> SUFFICES ASSUME conf.server
             PROVE  /\ InSequence(out', in') /\ FirstsUp(in')
                    /\ link' = "senderCloses" => StillSent(out', in')
  BY <1>2, OrderKept
<1>4. t.packets = Tail(out.packets) /\ t.inflight = out.inflight /\ t.state = out.state
  BY <1>1 DEF Sender
<1>5. /\ Lists(out, Len(out.inflight)) /\ Mids(out, Len(out.inflight))
      /\ Tokens(out, Pipe(in.packets, out), Len(out.inflight))
      /\ InSequence(out, in) /\ FirstsUp(in) /\ Rows(out) /\ InLine(out)
      /\ StillSent(out, in)
      /\ link = "open" => Covered(out, Pipe(in.packets, out), Len(out.inflight))
  BY <1>1, <1>2, OrderFacts
<1>6. p \in OutPacket
  BY <1>1, <1>2, HeadTailProperties DEF Sender
<1>7. /\ p.type \in {"PUBLISH", "PUBREL"} /\ p.mid \in 1..MaxMid
      /\ p.type = "PUBLISH" => conf.qos[p.id] \in {1, 2}
  BY <1>1, <1>6, PublishPacket, MqttAssumption DEF ConfType
<1> HIDE DEF p, t, c
<1>8. ASSUME p.type = "PUBLISH", conf.qos[p.id] = 1
      PROVE  InSequence(t, in') /\ FirstsUp(in') /\ StillSent(t, in')
  <2>1. in' = Answer(Deliver(in, p.id), "PUBACK", p.mid)
    BY <1>2, <1>8 DEF HandlePublish
  <2>2. Account(out, in, accepted)
    BY <1>1 DEF Exact
  <2>3. \A id \in Ids : id > accepted => out.state[id] = "none"
    BY <1>1
  <2> QED
    BY <1>1, <1>2, <1>4, <1>5, <1>8, <2>1, <2>2, <2>3, OrderQos1 DEF p
\* A closing sender is read only between the exchanges of QoS 2.
<1>9. link' = "senderCloses" =>
        link = "senderCloses" /\ Len(in.held) = 0 /\ Len(in'.held) = 0
  <2>1. link' # "open" => Len(in'.held) = 0
    BY DEF ExactInd
  <2>2. link # "open" => Len(in.held) = 0
    BY <1>1 DEF ExactInd
  <2> QED
    BY <1>3, <2>1, <2>2
<1>10. ASSUME p.type = "PUBLISH", conf.qos[p.id] = 2
       PROVE  InSequence(t, in') /\ FirstsUp(in') /\ link' # "senderCloses"
  <2> DEFINE e == [id |-> p.id, mid |-> p.mid, row |-> in.rows + 1]
             h == [in EXCEPT !.rows = @ + 1, !.held = Append(@, e)]
  <2>1. OfQos2(p)
    BY <1>10 DEF OfQos2
  <2>2. ~Holds(in, p.mid) /\ WithoutDup(in, p) = in
    BY <1>1, <1>2, <1>5, <2>1, NothingReplaced DEF Exact, p
  <2>3. \/ Room(in.held) /\ in' = Answer(h, "PUBREC", p.mid)
        \/ ~Room(in.held) /\ in' = in
    BY <1>2, <1>10, <2>2 DEF HandlePublish
  <2>4. CASE Room(in.held) /\ in' = Answer(h, "PUBREC", p.mid)
    <3>1. /\ in.held \in Seq(Held) /\ h.held = Append(in.held, e)
          /\ h.delivered = in.delivered /\ h.packets = in.packets
      BY <1>1 DEF Receiver
    <3>2. /\ in'.held = h.held /\ in'.delivered = h.delivered
          /\ in'.packets = Append(h.packets, Packet("PUBREC", p.mid))
      <4>1. h \in Receiver
        <5>1. RowsKnown(in) /\ p.id \in Ids
          BY <1>6, <1>10, PublishPacket, ExactFacts DEF OrderInd
        <5> QED
          BY <1>1, <1>7, <2>4, <5>1, HeldTypes
      <4> HIDE DEF h
      <4> QED
        BY <1>7, <2>4, <4>1, AnswerTypes
    <3> HIDE DEF h
    <3>3. e.id = p.id /\ e.mid = p.mid
      OBVIOUS
    <3> HIDE DEF e
    <3>4. /\ in'.held = Append(in.held, e)
          /\ in'.packets = Append(in.packets, Packet("PUBREC", p.mid))
      BY <3>1, <3>2
    <3>5. InSequence(t, in')
      BY <1>1, <1>2, <1>4, <1>5, <2>1, <2>2, <3>3, <3>4, SequenceQos2 DEF p
    <3>6. FirstsUp(in')
      BY <1>5, <3>1, <3>2 DEF FirstsUp
    <3>7. Len(in'.held) # 0
      BY <3>1, <3>4, LenProperties, AppendProperties
    <3> QED
      BY <1>9, <3>5, <3>6, <3>7
  \* A connection that it closes would end with all that it can hold.
  <2>5. CASE ~Room(in.held) /\ in' = in
    <3>1. MaxInflight > 0 /\ MaxInflight \in Nat /\ Len(in.held) # 0
      BY <2>5, MqttAssumption DEF Room, ExactFits, WindowFits
    <3>2. link' # "open"
      BY <1>2, <1>10, <2>2, <2>5 DEF HandlePublish
    <3> QED
      BY <2>5, <3>1, <3>2 DEF ExactInd
  <2> QED
    BY <2>3, <2>4, <2>5
<1>11. ASSUME p.type = "PUBREL", found = {}
       PROVE  InSequence(t, in') /\ FirstsUp(in') /\ StillSent(t, in')
  <2> DEFINE e == Packet("PUBCOMP", p.mid)
  <2>1. in' = Answer(in, "PUBCOMP", p.mid)
    BY <1>2, <1>11 DEF HandlePubrel
  <2>2. /\ in' \in Receiver /\ in'.held = in.held /\ in'.delivered = in.delivered
        /\ in'.packets = Append(in.packets, e)
    BY <1>1, <1>7, <2>1, AnswerTypes
  <2>3. e.type # "PUBREC"
    BY DEF Packet
  <2> HIDE DEF e
  <2>4. HeldOf(in, in')
    BY <2>2 DEF HeldOf
  <2>5. InSequence(t, in')
    BY <1>1, <1>2, <1>4, <1>5, <2>2, <2>3, <2>4, SequenceRead
  <2>6. FirstsUp(in')
    BY <1>5, <2>2 DEF FirstsUp
  <2>7. in'.delivered \in [Ids -> Nat]
    BY <2>2 DEF Receiver
  <2>8. p.type = "PUBLISH" /\ conf.qos[p.id] = 1 => in'.delivered[p.id] > 0
    BY <1>11
  <2>9. \A i \in Ids : in.delivered[i] > 0 => in'.delivered[i] > 0
    BY <2>2
  <2>10. StillSent(t, in')
    BY <1>1, <1>2, <1>4, <1>5, <2>7, <2>8, <2>9, ReadSends DEF p
  <2> QED
    BY <2>5, <2>6, <2>10
<1>12. ASSUME p.type = "PUBREL", found # {}
       PROVE  InSequence(t, in') /\ FirstsUp(in') /\ link' # "senderCloses"
  <2>1. in' = Answer(Deliver([in EXCEPT !.held = RemoveAt(@, x)], in.held[x].id),
                     "PUBCOMP", p.mid)
    BY <1>2, <1>12 DEF HandlePubrel
  <2>2. Len(in.held) # 0
    <3>1. in.held \in Seq(Held)
      BY <1>1 DEF Receiver
    <3>2. found \subseteq DOMAIN in.held /\ DOMAIN in.held = 1..Len(in.held)
      BY <3>1, LenProperties DEF WithMid
    <3> QED
      BY <1>12, <3>2
  <2>3. link = "open"
    BY <1>1, <1>2, <2>2 DEF ExactInd
  <2>4. \A id \in Ids : id > accepted => out.state[id] = "none"
    BY <1>1
  <2>5. Covered(out, Pipe(in.packets, out), Len(out.inflight))
    BY <1>5, <2>3
  <2>6. InSequence(t, in') /\ FirstsUp(in')
    BY <1>1, <1>2, <1>4, <1>5, <1>12, <2>1, <2>4, <2>5, OrderReleased DEF p
  <2> QED
    BY <1>9, <2>2, <2>6
<1> QED
  BY <1>2, <1>7, <1>8, <1>10, <1>11, <1>12

\* a new connection,
LEMMA OrderConnect ==
  ASSUME ExactFits, OrderInd, ExactInd', Connect
  PROVE  OrderInd'
<1> DEFINE s == [out EXCEPT !.lastMid = IF conf.server THEN savedMid ELSE 0]
           t == Release(Load(s), TRUE)
<1>1. /\ ExactInd /\ ConfType /\ out \in Sender /\ MaxInflight > 0
      /\ (IF conf.server THEN savedMid ELSE 0) \in 0..MaxMid
  BY MqttAssumption DEF OrderInd, ExactInd, MatchInd, TypeInd, ExactFits, WindowFits
<1>2. /\ link = "closed" /\ link' = "open" /\ out' = t /\ conf' = conf /\ in' = in
  BY DEF Connect
<1>3. out.packets = <<>> /\ in.packets = <<>> /\ Len(in.held) = 0
  BY <1>1, <1>2 DEF ExactInd, MatchInd
<1>4. Len(in.packets) = 0
  BY <1>3, EmptySeq
<1>5. s \in Sender /\ s.packets = <<>>
  BY <1>1, <1>3 DEF Sender
<1> HIDE DEF s
<1>6. InSequence(t, in)
  BY <1>1, <1>3, <1>4, <1>5, ConnectSequence
<1> HIDE DEF t
<1>7. conf.server => FirstsUp(in)
  BY DEF OrderInd
<1> QED
  BY <1>2, <1>6, <1>7, OrderKept

\* and the end of one.
LEMMA OrderEnds ==
  ASSUME ExactFits, OrderInd, ExactInd', Close \/ Disconnect \/ BrokerCrashes
  PROVE  OrderInd'
<1>1. ExactInd /\ out \in Sender /\ in \in Receiver /\ cleanStart = FALSE
  BY DEF OrderInd, ExactInd, MatchInd, TypeInd
<1>2. CASE Close
  <2>1. link = "open" /\ conf' = conf /\ out' = out /\ in' = in
    BY <1>2 DEF Close
  <2>2. conf.server => InSequence(out, in) /\ FirstsUp(in) /\ StillSent(out, in)
    BY <2>1, OrderFacts
  <2> QED
    BY <2>1, <2>2, OrderKept
<1>3. CASE Disconnect \/ BrokerCrashes
  <2> DEFINE o == Forgotten(out)
             i == [in EXCEPT !.packets = <<>>]
  <2>1. conf' = conf /\ out' = o /\ in' = i /\ link' = "closed"
    BY <1>1, <1>3 DEF Disconnect, BrokerCrashes
  <2>2. o.packets = <<>> /\ i.packets = <<>> /\ i.delivered = in.delivered
    BY <1>1, ForgottenTypes DEF Receiver
  <2> HIDE DEF o, i
  <2>3. Len(o.packets) = 0 /\ Len(i.packets) = 0
    BY <2>2, EmptySeq
  <2>4. InSequence(o, i)
    BY <2>3, SequenceEmpty
  <2>5. conf.server => FirstsUp(i)
    BY <2>2 DEF FirstsUp, OrderInd
  <2> QED
    BY <2>1, <2>4, <2>5, OrderKept
<1> QED
  BY <1>2, <1>3

\* No step breaks it,
LEMMA OrderStep == ExactFits /\ OrderInd /\ [Next]_vars => OrderInd'
<1> SUFFICES ASSUME ExactFits, OrderInd, [Next]_vars PROVE OrderInd'
  OBVIOUS
<1>1. ExactInd'
  BY ExactStep DEF OrderInd
<1>2. CASE Accept
  BY <1>1, <1>2, OrderAccept
<1>3. CASE ReceiverReads
  BY <1>1, <1>3, OrderReceiver
<1>4. CASE SenderReads
  BY <1>1, <1>4, OrderSender
<1>5. CASE Connect
  BY <1>1, <1>5, OrderConnect
<1>6. CASE Close \/ Disconnect \/ BrokerCrashes
  BY <1>1, <1>6, OrderEnds
<1>7. CASE UNCHANGED vars
  BY <1>1, <1>7, OrderKept DEF OrderInd, vars
<1> QED
  BY <1>2, <1>3, <1>4, <1>5, <1>6, <1>7 DEF Next

\* and it says that nothing overtakes.
LEMMA OrderTells == OrderInd => InOrder
BY DEF OrderInd, FirstsUp, InOrder

\* Under the same conditions, of the broker's messages of one QoS, none reaches the
\* receiver for the first time before those that the broker took before it: the
\* window is filled from the head of the queue, a reconnection takes the rows in
\* their order, PUBLISH, PUBREC and PUBREL go round in that order, and what is sent
\* again was on its way first (new_msg, tr2q_load, db__message_delete_outgoing,
\* message__release_to_inflight).
THEOREM MqttInOrder ==
  ASSUME MaxInflight > 0, MaxMid >= 2 * MaxInflight - 1,
         BreaksInExchange = FALSE \/ 2 \notin QosLevels,
         RoutesWhileClosing = FALSE, CleanStarts = {FALSE}
  PROVE  Spec => []InOrder
<1>1. ExactFits
  BY DEF ExactFits, WindowFits
<1>2. Init => OrderInd
  BY <1>1, OrderStarts
<1>3. OrderInd /\ [Next]_vars => OrderInd'
  BY <1>1, OrderStep
<1> QED
  BY <1>2, <1>3, OrderTells, PTL DEF Spec
=============================================================================
