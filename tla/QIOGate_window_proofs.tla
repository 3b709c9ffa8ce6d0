----------------------- MODULE QIOGate_window_proofs -----------------------
(***************************************************************************)
(* Proofs about what the gate of QIOGate keeps in memory of a connection:  *)
(* the soft marks, the count pending_acks, the cursor last_msg_sent, and   *)
(* about the order in which it sends.                                      *)
(*                                                                         *)
(* WindowRespected holds whatever happens.  The rest does not survive a    *)
(* TLS write that fails inside a batch (the loop goes on with what the     *)
(* close has just reset), and is proved of the behaviours without.         *)
(***************************************************************************)
EXTENDS QIOGate_proofs

-----------------------------------------------------------------------------
(* What a batch takes. *)

\* The rows that come first in a set.
IsFirstOf(rows, S) == rows \subseteq S /\ \A r \in rows, x \in S : x < r => x \in rows

LEMMA MaxAcksType ==
  ASSUME GateTypes
  PROVE  maxAcks \in Nat
BY GateAssumption DEF GateTypes

\* The rows to send, and those before one of them, are finitely many.
LEMMA UnsentFinite ==
  ASSUME NEW n \in Nat, NEW S \in SUBSET (1..n), NEW r
  PROVE  /\ IsFiniteSet({x \in S : x < r})
         /\ Cardinality({x \in S : x < r}) \in Nat
<1>1. {x \in S : x < r} \in SUBSET (1..n)
  OBVIOUS
<1> QED
  BY <1>1, RowsFinite

\* A batch takes the first rows of those not sent.
LEMMA BatchIsFirst ==
  ASSUME maxAcks \in Nat, NEW n \in Nat, NEW queue \in SUBSET (1..n),
         NEW marks, NEW cursor \in Nat, NEW inflight \in Nat,
         \A r \in queue \ marks : cursor < r
  PROVE  IsFirstOf(Batch(queue, marks, cursor, inflight), queue \ marks)
<1> DEFINE unsent == {r \in queue \ marks : r >= cursor}
           before(r) == {x \in unsent : x < r}
<1>1. unsent \in SUBSET (1..n)
  OBVIOUS
<1>2. \A r \in queue \ marks : r \in unsent
  OBVIOUS
<1>3. Batch(queue, marks, cursor, inflight)
        = {r \in unsent : Room(inflight + Cardinality(before(r)))}
  BY DEF Batch
<1>4. ASSUME NEW r \in unsent, NEW x \in unsent, x < r,
             Room(inflight + Cardinality(before(r)))
      PROVE  Room(inflight + Cardinality(before(x)))
  <2>1. /\ IsFiniteSet(before(r)) /\ Cardinality(before(r)) \in Nat
        /\ Cardinality(before(x)) \in Nat
    BY <1>1, UnsentFinite
  <2>2. before(x) \in SUBSET before(r)
    BY <1>1, <1>4
  <2>3. Cardinality(before(x)) <= Cardinality(before(r))
    BY <2>1, <2>2, FS_Subset
  <2> HIDE DEF before
  <2> QED
    BY <1>4, <2>1, <2>3 DEF Room
<1> HIDE DEF unsent, before
<1>5. Batch(queue, marks, cursor, inflight) \subseteq queue \ marks
  BY BatchRows
<1> QED
  BY <1>2, <1>3, <1>4, <1>5 DEF IsFirstOf

\* With nothing in flight a batch sends at least the first message.
LEMMA BatchTakesHead ==
  ASSUME maxAcks \in Nat, NEW n \in Nat, NEW queue \in SUBSET (1..n), queue # {}
  PROVE  Batch(queue, {}, 0, 0) # {}
<1>1. queue \in SUBSET Nat
  OBVIOUS
<1>2. PICK m \in queue : \A x \in queue : m <= x
  BY <1>1, MinExists
<1> DEFINE unsent == {r \in queue \ {} : r >= 0}
           before == {x \in unsent : x < m}
<1>3. m \in unsent /\ before = {}
  <2>1. m \in Nat /\ \A x \in queue : x \in Nat /\ ~ (x < m)
    BY <1>1, <1>2
  <2>2. m \in unsent
    BY <2>1
  <2>3. \A x \in unsent : ~ (x < m)
    BY <2>1
  <2> QED
    BY <2>2, <2>3
<1>4. Cardinality(before) = 0
  BY <1>3, FS_EmptySet
<1> HIDE DEF before
<1>5. Room(0 + Cardinality(before))
  BY <1>4 DEF Room
<1> QED
  BY <1>3, <1>5 DEF Batch, before

\* A batch that sends does not go past max_pending_acks.
LEMMA BatchFits ==
  ASSUME maxAcks \in Nat \ {0}, NEW n \in Nat, NEW queue \in SUBSET (1..n),
         NEW marks, NEW cursor \in Nat, NEW inflight \in Nat,
         Batch(queue, marks, cursor, inflight) # {}
  PROVE  inflight + Cardinality(Batch(queue, marks, cursor, inflight)) <= maxAcks
<1> DEFINE rows == Batch(queue, marks, cursor, inflight)
           unsent == {r \in queue \ marks : r >= cursor}
<1>1. unsent \in SUBSET (1..n) /\ rows \subseteq unsent
  BY DEF Batch
<1>2. PICK m \in rows : \A x \in rows : x <= m
  <2>1. rows \in SUBSET (0..n) /\ rows # {}
    BY <1>1
  <2> QED
    BY <2>1, MaxExists
<1> DEFINE before == {x \in unsent : x < m}
<1>3. Room(inflight + Cardinality(before))
  BY DEF Batch
<1>4. IsFiniteSet(before) /\ Cardinality(before) \in Nat
  BY <1>1, UnsentFinite
<1>5. rows \in SUBSET (before \cup {m})
  BY <1>1, <1>2
<1> HIDE DEF rows, unsent, before
<1>6. /\ IsFiniteSet(before \cup {m})
      /\ Cardinality(before \cup {m}) \in Nat
      /\ Cardinality(before \cup {m}) <= Cardinality(before) + 1
  <2>1. /\ IsFiniteSet(before \cup {m})
        /\ Cardinality(before \cup {m}) =
             IF m \in before THEN Cardinality(before) ELSE Cardinality(before) + 1
    BY <1>4, FS_AddElement
  <2> QED
    BY <1>4, <2>1
<1>7. Cardinality(rows) <= Cardinality(before \cup {m}) /\ Cardinality(rows) \in Nat
  BY <1>5, <1>6, FS_Subset, FS_CardinalityType
<1>8. inflight + Cardinality(before) < maxAcks
  BY <1>3 DEF Room
<1>9. inflight + Cardinality(rows) <= maxAcks
  BY <1>4, <1>6, <1>7, <1>8
<1> QED
  BY <1>9 DEF rows

-----------------------------------------------------------------------------
(***************************************************************************)
(* The window.  The count may be more than the rows that are marked (after *)
(* a stop, and after a TLS write that failed), never less.                 *)
(***************************************************************************)
CountCovers == IsFiniteSet(marked) /\ Cardinality(marked) <= pending

\* A send marks at most as many rows as it counts.
LEMMA SendCovers ==
  ASSUME NEW n \in Nat, NEW rows \in SUBSET (1..n), NEW marks, IsFiniteSet(marks),
         NEW inflight \in Nat, Cardinality(marks) <= inflight, NEW cursor,
         Send(rows, marks, cursor, inflight)
  PROVE  /\ CountCovers'
         /\ pending' = inflight + Cardinality(rows)
         /\ Cardinality(marked') \in Nat
         /\ rows = {} => marked' = marks
<1>1. marked' = marks \cup rows /\ pending' = inflight + Cardinality(rows)
  BY DEF Send
<1>2. IsFiniteSet(rows) /\ Cardinality(rows) \in Nat /\ Cardinality(marks) \in Nat
  BY RowsFinite, FS_CardinalityType
<1>3. /\ IsFiniteSet(marked')
      /\ Cardinality(marked') =
           Cardinality(marks) + Cardinality(rows) - Cardinality(marks \cap rows)
  BY <1>1, <1>2, FS_Union
<1>4. Cardinality(marks \cap rows) \in Nat /\ Cardinality(marked') \in Nat
  BY <1>2, <1>3, FS_Intersection, FS_CardinalityType
<1>5. Cardinality(marked') <= pending'
  BY <1>1, <1>2, <1>3, <1>4
<1> QED
  BY <1>1, <1>3, <1>4, <1>5 DEF CountCovers

\* The step of WindowRespected.
WindowStep == marked' \subseteq marked \/ maxAcks = 0 \/ Cardinality(marked') <= maxAcks

LEMMA BatchCovers ==
  ASSUME maxAcks \in Nat, NEW n \in Nat, NEW queue \in SUBSET (1..n),
         NEW marks, marks \subseteq marked, IsFiniteSet(marks),
         NEW inflight \in Nat, Cardinality(marks) <= inflight, NEW cursor \in Nat,
         SendBatch(queue, marks, cursor, inflight)
  PROVE  CountCovers' /\ WindowStep
<1> DEFINE batch == Batch(queue, marks, cursor, inflight)
           rows == IF opened' THEN batch ELSE {}
<1>1. Send(rows, marks, cursor, inflight)
  BY DEF SendBatch
<1>2. batch \subseteq queue
  BY BatchRows
<1>3. rows \in SUBSET (1..n)
  BY <1>2
<1>4. batch # {} /\ maxAcks # 0 => inflight + Cardinality(batch) <= maxAcks
  BY BatchFits
<1> HIDE DEF batch
<1>5. rows # {} /\ maxAcks # 0 => inflight + Cardinality(rows) <= maxAcks
  BY <1>4
<1> HIDE DEF rows
<1>6. /\ CountCovers' /\ pending' = inflight + Cardinality(rows)
      /\ Cardinality(marked') \in Nat
      /\ rows = {} => marked' = marks
  BY <1>1, <1>3, SendCovers
<1>7. Cardinality(rows) \in Nat
  BY <1>3, RowsFinite
<1> QED
  BY <1>5, <1>6, <1>7 DEF CountCovers, WindowStep

\* The message of an ack leaves the marks and the count together.
LEMMA AckCovers ==
  ASSUME CountCovers, pending \in Nat, NEW r
  PROVE  /\ IsFiniteSet(marked \ {r})
         /\ PendingAfter(r) \in Nat
         /\ Cardinality(marked \ {r}) <= PendingAfter(r)
<1>1. /\ IsFiniteSet(marked \ {r})
      /\ Cardinality(marked \ {r}) =
           IF r \in marked THEN Cardinality(marked) - 1 ELSE Cardinality(marked)
      /\ Cardinality(marked) \in Nat
      /\ Cardinality(marked \ {r}) \in Nat
  BY FS_RemoveElement, FS_CardinalityType DEF CountCovers
<1> QED
  BY <1>1 DEF CountCovers, PendingAfter

\* A batch that breaks begins to count again.
LEMMA BreakCovers ==
  ASSUME NEW n \in Nat, NEW queue \in SUBSET (1..n), maxAcks \in Nat, pending \in Nat,
         NEW marks, NEW cursor, NEW inflight,
         BreakBatch(queue, marks, cursor, inflight)
  PROVE  CountCovers' /\ WindowStep
<1> DEFINE batch == Batch(queue, marks, cursor, inflight)
<1>1. \E first \in batch :
        LET rest == Batch(queue, {first}, first, 1) IN
        /\ marked' = {first} \cup rest
        /\ pending' = 1 + Cardinality(rest)
  BY DEF BreakBatch
<1>2. PICK first \in batch :
        LET rest == Batch(queue, {first}, first, 1) IN
        /\ marked' = {first} \cup rest
        /\ pending' = 1 + Cardinality(rest)
  BY <1>1
<1> DEFINE rest == Batch(queue, {first}, first, 1)
<1>3. first \in 1..n /\ rest \in SUBSET (1..n)
  <2>1. batch \subseteq queue /\ rest \subseteq queue
    BY BatchRows
  <2> HIDE DEF batch, rest
  <2> QED
    BY <2>1
<1>4. rest # {} /\ maxAcks # 0 => 1 + Cardinality(rest) <= maxAcks
  <2>1. first \in Nat /\ 1 \in Nat
    BY <1>3
  <2> QED
    BY <2>1, BatchFits
<1>5. marked' = {first} \cup rest /\ pending' = 1 + Cardinality(rest)
  BY <1>2
<1> HIDE DEF rest, batch
<1>6. /\ IsFiniteSet(rest) /\ Cardinality(rest) \in Nat
      /\ rest = {} => Cardinality(rest) = 0
  BY <1>3, RowsFinite, FS_EmptySet
<1>7. /\ IsFiniteSet(marked') /\ Cardinality(marked') \in Nat
      /\ Cardinality(marked') <= 1 + Cardinality(rest)
  <2>1. marked' = rest \cup {first}
    BY <1>5
  <2>2. /\ IsFiniteSet(rest \cup {first})
        /\ Cardinality(rest \cup {first}) =
             IF first \in rest THEN Cardinality(rest) ELSE Cardinality(rest) + 1
    BY <1>6, FS_AddElement
  <2> QED
    BY <1>6, <2>1, <2>2
<1> QED
  BY <1>4, <1>5, <1>6, <1>7 DEF CountCovers, WindowStep

LEMMA CountCoversInit == Init => CountCovers
BY FS_EmptySet DEF Init, CountCovers

LEMMA CountCoversNext ==
  ASSUME TrqInd, TrqInd', GateTypes, CountCovers, [Next]_vars
  PROVE  CountCovers' /\ WindowStep
<1>0. /\ Len(topic') \in Nat /\ q' \in SUBSET (1..Len(topic'))
      /\ Len(topic) \in Nat /\ q \in SUBSET (1..Len(topic))
      /\ maxAcks \in Nat /\ lastSent \in Nat /\ pending \in Nat
      /\ IsFiniteSet({}) /\ Cardinality({}) = 0
  <2>1. Len(topic) \in Nat /\ q \in SUBSET (1..Len(topic))
    BY TopicShape DEF TrqInd, QueueIsPending
  <2> QED
    BY <2>1, RowsAfter, MaxAcksType, FS_EmptySet DEF GateTypes
<1>1. ASSUME UNCHANGED <<marked, pending>>
      PROVE  CountCovers' /\ WindowStep
  BY <1>1 DEF CountCovers, WindowStep
<1>2. ASSUME marked' = {}, pending' \in Nat
      PROVE  CountCovers' /\ WindowStep
  BY <1>0, <1>2 DEF CountCovers, WindowStep
<1>3. CASE MtStart \/ BackupStep \/ Admin \/ SetMaxAcks \/ LinkBreaks \/ PeerReads
             \/ PeerRefuses \/ PeerAnswers \/ PeerCrashes \/ UNCHANGED vars
  BY <1>1, <1>3
     DEF MtStart, BackupStep, Admin, SetMaxAcks, LinkBreaks, PeerReads, PeerRefuses,
         PeerAnswers, PeerCrashes, vars, gateVars
<1>4. CASE MtStop \/ Crash \/ OnClose
  BY <1>0, <1>2, <1>4 DEF MtStop, Crash, OnClose, ResetSoftQueue
<1>5. CASE OnOpen \/ Timeout
  BY <1>0, <1>5, BatchCovers DEF OnOpen, Timeout, CountCovers
<1>6. CASE SendMessage
  <2>1. CASE SendsNow
    <3>1. /\ Send({Len(topic')}, marked, lastSent, pending)
          /\ {Len(topic')} \in SUBSET (1..Len(topic'))
      <4>1. Len(topic') \in q'
        BY <1>6 DEF SendMessage, TrqAppend
      <4> QED
        BY <1>0, <1>6, <2>1, <4>1 DEF SendMessage
    <3>2. Room(pending)
      BY <2>1 DEF SendsNow
    <3>3. Cardinality({Len(topic')}) = 1
      BY FS_Singleton
    <3>4. /\ CountCovers' /\ pending' = pending + 1
          /\ Cardinality(marked') \in Nat
      BY <1>0, <3>1, <3>3, SendCovers DEF CountCovers
    <3> QED
      BY <1>0, <3>2, <3>4 DEF Room, CountCovers, WindowStep
  <2>2. CASE ~SendsNow
    BY <1>1, <1>6, <2>2 DEF SendMessage
  <2> QED
    BY <2>1, <2>2
<1>7. CASE ProcessAck
  <2> DEFINE r == Head(acks).rowid
  <2>1. SendBatch(q \ {r}, marked \ {r}, CursorAfter(r), PendingAfter(r))
    BY <1>7 DEF ProcessAck
  <2> HIDE DEF r
  <2>2. q \ {r} \in SUBSET (1..Len(topic)) /\ marked \ {r} \subseteq marked
    BY <1>0
  <2>3. CursorAfter(r) \in Nat
    BY <1>0 DEF CursorAfter
  <2> QED
    BY <1>0, <2>1, <2>2, <2>3, AckCovers, BatchCovers
<1>8. CASE ProcessAckBreaks \/ OnOpenBreaks
  <2>1. PICK queue \in SUBSET q :
          \E marks, cursor, inflight : BreakBatch(queue, marks, cursor, inflight)
    BY <1>8 DEF ProcessAckBreaks, OnOpenBreaks
  <2>2. queue \in SUBSET (1..Len(topic))
    BY <1>0, <2>1
  <2> QED
    BY <1>0, <2>1, <2>2, BreakCovers
<1> QED
  BY <1>3, <1>4, <1>5, <1>6, <1>7, <1>8 DEF Next

(***************************************************************************)
(* No step takes the messages sent and not acknowledged past               *)
(* max_pending_acks, in any behaviour: also when the attribute was lowered *)
(* under more in flight, after a stop in an old connection, and when a TLS *)
(* write fails inside a batch (c_qiogate.c send_batch_messages).           *)
(***************************************************************************)
THEOREM GateWindow == Spec => WindowRespected
<1>1. TrqInd /\ TrqInd' /\ GateTypes /\ CountCovers /\ [Next]_vars
        => CountCovers' /\ [WindowStep]_vars
  BY CountCoversNext
<1> QED
  BY <1>1, GateInvariants, CountCoversInit, PTL
  DEF Spec, WindowRespected, WindowStep

-----------------------------------------------------------------------------
(***************************************************************************)
(* The bookkeeping of one connection.  It is empty when the connection is  *)
(* closed; while the gate's timer runs, which is from the open to the      *)
(* close unless the gate stops in between, the count is exact and the      *)
(* cursor leaves nothing unsent behind.  The marks are always the first    *)
(* rows of the list, also in what remains of a connection after a stop.    *)
(***************************************************************************)
Firsts(marks, queue) ==
    marks \subseteq queue /\ \A r \in marks, x \in queue : x < r => x \in marks

CursorBehind(cursor, marks, queue) ==
    cursor \in queue \cup {0} /\ \A r \in queue \ marks : cursor < r

WindowInd ==
    /\ link = "closed" =>
         ~opened /\ ~timer /\ marked = {} /\ pending = 0 /\ lastSent = 0
    /\ link = "open" => trqOpen /\ opened /\ timer /\ (q = {} \/ marked # {})
    /\ timer =>
         /\ trqOpen
         /\ CursorBehind(lastSent, marked, q)
         /\ pending = Cardinality(marked)
    /\ Firsts(marked, q)

\* A send of the first unsent rows keeps the marks first.
LEMMA SendFirsts ==
  ASSUME NEW queue, NEW marks, Firsts(marks, queue),
         NEW rows, IsFirstOf(rows, queue \ marks), NEW cursor, NEW inflight,
         Send(rows, marks, cursor, inflight)
  PROVE  Firsts(marked', queue)
<1>1. marked' = marks \cup rows
  BY DEF Send
<1> QED
  BY <1>1 DEF Firsts, IsFirstOf

\* And it leaves the cursor behind all that is left, the count exact.
LEMMA SendSound ==
  ASSUME NEW n \in Nat, NEW queue \in SUBSET (1..n), NEW marks \in SUBSET queue,
         NEW rows, IsFirstOf(rows, queue \ marks),
         NEW cursor, CursorBehind(cursor, marks, queue),
         Send(rows, marks, cursor, Cardinality(marks))
  PROVE  CursorBehind(lastSent', marked', queue) /\ pending' = Cardinality(marked')
<1>1. /\ marked' = marks \cup rows
      /\ pending' = Cardinality(marks) + Cardinality(rows)
      /\ lastSent' = Last(rows, cursor)
  BY DEF Send
<1>2. rows \in SUBSET (1..n) /\ rows \in SUBSET (0..n) /\ marks \cap rows = {}
  BY DEF IsFirstOf
<1>3. pending' = Cardinality(marked')
  <2>1. /\ IsFiniteSet(rows) /\ Cardinality(rows) \in Nat
        /\ IsFiniteSet(marks) /\ Cardinality(marks) \in Nat
    BY <1>2, RowsFinite
  <2>2. Cardinality(marks \cup rows) = Cardinality(marks) + Cardinality(rows) - 0
    BY <1>2, <2>1, FS_Union, FS_EmptySet
  <2> QED
    BY <1>1, <2>1, <2>2
<1>4. CursorBehind(lastSent', marked', queue)
  <2>1. CASE rows = {}
    BY <1>1, <1>2, <2>1, LastProperties
  <2>2. CASE rows # {}
    <3>1. lastSent' \in rows /\ \A x \in rows : x <= lastSent'
      BY <1>1, <1>2, <2>2, LastProperties
    <3>2. ASSUME NEW x \in queue \ marked' PROVE lastSent' < x
      <4>1. ~ (x < lastSent') /\ x # lastSent'
        BY <1>1, <3>1, <3>2 DEF IsFirstOf
      <4>2. x \in Nat /\ lastSent' \in Nat
        BY <1>2, <3>1
      <4> QED
        BY <4>1, <4>2
    <3> QED
      BY <3>1, <3>2 DEF CursorBehind, IsFirstOf
  <2> QED
    BY <2>1, <2>2
<1> QED
  BY <1>3, <1>4

\* What a batch leaves, from a sound state of the bookkeeping.
LEMMA BatchSound ==
  ASSUME maxAcks \in Nat, NEW n \in Nat, NEW queue \in SUBSET (1..n),
         NEW marks, Firsts(marks, queue),
         NEW cursor, CursorBehind(cursor, marks, queue),
         NEW inflight, inflight = Cardinality(marks), opened',
         SendBatch(queue, marks, cursor, inflight)
  PROVE  /\ Firsts(marked', queue)
         /\ CursorBehind(lastSent', marked', queue)
         /\ pending' = Cardinality(marked')
         /\ queue = {} \/ marked' # {}
<1> DEFINE rows == Batch(queue, marks, cursor, inflight)
<1>1. Send(rows, marks, cursor, inflight)
  BY DEF SendBatch
<1>2. marks \in SUBSET queue /\ marks \in SUBSET (1..n)
  BY DEF Firsts
<1>3. inflight \in Nat
  BY <1>2, RowsFinite
<1>4. cursor \in Nat /\ \A r \in queue \ marks : cursor < r
  BY DEF CursorBehind
<1>5. IsFirstOf(rows, queue \ marks)
  BY <1>3, <1>4, BatchIsFirst
<1>6. queue = {} \/ marked' # {}
  <2>1. marked' = marks \cup rows
    BY <1>1 DEF Send
  <2>2. CASE marks = {} /\ queue # {}
    <3>1. cursor = 0
      BY <1>4, <2>2 DEF CursorBehind
    <3>2. inflight = 0
      BY <2>2, FS_EmptySet
    <3>3. rows # {}
      BY <2>2, <3>1, <3>2, BatchTakesHead
    <3> QED
      BY <2>1, <3>3
  <2> QED
    BY <2>1, <2>2
<1> HIDE DEF rows
<1> QED
  BY <1>1, <1>2, <1>5, <1>6, SendFirsts, SendSound

\* The ack of row r leaves a sound state, whichever row it names.
LEMMA AckSound ==
  ASSUME NEW n \in Nat, q \in SUBSET (1..n), Firsts(marked, q),
         CursorBehind(lastSent, marked, q), pending = Cardinality(marked), NEW r
  PROVE  /\ Firsts(marked \ {r}, q \ {r})
         /\ CursorBehind(CursorAfter(r), marked \ {r}, q \ {r})
         /\ PendingAfter(r) = Cardinality(marked \ {r})
<1>1. Firsts(marked \ {r}, q \ {r})
  BY DEF Firsts
<1>2. CursorBehind(CursorAfter(r), marked \ {r}, q \ {r})
  BY DEF CursorBehind, CursorAfter
<1>3. marked \in SUBSET (1..n)
  BY DEF Firsts
<1>4. IsFiniteSet(marked) /\ Cardinality(marked) \in Nat
  BY <1>3, RowsFinite
<1>5. /\ Cardinality(marked \ {r}) =
           IF r \in marked THEN Cardinality(marked) - 1 ELSE Cardinality(marked)
      /\ r \in marked => Cardinality(marked) # 0
  BY <1>4, FS_RemoveElement, FS_EmptySet
<1>6. PendingAfter(r) = Cardinality(marked \ {r})
  BY <1>4, <1>5 DEF PendingAfter
<1> QED
  BY <1>1, <1>2, <1>6

\* A message sent on its own: all those before it are marked.
LEMMA NewRowFirst ==
  ASSUME TrqTypeOK, QueueIsPending, TrqAppend, PrevIsSent, Firsts(marked, q)
  PROVE  /\ marked = q
         /\ Firsts(marked, q')
         /\ IsFirstOf({Len(topic')}, q' \ marked)
<1>1. /\ Len(topic) \in Nat /\ q \in SUBSET (1..Len(topic))
      /\ q \in SUBSET (0..Len(topic))
  BY TopicShape DEF QueueIsPending
<1>2. marked = q
  <2>1. CASE q = {}
    BY <2>1 DEF Firsts
  <2>2. CASE q # {}
    <3>1. Last(q, 0) \in q /\ \A x \in q : x <= Last(q, 0)
      BY <1>1, <2>2, LastProperties
    <3>2. Last(q, 0) \in marked
      BY <2>2 DEF PrevIsSent
    <3>3. ASSUME NEW x \in q PROVE x \in marked
      <4>1. x \in 1..Len(topic) /\ Last(q, 0) \in 1..Len(topic)
        BY <1>1, <3>1
      <4>2. x <= Last(q, 0)
        BY <3>1
      <4>3. x = Last(q, 0) \/ x < Last(q, 0)
        BY <1>1, <4>1, <4>2
      <4> QED
        BY <3>2, <4>3 DEF Firsts
    <3> QED
      BY <3>3 DEF Firsts
  <2> QED
    BY <2>1, <2>2
<1>3. q' = q \cup {Len(topic')} /\ Len(topic') = Len(topic) + 1
  BY AppendedRow
<1>4. \A r \in q : ~ (Len(topic') < r)
  BY <1>1, <1>3
<1>5. Firsts(marked, q')
  BY <1>2, <1>3, <1>4 DEF Firsts
<1>6. IsFirstOf({Len(topic')}, q' \ marked)
  <2>1. q' \ marked \subseteq {Len(topic')} /\ Len(topic') \notin q
    BY <1>1, <1>2, <1>3
  <2>2. Len(topic') \in q' \ marked
    BY <1>2, <1>3, <2>1
  <2> QED
    BY <2>1, <2>2 DEF IsFirstOf
<1> QED
  BY <1>2, <1>5, <1>6

LEMMA WindowIndInit == Init => WindowInd
BY DEF Init, TrqInit, WindowInd, Firsts

\* A step that leaves the list and the bookkeeping alone.
LEMMA SameWindow ==
  ASSUME WindowInd, UNCHANGED <<q, trqOpen, gateVars>>,
         UNCHANGED link \/ (link' = "dying")
  PROVE  WindowInd'
BY DEF WindowInd, gateVars, Firsts, CursorBehind

LEMMA WindowIndNext ==
  ASSUME ~TlsWriteMayFail, TrqInd, TrqInd', GateTypes, WindowInd, [Next]_vars
  PROVE  WindowInd'
<1>0. /\ Len(topic) \in Nat /\ q \in SUBSET (1..Len(topic))
      /\ maxAcks \in Nat /\ TrqTypeOK /\ QueueIsPending
  BY TopicShape, MaxAcksType DEF TrqInd, QueueIsPending
<1>1. CASE MtStart
  <2>1. ~trqOpen /\ q = {} /\ marked = {} /\ ~timer /\ link # "open"
    BY <1>1 DEF MtStart, TrqStart, TrqInd, WindowInd, Firsts
  <2>2. UNCHANGED <<gateVars, linkVars>>
    BY <1>1 DEF MtStart
  <2> QED
    BY <2>1, <2>2 DEF WindowInd, gateVars, linkVars, Firsts
<1>2. CASE MtStop
  <2>1. /\ q' = {} /\ ~timer' /\ marked' = {} /\ link' # "open"
        /\ UNCHANGED <<opened, pending>>
        /\ lastSent = 0 => lastSent' = 0
        /\ link' = "closed" => link = "closed"
    BY <1>2 DEF MtStop, TrqStop, BreakLink, GateTypes
  <2> QED
    BY <2>1 DEF WindowInd, Firsts
<1>3. CASE Crash
  BY <1>3 DEF Crash, TrqCrash, WindowInd, Firsts
<1>4. CASE OnOpen
  <2>1. /\ marked = {} /\ pending = 0 /\ lastSent = 0
        /\ opened' /\ timer' /\ link' = "open" /\ trqOpen' /\ q' = q
    BY <1>4 DEF OnOpen, Running, WindowInd, trqVars
  <2>2. SendBatch(q, {}, 0, 0)
    BY <1>4, <2>1 DEF OnOpen
  <2>3. CursorBehind(0, {}, q) /\ Firsts({}, q) /\ 0 = Cardinality({})
    BY <1>0, FS_EmptySet DEF CursorBehind, Firsts
  <2>4. /\ Firsts(marked', q) /\ CursorBehind(lastSent', marked', q)
        /\ pending' = Cardinality(marked') /\ (q = {} \/ marked' # {})
    BY <1>0, <2>1, <2>2, <2>3, BatchSound
  <2> QED
    BY <2>1, <2>4 DEF WindowInd
<1>5. CASE OnClose
  BY <1>5 DEF OnClose, ResetSoftQueue, WindowInd, Firsts
<1>6. CASE SendMessage
  <2>1. /\ TrqAppend /\ trqOpen /\ trqOpen' /\ Len(topic') \in q'
        /\ UNCHANGED <<opened, timer, link>>
    BY <1>6 DEF SendMessage, TrqAppend
  <2>2. /\ Len(topic') \in Nat /\ q' \in SUBSET (1..Len(topic'))
        /\ q' = q \cup {Len(topic')} /\ Len(topic') = Len(topic) + 1
    BY <1>0, <2>1, RowsAfter, AppendedRow
  <2>3. CASE SendsNow
    <3>1. Send({Len(topic')}, marked, lastSent, pending) /\ opened /\ PrevIsSent
      BY <1>6, <2>3 DEF SendMessage, SendsNow
    <3>2. /\ marked = q /\ Firsts(marked, q')
          /\ IsFirstOf({Len(topic')}, q' \ marked)
      BY <1>0, <2>1, <3>1, NewRowFirst DEF WindowInd
    <3>3. Firsts(marked', q') /\ marked' # {}
      BY <3>1, <3>2, SendFirsts DEF Send
    <3>4. ASSUME timer
          PROVE  CursorBehind(lastSent', marked', q') /\ pending' = Cardinality(marked')
      <4>1. pending = Cardinality(marked)
        BY <3>4 DEF WindowInd
      <4>2. CursorBehind(lastSent, marked, q')
        <5>1. lastSent \in q \cup {0}
          BY <3>4 DEF WindowInd, CursorBehind
        <5>2. q' \ marked \subseteq {Len(topic')}
          BY <2>2, <3>2
        <5>3. lastSent < Len(topic')
          BY <1>0, <2>2, <5>1
        <5> QED
          BY <2>2, <5>1, <5>2, <5>3 DEF CursorBehind
      <4> QED
        BY <2>2, <3>1, <3>2, <4>1, <4>2, SendSound DEF Firsts
    <3>5. link' # "closed"
      BY <2>1, <3>1 DEF WindowInd
    <3> QED
      BY <2>1, <3>3, <3>4, <3>5 DEF WindowInd
  <2>4. CASE ~SendsNow
    <3>1. UNCHANGED <<marked, pending, lastSent>>
      BY <1>6, <2>4 DEF SendMessage
    <3>2. Firsts(marked', q')
      <4>1. \A r \in q : ~ (Len(topic') < r)
        BY <1>0, <2>2
      <4> QED
        BY <2>2, <3>1, <4>1 DEF WindowInd, Firsts
    <3>3. ASSUME timer
          PROVE  CursorBehind(lastSent', marked', q')
      <4>1. lastSent \in q \cup {0} /\ \A r \in q \ marked : lastSent < r
        BY <3>3 DEF WindowInd, CursorBehind
      <4>2. lastSent < Len(topic')
        BY <1>0, <2>2, <4>1
      <4> QED
        BY <2>2, <3>1, <4>1, <4>2 DEF CursorBehind
    <3>4. link = "open" => marked # {}
      <4> SUFFICES ASSUME link = "open", marked = {} PROVE FALSE
        OBVIOUS
      <4>1. opened /\ q = {} /\ pending = 0
        BY FS_EmptySet DEF WindowInd
      <4>2. SendsNow
        BY <1>0, <4>1 DEF SendsNow, PrevIsSent, Room
      <4> QED
        BY <2>4, <4>2
    <3> QED
      BY <2>1, <3>1, <3>2, <3>3, <3>4 DEF WindowInd
  <2> QED
    BY <2>3, <2>4
<1>7. CASE ProcessAck
  <2> DEFINE r == Head(acks).rowid
  <2>1. /\ SendBatch(q \ {r}, marked \ {r}, CursorAfter(r), PendingAfter(r))
        /\ link = "open" /\ trqOpen /\ Dequeue(r)
        /\ UNCHANGED <<opened, link, timer>>
    BY <1>7 DEF ProcessAck, AckRead, Running
  <2> HIDE DEF r
  <2>2. q' = q \ {r} /\ trqOpen'
    BY <2>1 DEF Dequeue, TrqUnload, trqVars
  <2>3. /\ opened' /\ timer'
        /\ Firsts(marked, q) /\ CursorBehind(lastSent, marked, q)
        /\ pending = Cardinality(marked)
    BY <2>1 DEF WindowInd
  <2>4. /\ Firsts(marked \ {r}, q \ {r})
        /\ CursorBehind(CursorAfter(r), marked \ {r}, q \ {r})
        /\ PendingAfter(r) = Cardinality(marked \ {r})
    BY <1>0, <2>3, AckSound
  <2>5. q \ {r} \in SUBSET (1..Len(topic))
    BY <1>0
  <2>6. /\ Firsts(marked', q \ {r}) /\ CursorBehind(lastSent', marked', q \ {r})
        /\ pending' = Cardinality(marked') /\ (q \ {r} = {} \/ marked' # {})
    BY <1>0, <2>1, <2>3, <2>4, <2>5, BatchSound
  <2> QED
    BY <2>1, <2>2, <2>3, <2>6 DEF WindowInd
<1>8. CASE ProcessAckBreaks \/ OnOpenBreaks
  BY <1>8 DEF ProcessAckBreaks, OnOpenBreaks, BreakBatch
<1>9. CASE Timeout
  <2>1. /\ SendBatch(q, marked, lastSent, pending)
        /\ timer /\ timer' /\ trqOpen' /\ UNCHANGED <<q, opened, link>>
    BY <1>9 DEF Timeout, Running, BackupMarkEnd, trqVars
  <2>2. /\ Firsts(marked, q) /\ CursorBehind(lastSent, marked, q)
        /\ pending = Cardinality(marked) /\ link # "closed"
    BY <2>1 DEF WindowInd
  <2>3. CASE opened
    <3>1. /\ Firsts(marked', q) /\ CursorBehind(lastSent', marked', q)
          /\ pending' = Cardinality(marked') /\ (q = {} \/ marked' # {})
      BY <1>0, <2>1, <2>2, <2>3, BatchSound
    <3> QED
      BY <2>1, <2>2, <2>3, <3>1 DEF WindowInd
  <2>4. CASE ~opened
    <3>1. Send({}, marked, lastSent, pending)
      BY <2>1, <2>4 DEF SendBatch
    <3>2. IsFirstOf({}, q \ marked) /\ marked \in SUBSET q
      BY <2>2 DEF IsFirstOf, Firsts
    <3>3. /\ Firsts(marked', q) /\ CursorBehind(lastSent', marked', q)
          /\ pending' = Cardinality(marked')
      BY <1>0, <2>2, <3>1, <3>2, SendFirsts, SendSound
    <3>4. link # "open"
      BY <2>4 DEF WindowInd
    <3> QED
      BY <2>1, <2>2, <3>3, <3>4 DEF WindowInd
  <2> QED
    BY <2>3, <2>4
<1>10. CASE BackupStep
  BY <1>0, <1>10, MovedTopic, SameWindow DEF BackupStep, linkVars
<1>11. CASE Admin
  BY <1>0, <1>11, MarkedRows, SameWindow DEF Admin, linkVars
<1>12. CASE SetMaxAcks
  BY <1>12 DEF SetMaxAcks, trqVars, linkVars, WindowInd, Firsts, CursorBehind
<1>13. CASE LinkBreaks \/ PeerReads \/ PeerRefuses \/ PeerAnswers \/ PeerCrashes
  <2>1. UNCHANGED <<q, trqOpen, gateVars>> /\ (UNCHANGED link \/ link' = "dying")
    BY <1>13 DEF LinkBreaks, BreakLink, PeerReads, PeerRefuses, PeerAnswers,
                 PeerCrashes, trqVars
  <2> QED
    BY <2>1, SameWindow
<1>14. CASE UNCHANGED vars
  BY <1>14, SameWindow DEF vars, trqVars, linkVars
<1> QED
  BY <1>1, <1>2, <1>3, <1>4, <1>5, <1>6, <1>7, <1>8, <1>9, <1>10, <1>11, <1>12,
     <1>13, <1>14 DEF Next

LEMMA GateBooks ==
  ASSUME ~TlsWriteMayFail
  PROVE  Spec => []WindowInd
BY GateInvariants, WindowIndInit, WindowIndNext, PTL DEF Spec

(***************************************************************************)
(* pending_acks never drifts from the rows marked, whatever duplicated or  *)
(* late acks, resets, stops and broken connections come, as long as no TLS *)
(* write fails (c_qiogate.c dequeue_msg, reset_soft_queue).                *)
(***************************************************************************)
THEOREM GateCountIsExact ==
  ASSUME ~TlsWriteMayFail
  PROVE  Spec => []PendingAcksExact
<1>1. WindowInd /\ GateTypes => PendingAcksExact
  BY FS_EmptySet DEF WindowInd, GateTypes, PendingAcksExact
<1> QED
  BY <1>1, GateBooks, GateInvariants, PTL

(***************************************************************************)
(* The messages sent are the oldest of the list, in all these behaviours,  *)
(* so that the mark of the row before the last one tells for all           *)
(* (c_qiogate.c send_batch_messages, case of one message).                 *)
(***************************************************************************)
THEOREM GateMarksArePrefix ==
  ASSUME ~TlsWriteMayFail
  PROVE  Spec => []MarksArePrefix
<1>1. WindowInd => MarksArePrefix
  BY DEF WindowInd, Firsts, MarksArePrefix
<1> QED
  BY <1>1, GateBooks, PTL

(***************************************************************************)
(* The cursor last_msg_sent never points outside of the list when a batch  *)
(* may follow it, and never past a message not sent (c_qiogate.c           *)
(* send_batch_messages, dequeue_msg).                                      *)
(***************************************************************************)
THEOREM GateCursorSafe ==
  ASSUME ~TlsWriteMayFail
  PROVE  Spec => []CursorSafe
<1>1. TrqInd /\ GateTypes /\ WindowInd => CursorSafe
  <2> SUFFICES ASSUME TrqInd, GateTypes, WindowInd, trqOpen, link # "dying"
               PROVE  /\ lastSent \in q \cup {0}
                      /\ \A r \in q \ marked : lastSent < r
    BY DEF CursorSafe
  <2>1. CASE link = "open"
    BY <2>1 DEF WindowInd, CursorBehind
  <2>2. CASE link = "closed"
    BY <2>2, TopicShape DEF WindowInd, TrqInd, QueueIsPending
  <2> QED
    BY <2>1, <2>2 DEF GateTypes
<1> QED
  BY <1>1, GateBooks, GateInvariants, PTL

(***************************************************************************)
(* A connected gate with messages has the oldest in flight: no event is    *)
(* missing that would send it (c_qiogate.c ac_on_open, ac_send_message,    *)
(* process_ack).                                                           *)
(***************************************************************************)
THEOREM GateHeadInFlight ==
  ASSUME ~TlsWriteMayFail
  PROVE  Spec => []HeadInFlight
<1>1. TrqInd /\ WindowInd => HeadInFlight
  <2> SUFFICES ASSUME TrqInd, WindowInd, link = "open", q # {}
               PROVE  \E r \in marked : \A x \in q : r <= x
    BY DEF HeadInFlight
  <2>1. q \in SUBSET Nat /\ Firsts(marked, q) /\ marked # {}
    BY DEF TrqInd, TrqTypeOK, WindowInd
  <2>2. PICK m \in q : \A x \in q : m <= x
    BY <2>1, MinExists
  <2>3. PICK r \in marked : TRUE
    BY <2>1
  <2>4. m \in marked
    <3>1. m = r \/ m < r
      BY <2>1, <2>2, <2>3 DEF Firsts
    <3> QED
      BY <2>1, <2>2, <2>3, <3>1 DEF Firsts
  <2> QED
    BY <2>2, <2>4
<1> QED
  BY <1>1, GateBooks, GateInvariants, PTL

-----------------------------------------------------------------------------
(* What a send puts on the wire: the rows, all of them, in their order. *)

\* The sequences of InOrder(rows) leave no row out.
LEMMA InOrderCovers ==
  ASSUME NEW n \in Nat, NEW rows \in SUBSET (1..n), NEW s \in InOrder(rows)
  PROVE  /\ Cardinality(rows) \in Nat
         /\ s \in [1..Cardinality(rows) -> rows]
         /\ \A i, j \in 1..Cardinality(rows) : i < j => s[i] < s[j]
         /\ \A r \in rows : \E i \in 1..Cardinality(rows) : s[i] = r
<1> DEFINE c == Cardinality(rows)
<1>1. IsFiniteSet(rows) /\ c \in Nat
  BY RowsFinite
<1>2. /\ s \in [1..c -> rows]
      /\ \A i, j \in 1..c : i < j => s[i] < s[j]
  BY DEF InOrder
<1>3. \A i \in 1..c : s[i] \in Nat
  <2>1. \A r \in rows : r \in Nat
    OBVIOUS
  <2> HIDE DEF c
  <2> QED
    BY <1>2, <2>1
<1>4. \A i, j \in 1..c : s[i] = s[j] => i = j
  BY <1>1, <1>2, <1>3
<1>5. s \in Injection(1..c, rows)
  BY <1>2, <1>4 DEF Injection, IsInjective
<1>6. Cardinality(1..c) = c
  BY <1>1, FS_Interval
<1>7. s \in Surjection(1..c, rows)
  BY <1>1, <1>5, <1>6, FS_Injection
<1>8. \A r \in rows : \E i \in 1..c : s[i] = r
  BY <1>7 DEF Surjection
<1> QED
  BY <1>1, <1>2, <1>8

\* The message that row r sends.
Sent(r) == [rowid |-> r, id |-> topic'[r].id]

LEMMA SendOnWire ==
  ASSUME wire \in Seq(Message), NEW n \in Nat, NEW rows \in SUBSET (1..n),
         \A r \in rows : Sent(r) \in Message,
         NEW marks, NEW cursor, NEW inflight,
         Send(rows, marks, cursor, inflight), link' = "open"
  PROVE  /\ wire' \in Seq(Message) /\ Len(wire) <= Len(wire')
         /\ \A k \in 1..Len(wire) : wire'[k] = wire[k]
         /\ \A k \in 1..Len(wire') : k > Len(wire) =>
              \E r \in rows :
                /\ wire'[k] = Sent(r)
                /\ \A x \in rows : x <= r => \E j \in 1..k : wire'[j] = Sent(x)
         /\ \A r \in rows : \E k \in 1..Len(wire') : wire'[k] = Sent(r)
<1> DEFINE c == Cardinality(rows)
<1>1. PICK s \in InOrder(rows) : wire' = wire \o Messages(s)
  BY DEF Send
<1>2. /\ c \in Nat /\ s \in [1..c -> rows]
      /\ \A i, j \in 1..c : i < j => s[i] < s[j]
      /\ \A r \in rows : \E i \in 1..c : s[i] = r
  BY InOrderCovers
<1> DEFINE sent == Messages(s)
<1>3. sent = [i \in 1..c |-> Sent(s[i])]
  BY <1>2 DEF Messages, Sent
<1>4. sent \in Seq(Message) /\ Len(sent) = c /\ \A i \in 1..c : sent[i] = Sent(s[i])
  <2>1. sent \in [1..c -> Message]
    BY <1>2, <1>3
  <2>2. c \in Nat
    BY <1>2
  <2>3. \A i \in 1..c : sent[i] = Sent(s[i])
    BY ONLY <1>3
  <2> HIDE DEF sent, c
  <2>4. sent \in Seq(Message) /\ Len(sent) = c
    BY ONLY <2>1, <2>2
  <2> QED
    BY ONLY <2>3, <2>4
<1> HIDE DEF sent, c
<1>5. /\ wire' \in Seq(Message) /\ Len(wire') = Len(wire) + c
      /\ Len(wire) \in Nat
      /\ \A i \in 1..Len(wire') :
           wire'[i] = IF i <= Len(wire) THEN wire[i] ELSE sent[i - Len(wire)]
  <2>1. wire' = wire \o sent
    BY <1>1 DEF sent
  <2>2. Len(wire) \in Nat
    BY LenProperties
  <2>3. /\ wire \o sent \in Seq(Message)
        /\ Len(wire \o sent) = Len(wire) + Len(sent)
        /\ \A i \in 1..Len(wire) + Len(sent) : (wire \o sent)[i] =
              IF i <= Len(wire) THEN wire[i] ELSE sent[i - Len(wire)]
    BY <1>4, ConcatProperties
  <2> QED
    BY <1>4, <2>1, <2>2, <2>3
<1>6. ASSUME NEW i \in 1..c
      PROVE  Len(wire) + i \in 1..Len(wire') /\ wire'[Len(wire) + i] = Sent(s[i])
  <2>1. Len(wire) + i \in 1..Len(wire') /\ ~ (Len(wire) + i <= Len(wire))
    BY <1>2, <1>5
  <2>2. (Len(wire) + i) - Len(wire) = i
    BY <1>5
  <2> QED
    BY <1>4, <1>5, <2>1, <2>2
<1>7. ASSUME NEW k \in 1..Len(wire'), k > Len(wire)
      PROVE  \E r \in rows :
                /\ wire'[k] = Sent(r)
                /\ \A x \in rows : x <= r => \E j \in 1..k : wire'[j] = Sent(x)
  <2> DEFINE i == k - Len(wire)
  <2>1. i \in 1..c /\ k = Len(wire) + i
    BY <1>2, <1>5, <1>7
  <2> HIDE DEF i
  <2>2. wire'[k] = Sent(s[i]) /\ s[i] \in rows
    BY <1>2, <1>6, <2>1
  <2>3. ASSUME NEW x \in rows, x <= s[i]
        PROVE  \E j \in 1..k : wire'[j] = Sent(x)
    <3>1. PICK h \in 1..c : s[h] = x
      BY <1>2
    <3>2. s[i] \in Nat /\ x \in Nat
      <4>1. \A r \in rows : r \in Nat
        OBVIOUS
      <4> QED
        BY <2>2, <4>1
    <3>3. h <= i
      <4>1. ~ (i < h)
        BY <1>2, <2>1, <2>3, <3>1, <3>2
      <4> QED
        BY <1>2, <2>1, <4>1
    <3>4. Len(wire) + h \in 1..k /\ wire'[Len(wire) + h] = Sent(x)
      BY <1>2, <1>5, <1>6, <2>1, <3>1, <3>3
    <3> QED
      BY <3>4
  <2> QED
    BY <2>2, <2>3
<1>8. \A r \in rows : \E k \in 1..Len(wire') : wire'[k] = Sent(r)
  BY <1>2, <1>6
<1>9. Len(wire) <= Len(wire') /\ \A k \in 1..Len(wire) : wire'[k] = wire[k]
  BY <1>2, <1>5
<1> QED
  BY <1>5, <1>7, <1>8, <1>9

\* Every row of the list has a message.
LEMMA RowsHaveMessages ==
  ASSUME TrqInd'
  PROVE  \A r \in q' : Sent(r) \in Message
BY RowsAfter DEF Sent

-----------------------------------------------------------------------------
(* Outside of an open connection nothing travels. *)

LinkQuiet == link # "open" => wire = <<>> /\ acks = <<>>

\* A send into a connection that is not open goes nowhere.
LEMMA SendNowhere ==
  ASSUME NEW rows, NEW marks, NEW cursor, NEW inflight,
         Send(rows, marks, cursor, inflight), link' # "open"
  PROVE  wire' = wire
BY DEF Send

LEMMA LinkQuietNext ==
  ASSUME LinkQuiet, [Next]_vars
  PROVE  LinkQuiet'
<1>1. CASE \/ MtStart \/ OnOpenBreaks \/ OnClose \/ BackupStep \/ SetMaxAcks \/ Admin
           \/ UNCHANGED vars
  BY <1>1 DEF MtStart, OnOpenBreaks, OnClose, BackupStep, SetMaxAcks, Admin, vars,
              linkVars, LinkQuiet
<1>2. CASE MtStop \/ Crash \/ LinkBreaks \/ ProcessAckBreaks
  BY <1>2 DEF MtStop, Crash, LinkBreaks, ProcessAckBreaks, BreakLink, DropTraffic,
              LinkQuiet
<1>3. CASE OnOpen \/ ProcessAck
  <2>1. link' = "open"
    BY <1>3 DEF OnOpen, ProcessAck, AckRead
  <2> QED
    BY <2>1 DEF LinkQuiet
<1>4. CASE SendMessage \/ Timeout
  <2>1. UNCHANGED <<link, acks>>
    BY <1>4 DEF SendMessage, Timeout
  <2>2. link' # "open" => wire' = wire
    BY <1>4, SendNowhere DEF SendMessage, Timeout, SendBatch
  <2> QED
    BY <2>1, <2>2 DEF LinkQuiet
<1>5. CASE PeerReads \/ PeerRefuses \/ PeerAnswers \/ PeerCrashes
  BY <1>5 DEF PeerReads, PeerRefuses, PeerAnswers, PeerCrashes, LinkQuiet
<1> QED
  BY <1>1, <1>2, <1>3, <1>4, <1>5 DEF Next

LEMMA GateLinkQuiet == Spec => []LinkQuiet
<1>1. Init => LinkQuiet
  BY DEF Init, LinkQuiet
<1> QED
  BY <1>1, LinkQuietNext, PTL DEF Spec

(***************************************************************************)
(* What a new connection counts as sent is exactly what it has put on its  *)
(* wire, as long as no TLS write fails: a mark of a former connection      *)
(* never stands for a message that this one does not carry                 *)
(* (c_qiogate.c ac_on_open, reset_soft_queue).                             *)
(***************************************************************************)
THEOREM GateOnOpenResends ==
  ASSUME ~TlsWriteMayFail
  PROVE  Spec => OnOpenResends
<1>1. ASSUME TrqInd, TrqInd', GateTypes, WindowInd, LinkQuiet, OnOpen
      PROVE  marked' = {m.rowid : m \in Range(wire')}
  <2>1. /\ marked = {} /\ wire = <<>> /\ wire \in Seq(Message)
        /\ link' = "open" /\ q' = q
        /\ SendBatch(q, {}, lastSent, pending)
    BY <1>1 DEF OnOpen, WindowInd, LinkQuiet, GateTypes, trqVars
  <2>2. PICK rows \in SUBSET q : Send(rows, {}, lastSent, pending)
    BY <2>1, BatchIsSend
  <2>3. /\ Len(topic') \in Nat /\ rows \in SUBSET (1..Len(topic'))
        /\ \A r \in rows : Sent(r) \in Message
    BY <1>1, <2>1, RowsAfter, RowsHaveMessages
  <2>4. marked' = rows
    BY <2>2 DEF Send
  <2>5. /\ wire' \in Seq(Message)
        /\ \A k \in 1..Len(wire') : k > Len(wire) => \E r \in rows : wire'[k] = Sent(r)
        /\ \A r \in rows : \E k \in 1..Len(wire') : wire'[k] = Sent(r)
    BY <2>1, <2>2, <2>3, SendOnWire
  <2>6. DOMAIN wire' = 1..Len(wire') /\ Len(wire) = 0
    BY <2>1, <2>5
  <2>7. \A k \in DOMAIN wire' : wire'[k].rowid \in rows
    BY <2>5, <2>6 DEF Sent
  <2>8. ASSUME NEW r \in rows PROVE \E k \in DOMAIN wire' : wire'[k].rowid = r
    <3>1. PICK k \in DOMAIN wire' : wire'[k] = Sent(r)
      BY <2>5, <2>6
    <3> QED
      BY <3>1 DEF Sent
  <2> QED
    BY <2>4, <2>7, <2>8 DEF Range
<1>2. TrqInd /\ TrqInd' /\ GateTypes /\ WindowInd /\ LinkQuiet /\ [Next]_vars
        => [OnOpen => marked' = {m.rowid : m \in Range(wire')}]_vars
  BY <1>1
<1> QED
  BY <1>2, GateBooks, GateInvariants, GateLinkQuiet, PTL DEF Spec, OnOpenResends

-----------------------------------------------------------------------------
(* Where the messages in flight are. *)

\* A sequence without its head, or with one more at its end.
LEMMA HeadAndRest ==
  ASSUME NEW s \in Seq(Message), s # <<>>
  PROVE  /\ \A m \in Range(s) : m = Head(s) \/ m \in Range(Tail(s))
         /\ Range(Tail(s)) \subseteq Range(s)
<1>1. /\ Tail(s) \in Seq(Message) /\ Len(Tail(s)) = Len(s) - 1
      /\ \A i \in 1..Len(Tail(s)) : Tail(s)[i] = s[i + 1]
  BY HeadTailProperties
<1>2. Head(s) = s[1] /\ Len(s) \in Nat \ {0}
  BY EmptySeq
<1>3. DOMAIN s = 1..Len(s) /\ DOMAIN Tail(s) = 1..Len(Tail(s))
  BY <1>1, LenProperties
<1>4. ASSUME NEW i \in DOMAIN s, i # 1
      PROVE  i - 1 \in DOMAIN Tail(s) /\ Tail(s)[i - 1] = s[i]
  <2>1. i - 1 \in 1..Len(Tail(s)) /\ (i - 1) + 1 = i
    BY <1>1, <1>2, <1>3, <1>4
  <2>2. Tail(s)[i - 1] = s[(i - 1) + 1]
    BY <1>1, <2>1
  <2> QED
    BY <1>3, <2>1, <2>2
<1>5. \A i \in DOMAIN Tail(s) : i + 1 \in DOMAIN s /\ Tail(s)[i] = s[i + 1]
  BY <1>1, <1>2, <1>3
<1> QED
  BY <1>2, <1>4, <1>5 DEF Range

LEMMA AppendedRange ==
  ASSUME NEW s \in Seq(Message), NEW e \in Message
  PROVE  Range(s) \subseteq Range(Append(s, e)) /\ e \in Range(Append(s, e))
<1>1. /\ Append(s, e) \in Seq(Message) /\ Len(Append(s, e)) = Len(s) + 1
      /\ Len(s) \in Nat
      /\ \A i \in 1..Len(s) : Append(s, e)[i] = s[i]
      /\ Append(s, e)[Len(s) + 1] = e
  BY AppendProperties, LenProperties
<1>2. /\ DOMAIN s = 1..Len(s) /\ DOMAIN Append(s, e) = 1..Len(s) + 1
      /\ Len(s) + 1 \in 1..Len(s) + 1
  BY <1>1, LenProperties
<1>3. \A i \in DOMAIN s : i \in DOMAIN Append(s, e) /\ Append(s, e)[i] = s[i]
  BY <1>1, <1>2
<1> QED
  BY <1>1, <1>2, <1>3 DEF Range

LEMMA SendExtendsWire ==
  ASSUME wire \in Seq(Message), NEW n \in Nat, NEW rows \in SUBSET (1..n),
         \A r \in rows : Sent(r) \in Message,
         NEW marks, NEW cursor, NEW inflight,
         Send(rows, marks, cursor, inflight), link' = "open"
  PROVE  Range(wire) \subseteq Range(wire') /\ \A r \in rows : Sent(r) \in Range(wire')
<1>1. /\ wire' \in Seq(Message) /\ Len(wire) <= Len(wire')
      /\ \A k \in 1..Len(wire) : wire'[k] = wire[k]
      /\ \A r \in rows : \E k \in 1..Len(wire') : wire'[k] = Sent(r)
  BY SendOnWire
<1>2. /\ DOMAIN wire = 1..Len(wire) /\ DOMAIN wire' = 1..Len(wire')
      /\ Len(wire) \in Nat /\ Len(wire') \in Nat
  BY <1>1, LenProperties
<1>3. \A k \in DOMAIN wire : k \in DOMAIN wire' /\ wire'[k] = wire[k]
  BY <1>1, <1>2
<1>4. \A r \in rows : \E k \in DOMAIN wire' : wire'[k] = Sent(r)
  BY <1>1, <1>2
<1> QED
  BY <1>3, <1>4 DEF Range

InFlightInd == link = "open" => \A r \in marked : InFlight(r)

\* A send keeps in flight what it finds there, and adds its rows.
LEMMA SendInFlight ==
  ASSUME TrqInd', wire \in Seq(Message), NEW queue, queue \subseteq q',
         NEW marks, NEW cursor, NEW inflight,
         SendBatch(queue, marks, cursor, inflight)
           \/ \E r \in queue : Send({r}, marks, cursor, inflight),
         link' = "open",
         \A r \in marks : \E m \in todo' \cup Range(wire) \cup Range(acks') : m.rowid = r
  PROVE  InFlightInd'
<1>1. PICK rows \in SUBSET queue : Send(rows, marks, cursor, inflight)
  BY BatchIsSend
<1>2. /\ Len(topic') \in Nat /\ rows \in SUBSET (1..Len(topic'))
      /\ \A r \in rows : Sent(r) \in Message
  BY RowsAfter, RowsHaveMessages
<1>3. Range(wire) \subseteq Range(wire') /\ \A r \in rows : Sent(r) \in Range(wire')
  BY <1>1, <1>2, SendExtendsWire
<1>4. marked' = marks \cup rows
  BY <1>1 DEF Send
<1>5. \A r \in rows : \E m \in Range(wire') : m.rowid = r
  BY <1>3 DEF Sent
<1> QED
  BY <1>3, <1>4, <1>5 DEF InFlightInd, InFlight

LEMMA InFlightNext ==
  ASSUME ~PeerMayRefuse, ~TlsWriteMayFail,
         TrqInd, TrqInd', GateTypes, WindowInd, InFlightInd, [Next]_vars
  PROVE  InFlightInd'
<1> SUFFICES ASSUME link' = "open" PROVE InFlightInd'
  BY DEF InFlightInd
<1>0. wire \in Seq(Message) /\ acks \in Seq(Message) /\ todo \subseteq Message
  BY DEF GateTypes
<1>1. CASE OnOpen
  <2>1. marked = {} /\ q' = q /\ SendBatch(q, marked, lastSent, pending)
    BY <1>1 DEF OnOpen, WindowInd, trqVars
  <2>2. /\ q \subseteq q'
        /\ \A r \in marked :
             \E m \in todo' \cup Range(wire) \cup Range(acks') : m.rowid = r
    BY <2>1
  <2> QED
    BY <1>0, <2>1, <2>2, SendInFlight
<1>2. ASSUME link = "open", UNCHANGED <<todo, acks>>
      PROVE  \A r \in marked :
               \E m \in todo' \cup Range(wire) \cup Range(acks') : m.rowid = r
  BY <1>2 DEF InFlightInd, InFlight
<1>3. CASE SendMessage
  <2>1. link = "open" /\ UNCHANGED <<todo, acks>> /\ Len(topic') \in q'
    BY <1>3 DEF SendMessage, TrqAppend, peerVars
  <2>2. CASE SendsNow
    <3>1. Send({Len(topic')}, marked, lastSent, pending)
      BY <1>3, <2>2 DEF SendMessage
    <3> QED
      BY <1>0, <1>2, <2>1, <3>1, SendInFlight
  <2>3. CASE ~SendsNow
    BY <1>3, <2>1, <2>3 DEF SendMessage, InFlightInd, InFlight
  <2> QED
    BY <2>2, <2>3
<1>4. CASE Timeout
  <2>1. /\ link = "open" /\ UNCHANGED <<todo, acks, q>>
        /\ SendBatch(q, marked, lastSent, pending)
    BY <1>4 DEF Timeout, BackupMarkEnd, trqVars, peerVars
  <2> QED
    BY <1>0, <1>2, <2>1, SendInFlight
<1>5. CASE ProcessAck
  <2> DEFINE r == Head(acks).rowid
  <2>1. /\ SendBatch(q \ {r}, marked \ {r}, CursorAfter(r), PendingAfter(r))
        /\ link = "open" /\ UNCHANGED todo /\ acks' = Tail(acks) /\ acks # <<>>
        /\ Dequeue(r)
    BY <1>5 DEF ProcessAck, AckRead, peerVars
  <2>2. q \ {r} \subseteq q'
    BY <2>1 DEF Dequeue, TrqUnload, trqVars
  <2>3. ASSUME NEW x \in marked \ {r}
        PROVE  \E m \in todo' \cup Range(wire) \cup Range(acks') : m.rowid = x
    <3>1. PICK m \in todo \cup Range(wire) \cup Range(acks) : m.rowid = x
      BY <2>1 DEF InFlightInd, InFlight
    <3>2. m # Head(acks)
      BY <3>1
    <3>3. m \in todo' \cup Range(wire) \cup Range(acks')
      BY <1>0, <2>1, <3>2, HeadAndRest
    <3> QED
      BY <3>1, <3>3
  <2> HIDE DEF r
  <2> QED
    BY <1>0, <2>1, <2>2, <2>3, SendInFlight
<1>6. CASE PeerReads
  <2>1. /\ wire # <<>> /\ wire' = Tail(wire) /\ todo' = todo \cup {Head(wire)}
        /\ UNCHANGED <<marked, link, acks>>
    BY <1>6 DEF PeerReads, gateVars
  <2>2. todo \cup Range(wire) \cup Range(acks)
          \subseteq todo' \cup Range(wire') \cup Range(acks')
    BY <1>0, <2>1, HeadAndRest
  <2> QED
    BY <2>1, <2>2 DEF InFlightInd, InFlight
<1>7. CASE PeerAnswers
  <2>1. PICK m \in todo :
          /\ todo' = todo \ {m}
          /\ acks' = IF link = "open" THEN Append(acks, m) ELSE acks
          /\ UNCHANGED <<marked, link, wire>>
    BY <1>7 DEF PeerAnswers, gateVars
  <2>2. acks' = Append(acks, m) /\ m \in Message
    BY <1>0, <2>1
  <2>3. todo \cup Range(wire) \cup Range(acks)
          \subseteq todo' \cup Range(wire') \cup Range(acks')
    BY <1>0, <2>1, <2>2, AppendedRange
  <2> QED
    BY <2>1, <2>3 DEF InFlightInd, InFlight
<1>8. CASE BackupStep \/ SetMaxAcks \/ UNCHANGED vars
  BY <1>8 DEF BackupStep, SetMaxAcks, vars, gateVars, linkVars, peerVars,
              InFlightInd, InFlight
<1>9. CASE MtStart \/ Admin
  <2>1. ~trqOpen /\ UNCHANGED link
    BY <1>9, MarkedRows DEF MtStart, TrqStart, Admin, linkVars, TrqInd
  <2> QED
    BY <2>1 DEF WindowInd
<1>10. CASE MtStop \/ Crash \/ OnOpenBreaks \/ OnClose \/ ProcessAckBreaks
              \/ LinkBreaks \/ PeerRefuses \/ PeerCrashes
  <2>1. link' # "open" \/ PeerRefuses
    BY <1>10 DEF MtStop, Crash, OnOpenBreaks, OnClose, ProcessAckBreaks, BreakBatch,
                 LinkBreaks, BreakLink, PeerCrashes
  <2> QED
    BY <2>1 DEF PeerRefuses
<1> QED
  BY <1>1, <1>3, <1>4, <1>5, <1>6, <1>7, <1>8, <1>9, <1>10 DEF Next

(***************************************************************************)
(* Each message that the gate counts as sent is with the peer, on its way  *)
(* to it, or in an ack that comes back, for every number of messages and   *)
(* faults, if no peer drops one and no TLS write fails: the gate, which    *)
(* has no ack timeout, never waits for what nobody has (c_qiogate.c        *)
(* process_ack, send_batch_messages).                                      *)
(***************************************************************************)
THEOREM GateInFlightOwned ==
  ASSUME ~PeerMayRefuse, ~TlsWriteMayFail
  PROVE  Spec => []InFlightOwned
<1>1. Init => InFlightInd
  BY DEF Init, InFlightInd
<1>2. InFlightInd => InFlightOwned
  BY DEF InFlightInd, InFlightOwned
<1> QED
  BY <1>1, <1>2, GateBooks, GateInvariants, InFlightNext, PTL DEF Spec

-----------------------------------------------------------------------------
(***************************************************************************)
(* The order.  In an open connection each row marked was read by the peer  *)
(* or is on the wire, and whatever comes before a message on the wire was  *)
(* read, was given up, or is on the wire before it.  A batch keeps it so,  *)
(* because the rows that it leaves out are the last ones of the list, and  *)
(* the messages that are in no list are done.                              *)
(***************************************************************************)
\* Message i is among the first k on the wire w.
Among(w, i, k) == \E j \in 1..k : w[j].id = i

MarkedOnWay ==
    \A r \in marked : topic[r].id \in seen \/ Among(wire, topic[r].id, Len(wire))

WireInOrder ==
    \A k \in 1..Len(wire) : \A i \in 1..wire[k].id :
       i \in seen \cup givenUp \/ Among(wire, i, k)

OrderInd ==
    /\ link = "open" => MarkedOnWay
    /\ WireInOrder
    /\ processed \subseteq seen
    /\ \A m \in todo : m.id \in seen
    /\ NoOvertaking

\* The row of a message, in a topic that begins after `before' messages.
LEMMA RowOfMessage ==
  ASSUME NEW before \in Nat, NEW len \in Nat, NEW r \in 1..len,
         NEW i \in 1..(r + before), i > before
  PROVE  i - before \in 1..len /\ i - before <= r /\ (i - before) + before = i
OBVIOUS

\* A send of the first unsent rows of the list.
LEMMA SendInOrder ==
  ASSUME TrqInd', RowsAreMessages', NothingStranded', trqOpen',
         wire \in Seq(Message), WireInOrder, UNCHANGED <<seen, processed, givenUp>>,
         processed \subseteq seen, link' = "open",
         NEW marks, \A r \in marks : topic'[r].id \in seen
                                     \/ Among(wire, topic'[r].id, Len(wire)),
         NEW rows, IsFirstOf(rows, q' \ marks), NEW cursor, NEW inflight,
         Send(rows, marks, cursor, inflight)
  PROVE  MarkedOnWay' /\ WireInOrder'
<1>1. /\ Len(topic') \in Nat /\ rows \in SUBSET (1..Len(topic'))
      /\ q' \subseteq 1..Len(topic')
      /\ \A r \in rows : Sent(r) \in Message
  <2>1. rows \subseteq q'
    BY DEF IsFirstOf
  <2> QED
    BY <2>1, RowsAfter, RowsHaveMessages
<1>2. /\ wire' \in Seq(Message) /\ Len(wire) <= Len(wire')
      /\ \A k \in 1..Len(wire) : wire'[k] = wire[k]
      /\ \A k \in 1..Len(wire') : k > Len(wire) =>
           \E r \in rows :
             /\ wire'[k] = Sent(r)
             /\ \A x \in rows : x <= r => \E j \in 1..k : wire'[j] = Sent(x)
      /\ \A r \in rows : \E k \in 1..Len(wire') : wire'[k] = Sent(r)
  BY <1>1, SendOnWire
<1>3. Len(wire) \in Nat /\ Len(wire') \in Nat
  BY <1>2, LenProperties
<1>4. marked' = marks \cup rows
  BY DEF Send
<1>5. ASSUME NEW i, NEW k \in 1..Len(wire'), NEW h \in 1..Len(wire),
             h <= k, Among(wire, i, h)
      PROVE  Among(wire', i, k)
  <2>1. PICK j \in 1..h : wire[j].id = i
    BY <1>5 DEF Among
  <2>2. j \in 1..k /\ wire'[j].id = i
    BY <1>2, <1>3, <1>5, <2>1
  <2> QED
    BY <2>2 DEF Among
<1>6. MarkedOnWay'
  <2>1. ASSUME NEW r \in marks
        PROVE  topic'[r].id \in seen' \/ Among(wire', topic'[r].id, Len(wire'))
    <3>1. CASE topic'[r].id \in seen
      BY <3>1
    <3>2. CASE Among(wire, topic'[r].id, Len(wire))
      <4>1. Len(wire) \in 1..Len(wire)
        BY <1>3, <3>2 DEF Among
      <4>2. Len(wire') \in 1..Len(wire')
        BY <1>2, <1>3, <4>1
      <4> QED
        BY <1>2, <1>5, <3>2, <4>1, <4>2
    <3> QED
      BY <2>1, <3>1, <3>2
  <2>2. ASSUME NEW r \in rows
        PROVE  Among(wire', topic'[r].id, Len(wire'))
    <3>1. PICK k \in 1..Len(wire') : wire'[k] = Sent(r)
      BY <1>2
    <3> QED
      BY <3>1 DEF Among, Sent
  <2> QED
    BY <1>4, <2>1, <2>2 DEF MarkedOnWay
<1>7. ASSUME NEW k \in 1..Len(wire'), NEW i \in 1..wire'[k].id
      PROVE  i \in seen' \cup givenUp' \/ Among(wire', i, k)
  <2>1. CASE k <= Len(wire)
    <3>1. k \in 1..Len(wire) /\ wire'[k] = wire[k]
      BY <1>2, <1>3, <2>1
    <3>2. i \in seen \cup givenUp \/ Among(wire, i, k)
      BY <1>7, <3>1 DEF WireInOrder
    <3> QED
      BY <1>3, <1>5, <1>7, <3>1, <3>2
  <2>2. CASE k > Len(wire)
    <3>1. PICK r \in rows :
            /\ wire'[k] = Sent(r)
            /\ \A x \in rows : x <= r => \E j \in 1..k : wire'[j] = Sent(x)
      BY <1>2, <2>2
    <3>2. /\ DOMAIN topic' = 1..Len(topic') /\ Before' \in Nat
          /\ \A x \in 1..Len(topic') : topic'[x].id = x + Before'
      BY <1>1 DEF TrqInd, TrqTypeOK, Before, RowsAreMessages
    <3>3. r \in 1..Len(topic') /\ wire'[k].id = r + Before'
      BY <1>1, <3>1, <3>2 DEF Sent
    <3>4. CASE i <= Before'
      BY <1>7, <3>2, <3>3, <3>4 DEF RowsAreMessages, Done
    <3>5. CASE i > Before'
      <4> DEFINE x == i - Before'
      <4>1. x \in 1..Len(topic') /\ x <= r /\ x + Before' = i
        <5>1. Len(topic') \in Nat /\ Before' \in Nat /\ r \in 1..Len(topic')
          BY <1>1, <3>2, <3>3
        <5>2. i \in 1..(r + Before')
          BY <1>7, <3>3
        <5> QED
          BY <3>5, <5>1, <5>2, RowOfMessage
      <4> HIDE DEF x
      <4>2. topic'[x].id = i
        BY <3>2, <4>1
      <4>3. i \in Done' \/ x \in q'
        BY <3>2, <4>1, <4>2 DEF RowsAreMessages, NothingStranded, PendingRows
      <4>4. CASE x \in q' /\ x \in marks
        <5>1. i \in seen \/ Among(wire, i, Len(wire))
          BY <4>2, <4>4
        <5>2. Among(wire, i, Len(wire)) => Among(wire', i, k)
          <6> SUFFICES ASSUME Among(wire, i, Len(wire)) PROVE Among(wire', i, k)
            OBVIOUS
          <6>1. Len(wire) \in 1..Len(wire) /\ Len(wire) <= k
            BY <1>3, <2>2 DEF Among
          <6> QED
            BY <1>5, <6>1
        <5> QED
          BY <5>1, <5>2
      <4>5. CASE x \in q' /\ x \notin marks
        <5>1. x = r \/ x < r
          BY <1>1, <4>1
        <5>2. x \in rows
          BY <4>5, <5>1 DEF IsFirstOf
        <5>3. PICK j \in 1..k : wire'[j] = Sent(x)
          BY <3>1, <4>1, <5>2
        <5> QED
          BY <4>2, <5>3 DEF Among, Sent
      <4> QED
        BY <4>3, <4>4, <4>5 DEF Done
    <3> QED
      BY <1>7, <3>2, <3>3, <3>4, <3>5
  <2> QED
    BY <1>3, <2>1, <2>2
<1> QED
  BY <1>6, <1>7 DEF WireInOrder

\* A batch from a sound state of the bookkeeping is such a send.
LEMMA BatchInOrder ==
  ASSUME TrqInd', RowsAreMessages', NothingStranded', trqOpen', maxAcks \in Nat,
         wire \in Seq(Message), WireInOrder, UNCHANGED <<seen, processed, givenUp>>,
         processed \subseteq seen, link' = "open", opened',
         NEW marks, \A r \in marks : topic'[r].id \in seen
                                     \/ Among(wire, topic'[r].id, Len(wire)),
         Firsts(marks, q'), NEW cursor, CursorBehind(cursor, marks, q'),
         NEW inflight, inflight = Cardinality(marks),
         SendBatch(q', marks, cursor, inflight)
  PROVE  MarkedOnWay' /\ WireInOrder'
<1> DEFINE rows == Batch(q', marks, cursor, inflight)
<1>1. Len(topic') \in Nat /\ q' \in SUBSET (1..Len(topic'))
  BY RowsAfter
<1>2. Send(rows, marks, cursor, inflight)
  BY DEF SendBatch
<1>3. marks \in SUBSET (1..Len(topic'))
  BY <1>1 DEF Firsts
<1>4. inflight \in Nat
  BY <1>1, <1>3, RowsFinite
<1>5. cursor \in Nat /\ \A r \in q' \ marks : cursor < r
  BY <1>1 DEF CursorBehind
<1>6. IsFirstOf(rows, q' \ marks)
  BY <1>1, <1>4, <1>5, BatchIsFirst
<1> HIDE DEF rows
<1> QED
  BY <1>2, <1>6, SendInOrder

\* The peer takes the first message of the wire.
LEMMA ReadInOrder ==
  ASSUME wire \in Seq(Message), wire # <<>>, OrderInd,
         wire' = Tail(wire), seen' = seen \cup {Head(wire).id},
         UNCHANGED <<topic, givenUp, marked, link>>
  PROVE  /\ link' = "open" => MarkedOnWay'
         /\ WireInOrder'
         /\ NoOvertaking'
<1>1. /\ Len(Tail(wire)) = Len(wire) - 1
      /\ \A i \in 1..Len(Tail(wire)) : Tail(wire)[i] = wire[i + 1]
  BY HeadTailProperties
<1>2. Head(wire) = wire[1] /\ Len(wire) \in Nat \ {0}
  BY EmptySeq
<1>3. ASSUME NEW i, NEW k \in 1..Len(wire), Among(wire, i, k)
      PROVE  i \in seen' \/ Among(wire', i, k - 1)
  <2>1. PICK j \in 1..k : wire[j].id = i
    BY <1>3 DEF Among
  <2>2. CASE j = 1
    BY <1>2, <2>1, <2>2
  <2>3. CASE j # 1
    <3>1. /\ j - 1 \in 1..k - 1 /\ j - 1 \in 1..Len(Tail(wire))
          /\ (j - 1) + 1 = j
      BY <1>1, <1>2, <2>3
    <3>2. Tail(wire)[j - 1] = wire[(j - 1) + 1]
      BY <1>1, <3>1
    <3> QED
      BY <2>1, <3>1, <3>2 DEF Among
  <2> QED
    BY <2>2, <2>3
<1>4. link' = "open" => MarkedOnWay'
  <2> SUFFICES ASSUME link = "open", NEW r \in marked
               PROVE  topic[r].id \in seen' \/ Among(wire', topic'[r].id, Len(wire'))
    BY DEF MarkedOnWay
  <2>1. topic[r].id \in seen \/ Among(wire, topic[r].id, Len(wire))
    BY DEF OrderInd, MarkedOnWay
  <2>2. Len(wire) \in 1..Len(wire) /\ Len(wire') = Len(wire) - 1
    BY <1>1, <1>2
  <2>3. Among(wire, topic[r].id, Len(wire)) =>
          topic[r].id \in seen' \/ Among(wire', topic[r].id, Len(wire) - 1)
    BY <1>3, <2>2
  <2> QED
    BY <2>1, <2>2, <2>3 DEF Among
<1>5. WireInOrder'
  <2> SUFFICES ASSUME NEW k \in 1..Len(wire'), NEW i \in 1..wire'[k].id
               PROVE  i \in seen' \cup givenUp' \/ Among(wire', i, k)
    BY DEF WireInOrder
  <2>1. k + 1 \in 1..Len(wire) /\ wire'[k] = wire[k + 1] /\ (k + 1) - 1 = k
    BY <1>1, <1>2
  <2>2. i \in seen \cup givenUp \/ Among(wire, i, k + 1)
    BY <2>1 DEF OrderInd, WireInOrder
  <2>3. Among(wire, i, k + 1) => i \in seen' \/ Among(wire', i, k)
    BY <1>3, <2>1
  <2> QED
    BY <2>2, <2>3
<1>6. NoOvertaking'
  <2> SUFFICES ASSUME NEW i \in seen', NEW x \in 1..i
               PROVE  x \in seen' \cup givenUp'
    BY DEF NoOvertaking
  <2>1. CASE i \in seen
    BY <2>1 DEF OrderInd, NoOvertaking
  <2>2. CASE i = wire[1].id
    <3>1. 1 \in 1..Len(wire)
      BY <1>2
    <3>2. x \in seen \cup givenUp \/ Among(wire, x, 1)
      BY <2>2, <3>1 DEF OrderInd, WireInOrder
    <3>3. Among(wire, x, 1) => wire[1].id = x
      BY DEF Among
    <3> QED
      BY <1>2, <3>2, <3>3
  <2> QED
    BY <1>2, <2>1, <2>2
<1> QED
  BY <1>4, <1>5, <1>6

\* A step that sends and reads nothing.
LEMMA SameOrder ==
  ASSUME OrderInd, UNCHANGED <<wire, seen, processed, todo>>, givenUp \subseteq givenUp',
         link' = "open" => /\ link = "open" /\ UNCHANGED marked
                           /\ \A r \in marked : topic'[r].id = topic[r].id
  PROVE  OrderInd'
BY DEF OrderInd, MarkedOnWay, WireInOrder, NoOvertaking

\* The connection ends.
LEMMA DropOrder ==
  ASSUME OrderInd, wire' = <<>>, link' # "open", UNCHANGED <<seen, processed, givenUp>>,
         todo' \subseteq todo
  PROVE  OrderInd'
<1>1. 1..Len(wire') = {}
  BY EmptySeq
<1>2. WireInOrder'
  BY <1>1 DEF WireInOrder
<1> QED
  BY <1>2 DEF OrderInd, NoOvertaking

LEMMA OrderNext ==
  ASSUME ~TlsWriteMayFail, TrqInd, TrqInd', SearchInd', GateTypes, WindowInd,
         LinkQuiet, LossInd, LossInd', OrderInd, [Next]_vars
  PROVE  OrderInd'
<1>0. /\ wire \in Seq(Message) /\ maxAcks \in Nat /\ TrqTypeOK /\ QueueIsPending
      /\ RowsAreMessages' /\ NothingStranded'
      /\ Len(topic) \in Nat /\ q \in SUBSET (1..Len(topic)) /\ DOMAIN topic = 1..Len(topic)
      /\ Firsts(marked, q)
  BY TopicShape, MaxAcksType
     DEF TrqInd, QueueIsPending, GateTypes, LossInd, SearchInd, WindowInd
<1>1. ASSUME ~BackupMove
      PROVE  \A r \in marked : topic'[r].id = topic[r].id
  <2>1. KeepsIds
    BY <1>1, RowsNext DEF LossInd
  <2> QED
    BY <1>0, <2>1 DEF KeepsIds, Firsts
<1>2. CASE MtStart \/ Admin
  <2>1. ~trqOpen /\ UNCHANGED <<linkVars, peerVars>> /\ givenUp \subseteq givenUp'
    BY <1>0, <1>2, MarkedRows DEF MtStart, TrqStart, Admin
  <2>2. link' # "open"
    BY <2>1 DEF WindowInd, linkVars
  <2> QED
    BY <2>1, <2>2, SameOrder DEF linkVars, peerVars
<1>3. CASE MtStop \/ Crash \/ LinkBreaks \/ PeerCrashes
  <2>1. /\ wire' = <<>> /\ link' # "open" /\ UNCHANGED <<seen, processed, givenUp>>
        /\ todo' \subseteq todo
    BY <1>3 DEF MtStop, TrqStop, Crash, TrqCrash, LinkBreaks, BreakLink, DropTraffic,
                PeerCrashes, trqVars
  <2> QED
    BY <2>1, DropOrder
<1>4. CASE OnClose \/ SetMaxAcks \/ UNCHANGED vars
  <2>1. /\ UNCHANGED <<wire, seen, processed, todo, givenUp, topic>>
        /\ link' = "open" => link = "open" /\ UNCHANGED marked
    BY <1>4 DEF OnClose, SetMaxAcks, vars, trqVars, gateVars, linkVars, peerVars
  <2> QED
    BY <2>1, SameOrder
<1>5. CASE BackupStep
  <2>1. backup # "none" /\ UNCHANGED <<gateVars, linkVars, peerVars, givenUp>>
    BY <1>0, <1>5, MovedTopic DEF BackupStep
  <2>2. marked = {}
    BY <1>0, <2>1 DEF TrqInd, Firsts
  <2> QED
    BY <2>1, <2>2, SameOrder DEF gateVars, linkVars, peerVars
<1>6. ASSUME MarkedOnWay', WireInOrder', UNCHANGED <<seen, processed, todo, givenUp>>
      PROVE  OrderInd'
  BY <1>6 DEF OrderInd, NoOvertaking
<1>7. CASE OnOpen
  <2>1. /\ marked = {} /\ pending = 0 /\ lastSent = 0 /\ q' = q
        /\ link' = "open" /\ opened' /\ trqOpen'
        /\ SendBatch(q', marked, lastSent, pending)
        /\ UNCHANGED <<seen, processed, todo, givenUp>>
    BY <1>7 DEF OnOpen, Running, WindowInd, trqVars, peerVars
  <2>2. /\ Firsts(marked, q') /\ CursorBehind(lastSent, marked, q')
        /\ pending = Cardinality(marked)
        /\ \A r \in marked : topic'[r].id \in seen
                             \/ Among(wire, topic'[r].id, Len(wire))
    BY <1>0, <2>1, FS_EmptySet DEF Firsts, CursorBehind
  <2>3. WireInOrder /\ processed \subseteq seen
    BY DEF OrderInd
  <2>4. MarkedOnWay' /\ WireInOrder'
    BY <1>0, <2>1, <2>2, <2>3, BatchInOrder
  <2> QED
    BY <1>6, <2>1, <2>4
<1>8. CASE SendMessage
  <2>1. /\ TrqAppend /\ UNCHANGED <<link, seen, processed, todo, givenUp>> /\ trqOpen'
        /\ ~BackupMove
    BY <1>8 DEF SendMessage, TrqAppend, peerVars, BackupMove
  <2>2. CASE SendsNow /\ link = "open"
    <3>1. Send({Len(topic')}, marked, lastSent, pending) /\ PrevIsSent
      BY <1>8, <2>2 DEF SendMessage, SendsNow
    <3>2. IsFirstOf({Len(topic')}, q' \ marked)
      BY <1>0, <2>1, <3>1, NewRowFirst
    <3>3. \A r \in marked : topic'[r].id \in seen
                            \/ Among(wire, topic'[r].id, Len(wire))
      BY <1>1, <2>1, <2>2 DEF OrderInd, MarkedOnWay
    <3>4. WireInOrder /\ processed \subseteq seen
      BY DEF OrderInd
    <3>5. MarkedOnWay' /\ WireInOrder'
      BY <1>0, <2>1, <2>2, <3>1, <3>2, <3>3, <3>4, SendInOrder
    <3> QED
      BY <1>6, <2>1, <3>5
  <2>3. CASE ~(SendsNow /\ link = "open")
    <3>1. wire' = wire /\ (link' = "open" => UNCHANGED marked)
      BY <1>8, <2>1, <2>3 DEF SendMessage, Send
    <3> QED
      BY <1>1, <2>1, <3>1, SameOrder
  <2> QED
    BY <2>2, <2>3
<1>9. CASE ProcessAck
  <2> DEFINE r == Head(acks).rowid
  <2>1. /\ SendBatch(q \ {r}, marked \ {r}, CursorAfter(r), PendingAfter(r))
        /\ link = "open" /\ trqOpen /\ Dequeue(r) /\ backup = "none"
        /\ UNCHANGED <<opened, link, seen, processed, todo>>
    BY <1>9 DEF ProcessAck, AckRead, Running, peerVars
  <2> HIDE DEF r
  <2>2. q' = q \ {r} /\ trqOpen' /\ UNCHANGED givenUp /\ ~BackupMove
    BY <2>1 DEF Dequeue, TrqUnload, trqVars, BackupMove
  <2>3. /\ opened' /\ CursorBehind(lastSent, marked, q)
        /\ pending = Cardinality(marked)
    BY <2>1 DEF WindowInd
  <2>4. /\ Firsts(marked \ {r}, q')
        /\ CursorBehind(CursorAfter(r), marked \ {r}, q')
        /\ PendingAfter(r) = Cardinality(marked \ {r})
    BY <1>0, <2>2, <2>3, AckSound
  <2>5. \A x \in marked \ {r} : topic'[x].id \in seen
                                \/ Among(wire, topic'[x].id, Len(wire))
    BY <1>1, <2>1, <2>2 DEF OrderInd, MarkedOnWay
  <2>6. WireInOrder /\ processed \subseteq seen
    BY DEF OrderInd
  <2>7. link' = "open" /\ SendBatch(q', marked \ {r}, CursorAfter(r), PendingAfter(r))
    BY <2>1, <2>2
  <2>8. MarkedOnWay' /\ WireInOrder'
    BY <1>0, <2>1, <2>2, <2>3, <2>4, <2>5, <2>6, <2>7, BatchInOrder
  <2> QED
    BY <1>6, <2>1, <2>2, <2>8
<1>10. CASE ProcessAckBreaks \/ OnOpenBreaks
  BY <1>10 DEF ProcessAckBreaks, OnOpenBreaks, BreakBatch
<1>11. CASE Timeout
  <2>1. /\ SendBatch(q', marked, lastSent, pending) /\ trqOpen' /\ q' = q
        /\ UNCHANGED <<link, opened, topic, seen, processed, todo, givenUp>>
        /\ timer
    BY <1>11 DEF Timeout, Running, BackupMarkEnd, trqVars, peerVars
  <2>2. CASE link = "open"
    <3>1. /\ opened' /\ CursorBehind(lastSent, marked, q')
          /\ pending = Cardinality(marked) /\ Firsts(marked, q')
      BY <1>0, <2>1, <2>2 DEF WindowInd
    <3>2. \A r \in marked : topic'[r].id \in seen
                            \/ Among(wire, topic'[r].id, Len(wire))
      BY <2>1, <2>2 DEF OrderInd, MarkedOnWay
    <3>3. WireInOrder /\ processed \subseteq seen
      BY DEF OrderInd
    <3>4. MarkedOnWay' /\ WireInOrder'
      BY <1>0, <2>1, <2>2, <3>1, <3>2, <3>3, BatchInOrder
    <3> QED
      BY <1>6, <2>1, <3>4
  <2>3. CASE link # "open"
    <3>1. wire' = wire
      BY <2>1, <2>3, SendNowhere DEF SendBatch
    <3> QED
      BY <2>1, <2>3, <3>1, SameOrder
  <2> QED
    BY <2>2, <2>3
<1>12. CASE PeerReads \/ PeerRefuses
  <2>1. /\ wire # <<>> /\ wire' = Tail(wire) /\ seen' = seen \cup {Head(wire).id}
        /\ UNCHANGED <<topic, givenUp, marked, link, processed>>
        /\ todo' \subseteq todo \cup {Head(wire)}
    BY <1>12 DEF PeerReads, PeerRefuses, trqVars, gateVars
  <2>2. (link' = "open" => MarkedOnWay') /\ WireInOrder' /\ NoOvertaking'
    BY <1>0, <2>1, ReadInOrder
  <2> QED
    BY <2>1, <2>2 DEF OrderInd
<1>13. CASE PeerAnswers
  <2>1. PICK m \in todo :
          /\ todo' = todo \ {m} /\ processed' = processed \cup {m.id}
          /\ UNCHANGED <<topic, givenUp, marked, link, wire, seen>>
    BY <1>13 DEF PeerAnswers, trqVars, gateVars
  <2> QED
    BY <2>1 DEF OrderInd, MarkedOnWay, WireInOrder, NoOvertaking
<1> QED
  BY <1>2, <1>3, <1>4, <1>5, <1>7, <1>8, <1>9, <1>10, <1>11, <1>12, <1>13 DEF Next

(***************************************************************************)
(* No message overtakes another: the peer first reads the messages in the  *)
(* order in which the gate accepted them, those that an operator gave up   *)
(* apart, through any resend, window, restart and refusal, as long as no   *)
(* TLS write fails and backups find no ack on its way (c_qiogate.c         *)
(* send_batch_messages, tr_queue.c trq_load).                              *)
(***************************************************************************)
THEOREM GateNoOvertaking ==
  ASSUME ~TlsWriteMayFail,
         BackupSize = 0 \/ (~AcksCrossBackup /\ ~CrashInBackup)
  PROVE  Spec => []NoOvertaking
<1>1. Init => OrderInd
  <2>1. Init => 1..Len(wire) = {}
    BY EmptySeq DEF Init
  <2> QED
    BY <2>1 DEF Init, OrderInd, WireInOrder, NoOvertaking
<1>2. OrderInd => NoOvertaking
  BY DEF OrderInd
<1> QED
  BY <1>1, <1>2, GateBooks, GateInvariants, GateLinkQuiet, GateOwes, OrderNext, PTL
  DEF Spec
=============================================================================
