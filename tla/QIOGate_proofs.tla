--------------------------- MODULE QIOGate_proofs ---------------------------
(***************************************************************************)
(* Proofs about the queued gate of QIOGate, for every number of messages   *)
(* and faults, every max_pending_acks, every peer.                         *)
(*                                                                         *)
(* The gate only uses its queue as TrQueue lets a user do, so that the     *)
(* theorems of TrQueue_proofs hold of it.  That no message is lost, and    *)
(* the safe part of the promise of AtLeastOnce, are proved for a queue     *)
(* never backed up and for one whose backups find no ack on its way: then  *)
(* the row number of an ack names one message as long as it travels.       *)
(***************************************************************************)
EXTENDS QIOGate, TrQueue_proofs, SequenceTheorems

-----------------------------------------------------------------------------
(* The gate is a user of the queue. *)

(***************************************************************************)
(* Every step of the gate is a step of the queue or leaves it alone; a     *)
(* backup is begun only with an empty list (c_qiogate.c ac_timeout).       *)
(***************************************************************************)
THEOREM GateUsesQueue == Spec => TrqSpec
<1>1. Init => TrqInit
  BY DEF Init
<1>2. [Next]_vars => [TrqNext]_trqVars
  <2> SUFFICES ASSUME [Next]_vars
               PROVE  TrqNext \/ UNCHANGED trqVars
    OBVIOUS
  <2>1. CASE MtStart \/ MtStop \/ Crash
    BY <2>1 DEF MtStart, MtStop, Crash, TrqNext
  <2>2. CASE OnOpen \/ OnOpenBreaks \/ OnClose \/ SetMaxAcks
    BY <2>2 DEF OnOpen, OnOpenBreaks, OnClose, SetMaxAcks
  <2>3. CASE SendMessage
    BY <2>3 DEF SendMessage, TrqNext
  <2>4. CASE ProcessAck \/ ProcessAckBreaks
    BY <2>4 DEF ProcessAck, ProcessAckBreaks, Dequeue, TrqNext
  <2>5. CASE Timeout
    BY <2>5 DEF Timeout, Settled, TrqNext
  <2>6. CASE BackupStep \/ Admin
    BY <2>6 DEF BackupStep, Admin, TrqNext
  <2>7. CASE LinkBreaks \/ PeerReads \/ PeerRefuses \/ PeerAnswers \/ PeerCrashes
    BY <2>7 DEF LinkBreaks, PeerReads, PeerRefuses, PeerAnswers, PeerCrashes
  <2>8. CASE UNCHANGED vars
    BY <2>8 DEF vars
  <2> QED
    BY <2>1, <2>2, <2>3, <2>4, <2>5, <2>6, <2>7, <2>8 DEF Next
<1> QED
  BY <1>1, <1>2, PTL DEF Spec, TrqSpec

-----------------------------------------------------------------------------
(* What a send does. *)

\* The end of a batch: a bounded set of naturals that is not empty has a
\* greatest element.
LEMMA MaxExists ==
  ASSUME NEW n \in Nat, NEW T \in SUBSET (0..n), T # {}
  PROVE  \E m \in T : \A x \in T : x <= m
<1> DEFINE D == {n - k : k \in T}
<1>0. \A k \in T : n - k \in Nat
  OBVIOUS
<1>1. D \in SUBSET Nat /\ D # {}
  BY <1>0
<1>2. PICK d \in D : \A e \in D : d <= e
  BY <1>1, MinExists
<1>3. PICK m \in T : d = n - m
  BY <1>2
<1>4. \A x \in T : n - m <= n - x
  BY <1>2, <1>3
<1> QED
  BY <1>4

LEMMA RowsFinite ==
  ASSUME NEW n \in Nat, NEW rows \in SUBSET (1..n)
  PROVE  IsFiniteSet(rows) /\ Cardinality(rows) \in Nat
<1>1. 1 \in Int /\ n \in Int
  OBVIOUS
<1>2. IsFiniteSet(1..n)
  BY <1>1, FS_Interval
<1>3. IsFiniteSet(rows)
  BY <1>2, FS_Subset
<1> QED
  BY <1>3, FS_CardinalityType

LEMMA LastProperties ==
  ASSUME NEW n \in Nat, NEW S \in SUBSET (0..n), NEW default
  PROVE  /\ S = {} => Last(S, default) = default
         /\ S # {} => Last(S, default) \in S /\ \A x \in S : x <= Last(S, default)
BY MaxExists DEF Last

LEMMA BatchRows ==
  ASSUME NEW queue, NEW marks, NEW cursor, NEW inflight
  PROVE  Batch(queue, marks, cursor, inflight) \subseteq queue \ marks
BY DEF Batch

\* A send keeps a wire of messages of M, if those of the rows sent are in M.
LEMMA SendTraffic ==
  ASSUME NEW M, wire \in Seq(M),
         NEW n \in Nat, NEW rows \in SUBSET (1..n),
         \A r \in rows : [rowid |-> r, id |-> topic'[r].id] \in M,
         NEW marks, NEW cursor, NEW inflight,
         Send(rows, marks, cursor, inflight)
  PROVE  wire' \in Seq(M)
<1>1. Cardinality(rows) \in Nat
  BY RowsFinite
<1>2. PICK s \in InOrder(rows) :
         wire' = IF link' = "open" THEN wire \o Messages(s) ELSE wire
  BY DEF Send
<1>3. s \in [1..Cardinality(rows) -> rows]
  BY DEF InOrder
<1>4. Messages(s) \in [1..Cardinality(rows) -> M]
  <2>1. Messages(s) = [i \in 1..Cardinality(rows) |->
                         [rowid |-> s[i], id |-> topic'[s[i]].id]]
    BY <1>3 DEF Messages
  <2>2. \A i \in 1..Cardinality(rows) :
          [rowid |-> s[i], id |-> topic'[s[i]].id] \in M
    BY <1>3
  <2> QED
    BY <2>1, <2>2
<1>5. Messages(s) \in Seq(M)
  BY <1>1, <1>4
<1>6. wire \o Messages(s) \in Seq(M)
  BY <1>5, ConcatProperties
<1> QED
  BY <1>2, <1>6

LEMMA SendCounts ==
  ASSUME NEW n \in Nat, NEW rows \in SUBSET (1..n), NEW marks \in SUBSET Nat,
         NEW cursor \in Nat, NEW inflight \in Nat,
         Send(rows, marks, cursor, inflight)
  PROVE  marked' \subseteq Nat /\ pending' \in Nat /\ lastSent' \in Nat
<1>1. Cardinality(rows) \in Nat
  BY RowsFinite
<1>2. rows \in SUBSET (0..n)
  OBVIOUS
<1>3. Last(rows, cursor) \in Nat
  <2>1. CASE rows = {}
    BY <1>2, <2>1, LastProperties
  <2>2. CASE rows # {}
    <3>1. Last(rows, cursor) \in rows
      BY <1>2, <2>2, LastProperties
    <3>2. \A x \in rows : x \in Nat
      BY <1>2
    <3> QED
      BY <3>1, <3>2
  <2> QED
    BY <2>1, <2>2
<1>4. marks \cup rows \subseteq Nat
  BY <1>2
<1>5. inflight + Cardinality(rows) \in Nat
  BY <1>1
<1> QED
  BY <1>3, <1>4, <1>5 DEF Send

\* A batch is a send of rows of the queue.
LEMMA BatchIsSend ==
  ASSUME NEW queue, NEW marks, NEW cursor, NEW inflight,
         SendBatch(queue, marks, cursor, inflight)
  PROVE  \E rows \in SUBSET queue : Send(rows, marks, cursor, inflight)
<1>1. Batch(queue, marks, cursor, inflight) \subseteq queue
  BY BatchRows
<1> QED
  BY <1>1 DEF SendBatch

-----------------------------------------------------------------------------
(* Typing. *)

\* After a step, the rows of the list are rows of the topic.
LEMMA RowsAfter ==
  ASSUME TrqInd'
  PROVE  /\ Len(topic') \in Nat
         /\ q' \subseteq 1..Len(topic')
         /\ \A r \in q' : [rowid |-> r, id |-> topic'[r].id] \in Message
<1>1. topic' \in Seq(Row) /\ q' \subseteq PendingRows'
  BY DEF TrqInd, TrqTypeOK, QueueIsPending
<1>2. Len(topic') \in Nat /\ DOMAIN topic' = 1..Len(topic')
  BY <1>1
<1>3. \A r \in 1..Len(topic') : topic'[r] \in Row
  BY <1>1, <1>2
<1>4. q' \subseteq 1..Len(topic')
  BY <1>1, <1>2 DEF PendingRows
<1>5. \A r \in q' : r \in Nat /\ topic'[r].id \in Ids
  BY <1>2, <1>3, <1>4 DEF Row
<1> QED
  BY <1>2, <1>4, <1>5 DEF Message

LEMMA BatchTypes ==
  ASSUME TrqInd', wire \in Seq(Message),
         NEW queue, queue \subseteq q', NEW marks \in SUBSET Nat,
         NEW cursor \in Nat, NEW inflight \in Nat,
         SendBatch(queue, marks, cursor, inflight)
  PROVE  /\ wire' \in Seq(Message)
         /\ marked' \subseteq Nat /\ pending' \in Nat /\ lastSent' \in Nat
<1>1. PICK rows \in SUBSET queue : Send(rows, marks, cursor, inflight)
  BY BatchIsSend
<1>2. /\ Len(topic') \in Nat
      /\ rows \in SUBSET (1..Len(topic'))
      /\ \A r \in rows : [rowid |-> r, id |-> topic'[r].id] \in Message
  BY RowsAfter
<1> QED
  BY <1>1, <1>2, SendTraffic, SendCounts

\* What a batch that breaks leaves.
LEMMA BreakTypes ==
  ASSUME TrqInd', NEW queue, queue \subseteq q',
         NEW marks, NEW cursor, NEW inflight,
         BreakBatch(queue, marks, cursor, inflight)
  PROVE  /\ Fault /\ link' = "closed" /\ opened' = FALSE
         /\ marked' \subseteq Nat /\ pending' \in Nat /\ lastSent' \in Nat
<1> DEFINE batch == Batch(queue, marks, cursor, inflight)
<1>1. /\ Fault /\ link' = "closed" /\ opened' = FALSE
      /\ \E first \in batch :
           LET rest == Batch(queue, {first}, first, 1) IN
           /\ marked' = {first} \cup rest
           /\ pending' = 1 + Cardinality(rest)
           /\ lastSent' = Last(rest, 0)
  BY DEF BreakBatch
<1>2. PICK first \in batch :
        LET rest == Batch(queue, {first}, first, 1) IN
        /\ marked' = {first} \cup rest
        /\ pending' = 1 + Cardinality(rest)
        /\ lastSent' = Last(rest, 0)
  BY <1>1
<1> DEFINE rest == Batch(queue, {first}, first, 1)
<1>3. first \in q' /\ rest \in SUBSET q'
  BY BatchRows
<1>4. /\ marked' = {first} \cup rest
      /\ pending' = 1 + Cardinality(rest)
      /\ lastSent' = Last(rest, 0)
  BY <1>2
<1> HIDE DEF batch, rest
<1>5. Len(topic') \in Nat /\ rest \in SUBSET (1..Len(topic')) /\ first \in Nat
  BY <1>3, RowsAfter
<1>6. Cardinality(rest) \in Nat
  BY <1>5, RowsFinite
<1>7. Last(rest, 0) \in Nat
  <2>1. rest \in SUBSET (0..Len(topic'))
    BY <1>5
  <2>2. CASE rest = {}
    BY <1>5, <2>1, <2>2, LastProperties
  <2>3. CASE rest # {}
    <3>1. Last(rest, 0) \in rest
      BY <1>5, <2>1, <2>3, LastProperties
    <3>2. \A x \in rest : x \in Nat
      BY <1>5
    <3> QED
      BY <3>1, <3>2
  <2> QED
    BY <2>2, <2>3
<1>8. marked' \subseteq Nat /\ pending' \in Nat /\ lastSent' \in Nat
  BY <1>4, <1>5, <1>6, <1>7
<1> QED
  BY <1>1, <1>8

\* The part of TypeOK that is about the gate, the link and the peer.
GateTypes ==
    /\ opened \in BOOLEAN
    /\ timer \in BOOLEAN
    /\ link \in {"closed", "open", "dying"}
    /\ lastSent \in Nat
    /\ pending \in Nat
    /\ marked \subseteq Nat
    /\ maxAcks \in MaxAcksValues
    /\ wire \in Seq(Message)
    /\ acks \in Seq(Message)
    /\ todo \subseteq Message
    /\ seen \subseteq Ids
    /\ processed \subseteq Ids
    /\ faults \in 0..MaxFaults

LEMMA FaultTypes ==
  ASSUME GateTypes, Fault
  PROVE  faults' \in 0..MaxFaults
BY GateAssumption DEF GateTypes, Fault

LEMMA DropTypes ==
  ASSUME GateTypes, DropTraffic
  PROVE  wire' \in Seq(Message) /\ acks' \in Seq(Message) /\ todo' \subseteq Message
BY DEF GateTypes, DropTraffic

LEMMA HeadTypes ==
  ASSUME NEW s \in Seq(Message), s # <<>>
  PROVE  Head(s) \in Message /\ Head(s).id \in Ids /\ Tail(s) \in Seq(Message)
<1>1. Head(s) \in Message /\ Tail(s) \in Seq(Message)
  BY HeadTailProperties
<1> QED
  BY <1>1 DEF Message

LEMMA GateTypesInit == Init => GateTypes
<1> SUFFICES ASSUME Init PROVE GateTypes
  OBVIOUS
<1>1. opened \in BOOLEAN /\ timer \in BOOLEAN /\ link \in {"closed", "open", "dying"}
  BY DEF Init
<1>2. lastSent \in Nat /\ pending \in Nat /\ marked \subseteq Nat
  BY DEF Init
<1>3. faults \in 0..MaxFaults /\ maxAcks \in MaxAcksValues
  BY GateAssumption DEF Init
<1>4. wire \in Seq(Message) /\ acks \in Seq(Message)
  BY DEF Init
<1>5. todo = {} /\ seen = {} /\ processed = {}
  BY DEF Init
<1> QED
  BY <1>1, <1>2, <1>3, <1>4, <1>5 DEF GateTypes

LEMMA GateTypesNext ==
  ASSUME GateTypes, TrqInd, TrqInd', [Next]_vars
  PROVE  GateTypes'
<1>0. wire \in Seq(Message) /\ acks \in Seq(Message)
  BY DEF GateTypes
<1>1. CASE MtStart \/ BackupStep \/ Admin
  BY <1>1 DEF MtStart, BackupStep, Admin, GateTypes, gateVars, linkVars, peerVars
<1>2. CASE MtStop
  <2>1. link' \in {"closed", "open", "dying"} /\ DropTraffic
    BY <1>2 DEF MtStop, BreakLink, GateTypes
  <2>2. lastSent' \in Nat
    BY <1>2, TrqAssumption DEF MtStop, Dangling
  <2> QED
    BY <1>2, <2>1, <2>2, DropTypes, FaultTypes DEF MtStop, GateTypes
<1>3. CASE OnOpen
  <2>1. /\ SendBatch(q, marked, lastSent, pending)
        /\ q \subseteq q'
        /\ marked \in SUBSET Nat /\ lastSent \in Nat /\ pending \in Nat
    BY <1>3 DEF OnOpen, GateTypes, trqVars
  <2> QED
    BY <1>0, <1>3, <2>1, BatchTypes DEF OnOpen, GateTypes, peerVars
<1>4. CASE OnClose
  BY <1>4 DEF OnClose, ResetSoftQueue, GateTypes, peerVars
<1>5. CASE SendMessage
  <2>1. UNCHANGED <<opened, timer, maxAcks, acks, todo, seen, processed, faults, link>>
    BY <1>5 DEF SendMessage, peerVars
  <2>2. CASE SendsNow
    <3>1. Send({Len(topic')}, marked, lastSent, pending) /\ {Len(topic')} \subseteq q'
      BY <1>5, <2>2 DEF SendMessage, TrqAppend
    <3>2. /\ Len(topic') \in Nat
          /\ {Len(topic')} \in SUBSET (1..Len(topic'))
          /\ \A r \in {Len(topic')} : [rowid |-> r, id |-> topic'[r].id] \in Message
      BY <3>1, RowsAfter
    <3>3. marked \in SUBSET Nat /\ lastSent \in Nat /\ pending \in Nat
      BY DEF GateTypes
    <3>4. wire' \in Seq(Message)
      BY <1>0, <3>1, <3>2, SendTraffic
    <3>5. marked' \subseteq Nat /\ pending' \in Nat /\ lastSent' \in Nat
      BY <3>1, <3>2, <3>3, SendCounts
    <3> QED
      BY <2>1, <3>4, <3>5 DEF GateTypes
  <2>3. CASE ~SendsNow
    BY <1>5, <2>1, <2>3 DEF SendMessage, GateTypes
  <2> QED
    BY <2>2, <2>3
<1>6. CASE ProcessAck
  <2> DEFINE r == Head(acks).rowid
  <2>1. /\ SendBatch(q \ {r}, marked \ {r}, CursorAfter(r), PendingAfter(r))
        /\ UNCHANGED <<opened, link, timer, maxAcks, todo, seen, processed, faults>>
        /\ acks' = Tail(acks) /\ acks # <<>>
        /\ Dequeue(r)
    BY <1>6 DEF ProcessAck, AckRead, peerVars
  <2>2. acks' \in Seq(Message)
    BY <1>0, <2>1
  <2>3. q \ {r} \subseteq q'
    BY <2>1 DEF Dequeue, TrqUnload, trqVars
  <2>4. CursorAfter(r) \in Nat /\ PendingAfter(r) \in Nat
    BY DEF CursorAfter, PendingAfter, GateTypes
  <2>5. marked \ {r} \in SUBSET Nat
    BY DEF GateTypes
  <2> HIDE DEF r
  <2>6. /\ wire' \in Seq(Message)
        /\ marked' \subseteq Nat /\ pending' \in Nat /\ lastSent' \in Nat
    BY <1>0, <2>1, <2>3, <2>4, <2>5, BatchTypes
  <2> QED
    BY <2>1, <2>2, <2>6 DEF GateTypes
<1>7. CASE ProcessAckBreaks
  <2> DEFINE r == Head(acks).rowid
  <2>1. /\ BreakBatch(q \ {r}, marked \ {r}, CursorAfter(r), PendingAfter(r))
        /\ DropTraffic /\ Dequeue(r) /\ timer' = FALSE
        /\ UNCHANGED <<maxAcks, seen, processed>>
    BY <1>7 DEF ProcessAckBreaks
  <2>2. q \ {r} \subseteq q'
    BY <2>1 DEF Dequeue, TrqUnload, trqVars
  <2> HIDE DEF r
  <2>3. /\ Fault /\ link' = "closed" /\ opened' = FALSE
        /\ marked' \subseteq Nat /\ pending' \in Nat /\ lastSent' \in Nat
    BY <2>1, <2>2, BreakTypes
  <2> QED
    BY <2>1, <2>3, DropTypes, FaultTypes DEF GateTypes
<1>17. CASE OnOpenBreaks
  <2>1. /\ BreakBatch(q, marked, lastSent, pending)
        /\ q \subseteq q' /\ timer' = TRUE
        /\ UNCHANGED <<maxAcks, wire, acks, todo, seen, processed>>
    BY <1>17 DEF OnOpenBreaks, trqVars, peerVars
  <2>2. /\ Fault /\ link' = "closed" /\ opened' = FALSE
        /\ marked' \subseteq Nat /\ pending' \in Nat /\ lastSent' \in Nat
    BY <2>1, BreakTypes
  <2> QED
    BY <2>1, <2>2, FaultTypes DEF GateTypes
<1>8. CASE Timeout
  <2>1. /\ SendBatch(q, marked, lastSent, pending)
        /\ q \subseteq q'
        /\ marked \in SUBSET Nat /\ lastSent \in Nat /\ pending \in Nat
    BY <1>8 DEF Timeout, GateTypes, trqVars, BackupMarkEnd
  <2>2. timer' \in BOOLEAN
    BY <1>8 DEF Timeout
  <2>3. /\ wire' \in Seq(Message)
        /\ marked' \subseteq Nat /\ pending' \in Nat /\ lastSent' \in Nat
    BY <1>0, <2>1, BatchTypes
  <2> QED
    BY <1>8, <2>2, <2>3 DEF Timeout, GateTypes, peerVars
<1>9. CASE SetMaxAcks
  BY <1>9 DEF SetMaxAcks, GateTypes, linkVars, peerVars
<1>10. CASE Crash
  BY <1>10, DropTypes, FaultTypes DEF Crash, GateTypes
<1>11. CASE LinkBreaks
  <2>1. link' \in {"closed", "open", "dying"} /\ DropTraffic /\ Fault
    BY <1>11 DEF LinkBreaks, BreakLink, GateTypes
  <2> QED
    BY <1>11, <2>1, DropTypes, FaultTypes DEF LinkBreaks, GateTypes, gateVars
<1>12. CASE PeerReads
  <2>1. Head(wire) \in Message /\ Head(wire).id \in Ids /\ Tail(wire) \in Seq(Message)
    BY <1>0, <1>12, HeadTypes DEF PeerReads
  <2> QED
    BY <1>12, <2>1 DEF PeerReads, GateTypes, gateVars
<1>13. CASE PeerRefuses
  <2>1. Head(wire).id \in Ids /\ Tail(wire) \in Seq(Message)
    BY <1>0, <1>13, HeadTypes DEF PeerRefuses
  <2> QED
    BY <1>13, <2>1, FaultTypes DEF PeerRefuses, GateTypes, gateVars
<1>14. CASE PeerAnswers
  <2>1. PICK m \in todo :
          /\ todo' = todo \ {m}
          /\ processed' = processed \cup {m.id}
          /\ acks' = IF link = "open" THEN Append(acks, m) ELSE acks
          /\ UNCHANGED <<gateVars, link, wire, seen, faults>>
    BY <1>14 DEF PeerAnswers
  <2>2. m \in Message /\ m.id \in Ids
    BY DEF GateTypes, Message
  <2>3. acks' \in Seq(Message)
    BY <1>0, <2>1, <2>2
  <2> QED
    BY <2>1, <2>2, <2>3 DEF GateTypes, gateVars
<1>15. CASE PeerCrashes
  BY <1>15, FaultTypes DEF PeerCrashes, GateTypes, gateVars
<1>16. CASE UNCHANGED vars
  BY <1>16 DEF vars, gateVars, linkVars, peerVars, GateTypes
<1> QED
  BY <1>1, <1>2, <1>3, <1>4, <1>5, <1>6, <1>7, <1>8, <1>9, <1>10, <1>11, <1>12,
     <1>13, <1>14, <1>15, <1>16, <1>17 DEF Next

LEMMA RetriesTypes == Spec => [](retries \in BOOLEAN)
<1>1. Init => retries \in BOOLEAN
  BY DEF Init
<1>2. retries \in BOOLEAN /\ [Next]_vars => (retries \in BOOLEAN)'
  BY DEF Next, vars, linkVars, MtStart, MtStop, Crash, OnOpen, OnOpenBreaks, OnClose,
         SendMessage, ProcessAck, ProcessAckBreaks, Timeout, BackupStep, SetMaxAcks,
         Admin, LinkBreaks, PeerReads, PeerRefuses, PeerAnswers, PeerCrashes
<1> QED
  BY <1>1, <1>2, PTL DEF Spec

(***************************************************************************)
(* The type invariant of the gate, in every behaviour (c_qiogate.c).       *)
(***************************************************************************)
THEOREM GateTyping == Spec => []TypeOK
<1>1. TrqInd /\ GateTypes /\ retries \in BOOLEAN => TypeOK
  BY DEF TrqInd, GateTypes, TypeOK
<1>2. Spec => []TrqInd
  BY GateUsesQueue, TrqIndInit, TrqIndNext, PTL DEF TrqSpec
<1> QED
  BY <1>1, <1>2, RetriesTypes, GateTypesInit, GateTypesNext, PTL DEF Spec

-----------------------------------------------------------------------------
(***************************************************************************)
(* No message is lost.  The rows of the topic are the last messages        *)
(* accepted, in order; those before are of topics that a backup moved      *)
(* away, processed or given up.  All that travels names a row of the       *)
(* present topic and the message that is in it, so that an ack is for a    *)
(* message already processed, and only such messages are unloaded.  For    *)
(* that a backup must find no ack of the old topic on its way: it is begun *)
(* when all is quiet, and nothing moves while it lasts.                    *)
(***************************************************************************)
\* How many messages were in the topics moved away.
Before == accepted - Len(topic)

\* The messages that the disk may forget.
Done == processed \cup givenUp

Own == {m \in Message : m.rowid \in DOMAIN topic /\ m.id = topic[m.rowid].id}

Answered == {m \in Own : m.id \in processed}

RowsAreMessages ==
    /\ Len(topic) <= accepted
    /\ 1..Before \subseteq Done
    /\ \A r \in DOMAIN topic : topic[r].id = r + Before
    /\ \A r \in DOMAIN topic : topic[r].pending \/ topic[r].id \in Done
    /\ remarked \subseteq DOMAIN topic
    /\ \A r \in remarked : topic[r].id \in Done

TrafficIsOwn ==
    /\ wire \in Seq(Own)
    /\ acks \in Seq(Answered)
    /\ todo \subseteq Own

LossInd ==
    /\ RowsAreMessages
    /\ TrafficIsOwn
    /\ backup # "none" => Quiet

LEMMA LossIndInit == Init => LossInd
BY DEF Init, TrqInit, LossInd, RowsAreMessages, TrafficIsOwn, Before

\* The rows stay where they are, with their messages.
KeepsIds ==
    \A r \in DOMAIN topic : r \in DOMAIN topic' /\ topic'[r].id = topic[r].id

LEMMA SameRows ==
  ASSUME RowsAreMessages, UNCHANGED <<topic, accepted, givenUp>>,
         remarked' \subseteq remarked, processed \subseteq processed'
  PROVE  RowsAreMessages' /\ KeepsIds
BY DEF RowsAreMessages, Before, Done, KeepsIds

LEMMA AppendedMessage ==
  ASSUME TrqTypeOK, RowsAreMessages, TrqAppend, UNCHANGED processed
  PROVE  RowsAreMessages' /\ KeepsIds
<1>1. Len(topic) \in Nat /\ DOMAIN topic = 1..Len(topic) /\ accepted \in Nat
  BY TopicShape DEF TrqTypeOK
<1>2. accepted' = accepted + 1 /\ UNCHANGED <<remarked, givenUp>>
  BY DEF TrqAppend
<1>3. [id |-> accepted', pending |-> TRUE] \in Row
  BY TrqAssumption DEF TrqAppend, TrqTypeOK, Ids, Row
<1>4. /\ Len(topic') = Len(topic) + 1
      /\ DOMAIN topic' = 1..(Len(topic) + 1)
      /\ \A r \in 1..Len(topic) : topic'[r] = topic[r]
      /\ topic'[Len(topic) + 1] = [id |-> accepted', pending |-> TRUE]
  BY <1>1, <1>3 DEF TrqAppend, TrqTypeOK
<1>5. Before' = Before /\ Done' = Done /\ Len(topic') <= accepted'
  BY <1>1, <1>2, <1>4 DEF Before, Done, RowsAreMessages
<1>6. /\ topic'[Len(topic) + 1].id = Len(topic) + 1 + Before
      /\ topic'[Len(topic) + 1].pending
  BY <1>1, <1>2, <1>4 DEF Before, RowsAreMessages
<1>7. \A r \in DOMAIN topic' : r \in DOMAIN topic \/ r = Len(topic) + 1
  BY <1>1, <1>4
<1>8. KeepsIds
  BY <1>1, <1>4 DEF KeepsIds
<1>9. \A r \in DOMAIN topic' : topic'[r].id = r + Before'
  BY <1>1, <1>4, <1>5, <1>6, <1>7 DEF RowsAreMessages
<1>10. \A r \in DOMAIN topic' : topic'[r].pending \/ topic'[r].id \in Done'
  BY <1>1, <1>4, <1>5, <1>6, <1>7 DEF RowsAreMessages
<1>11. remarked' \subseteq DOMAIN topic' /\ \A r \in remarked' : topic'[r].id \in Done'
  BY <1>1, <1>2, <1>4, <1>5 DEF RowsAreMessages
<1> QED
  BY <1>5, <1>8, <1>9, <1>10, <1>11 DEF RowsAreMessages

LEMMA UnloadedMessage ==
  ASSUME TrqTypeOK, QueueIsPending, RowsAreMessages,
         NEW r \in q, topic[r].id \in processed, TrqUnload(r), UNCHANGED processed
  PROVE  RowsAreMessages' /\ KeepsIds
<1>1. Len(topic) \in Nat /\ DOMAIN topic = 1..Len(topic)
  BY TopicShape
<1>2. topic' = [x \in 1..Len(topic) |->
                  IF x = r THEN [id |-> topic[r].id, pending |-> FALSE]
                  ELSE topic[x]]
  BY <1>1 DEF TrqUnload, TrqTypeOK
<1>3. DOMAIN topic' = 1..Len(topic) /\ Len(topic') = Len(topic)
  BY <1>1, <1>2, UnloadedRow
<1>4. \A x \in DOMAIN topic' : topic'[x].id = topic[x].id
  BY <1>2, <1>3
<1>5. \A x \in DOMAIN topic' : x # r => topic'[x] = topic[x]
  BY <1>2, <1>3
<1>6. UNCHANGED <<accepted, remarked, givenUp>>
  BY DEF TrqUnload
<1>7. Before' = Before /\ Done' = Done
  BY <1>3, <1>6 DEF Before, Done
<1>8. KeepsIds
  BY <1>1, <1>3, <1>4 DEF KeepsIds
<1>9. \A x \in DOMAIN topic' : topic'[x].pending \/ topic'[x].id \in Done'
  BY <1>1, <1>3, <1>4, <1>5, <1>7 DEF RowsAreMessages, Done
<1> QED
  BY <1>1, <1>3, <1>4, <1>6, <1>7, <1>8, <1>9 DEF RowsAreMessages

\* An operator may only turn a row not PENDING by giving its message up.
LEMMA MarkedMessages ==
  ASSUME TrqTypeOK, RowsAreMessages, TrqAdmin, UNCHANGED processed
  PROVE  RowsAreMessages' /\ KeepsIds
<1>1. /\ Len(topic) \in Nat /\ DOMAIN topic = 1..Len(topic)
      /\ Len(topic') = Len(topic) /\ DOMAIN topic' = 1..Len(topic)
  BY TopicShape, MarkedRows
<1>2. /\ \A x \in 1..Len(topic) : topic'[x].id = topic[x].id
      /\ givenUp' = givenUp \cup (Outstanding \ Outstanding')
      /\ remarked' = remarked \cup (PendingRows' \ PendingRows)
      /\ PendingRows' \subseteq 1..Len(topic)
      /\ UNCHANGED accepted
  BY MarkedRows
<1>3. Before' = Before /\ Done \subseteq Done'
  BY <1>1, <1>2 DEF Before, Done
<1>4. \A x, y \in 1..Len(topic) : topic[x].id = topic[y].id => x = y
  <2>1. \A x \in 1..Len(topic) : topic[x].id = x + Before
    BY <1>1 DEF RowsAreMessages
  <2>2. Before \in Int
    BY <1>1 DEF Before, TrqTypeOK
  <2> QED
    BY <2>1, <2>2
<1>5. ASSUME NEW r \in 1..Len(topic), ~topic'[r].pending
      PROVE  topic'[r].id \in Done'
  <2>1. CASE topic[r].pending
    <3>1. topic[r].id \in Outstanding
      BY <1>1, <2>1 DEF Outstanding, PendingRows
    <3>2. topic[r].id \notin Outstanding'
      BY <1>1, <1>2, <1>4, <1>5 DEF Outstanding, PendingRows
    <3> QED
      BY <1>2, <3>1, <3>2 DEF Done
  <2>2. CASE ~topic[r].pending
    BY <1>1, <1>2, <1>3, <2>2 DEF RowsAreMessages
  <2> QED
    BY <2>1, <2>2
<1>6. ASSUME NEW r \in remarked'
      PROVE  r \in 1..Len(topic) /\ topic'[r].id \in Done'
  <2>1. CASE r \in remarked
    BY <1>1, <1>2, <1>3, <2>1 DEF RowsAreMessages
  <2>2. CASE r \notin remarked
    <3>1. r \in 1..Len(topic) /\ r \notin PendingRows
      BY <1>2, <1>6, <2>2
    <3>2. topic[r].id \in Done
      BY <1>1, <3>1 DEF PendingRows, RowsAreMessages
    <3> QED
      BY <1>2, <1>3, <3>1, <3>2
  <2> QED
    BY <2>1, <2>2
<1>7. KeepsIds
  BY <1>1, <1>2 DEF KeepsIds
<1> QED
  BY <1>1, <1>2, <1>3, <1>5, <1>6, <1>7 DEF RowsAreMessages

\* The topic that is moved away owes nothing.
LEMMA MovedMessages ==
  ASSUME TrqTypeOK, SearchInd, RowsAreMessages, BackupMove,
         UNCHANGED processed
  PROVE  RowsAreMessages'
<1>1. /\ Len(topic) \in Nat /\ DOMAIN topic = 1..Len(topic)
      /\ accepted \in Nat /\ Before \in Nat
  BY TopicShape DEF Before, TrqTypeOK, RowsAreMessages
<1>2. /\ topic' = <<>> /\ remarked' = {}
      /\ UNCHANGED <<accepted, givenUp>> /\ backup # "none"
  BY DEF BackupMove
<1>3. Before' = accepted /\ Done' = Done
  BY <1>1, <1>2 DEF Before, Done
<1>4. \A r \in DOMAIN topic : topic[r].id \in Done
  BY <1>2 DEF SearchInd, PendingRows, RowsAreMessages
<1>5. ASSUME NEW i \in 1..accepted PROVE i \in Done
  <2>1. CASE i <= Before
    BY <1>1, <1>5, <2>1 DEF RowsAreMessages
  <2>2. CASE i > Before
    <3>1. i - Before \in 1..Len(topic)
      BY <1>1, <1>5, <2>2 DEF Before
    <3>2. topic[i - Before].id = i
      BY <1>1, <3>1 DEF RowsAreMessages
    <3> QED
      BY <1>1, <1>4, <3>1, <3>2
  <2> QED
    BY <1>1, <2>1, <2>2
<1> QED
  BY <1>1, <1>2, <1>3, <1>5 DEF RowsAreMessages

\* The traffic stays true to the rows when these stay where they are.
LEMMA TrafficStays ==
  ASSUME TrafficIsOwn, KeepsIds, processed \subseteq processed'
  PROVE  wire \in Seq(Own') /\ acks \in Seq(Answered') /\ todo \subseteq Own'
<1>1. Own \subseteq Own'
  BY DEF Own, KeepsIds
<1>2. Answered \subseteq Answered'
  BY <1>1 DEF Answered
<1> QED
  BY <1>1, <1>2, SeqMonotonic DEF TrafficIsOwn

\* What a send puts on the wire names its message by its row.
LEMMA SendIsOwn ==
  ASSUME TrqInd', wire \in Seq(Own'),
         NEW rows, rows \subseteq q', NEW marks, NEW cursor, NEW inflight,
         Send(rows, marks, cursor, inflight)
  PROVE  wire' \in Seq(Own')
<1>1. /\ Len(topic') \in Nat
      /\ rows \in SUBSET (1..Len(topic'))
      /\ \A r \in rows : [rowid |-> r, id |-> topic'[r].id] \in Message
  BY RowsAfter
<1>2. DOMAIN topic' = 1..Len(topic')
  BY DEF TrqInd, TrqTypeOK
<1>3. \A r \in rows : [rowid |-> r, id |-> topic'[r].id] \in Own'
  BY <1>1, <1>2 DEF Own
<1> QED
  BY <1>1, <1>3, SendTraffic

LEMMA BatchIsOwn ==
  ASSUME TrqInd', wire \in Seq(Own'),
         NEW queue, queue \subseteq q', NEW marks, NEW cursor, NEW inflight,
         SendBatch(queue, marks, cursor, inflight)
  PROVE  wire' \in Seq(Own')
<1>1. PICK rows \in SUBSET queue : Send(rows, marks, cursor, inflight)
  BY BatchIsSend
<1> QED
  BY <1>1, SendIsOwn

LEMMA DropIsOwn ==
  ASSUME TrafficIsOwn, KeepsIds, processed \subseteq processed', DropTraffic
  PROVE  TrafficIsOwn'
<1>1. todo \subseteq Own'
  BY TrafficStays
<1> QED
  BY <1>1 DEF TrafficIsOwn, DropTraffic

\* With an empty list nothing is sent.
LEMMA NothingToSend ==
  ASSUME wire = <<>>, NEW marks, NEW cursor, NEW inflight,
         SendBatch({}, marks, cursor, inflight)
  PROVE  wire' = <<>>
<1>1. Send({}, marks, cursor, inflight)
  BY BatchIsSend
<1>2. Cardinality({}) = 0
  BY FS_EmptySet
<1>3. PICK s \in InOrder({}) :
         wire' = IF link' = "open" THEN wire \o Messages(s) ELSE wire
  BY <1>1 DEF Send
<1>4. DOMAIN s = 1..0
  BY <1>2, <1>3 DEF InOrder
<1>5. Messages(s) = <<>>
  BY <1>4 DEF Messages
<1>6. <<>> \o <<>> = <<>>
  OBVIOUS
<1> QED
  BY <1>3, <1>5, <1>6

\* An ack that is read unloads a message that was processed, or nothing.
LEMMA AckIsOwn ==
  ASSUME TrqInd, RowsAreMessages, TrafficIsOwn,
         acks # <<>>, Dequeue(Head(acks).rowid), UNCHANGED processed
  PROVE  /\ RowsAreMessages' /\ KeepsIds
         /\ Tail(acks) \in Seq(Answered')
         /\ UNCHANGED backup
<1>0. TrqTypeOK /\ QueueIsPending
  BY DEF TrqInd
<1>1. Head(acks) \in Answered
  BY HeadTailProperties DEF TrafficIsOwn
<1>2. topic[Head(acks).rowid].id \in processed
  BY <1>1 DEF Answered, Own
<1>3. RowsAreMessages' /\ KeepsIds /\ UNCHANGED backup
  <2>1. CASE Head(acks).rowid \in q
    BY <1>0, <1>2, <2>1, UnloadedMessage DEF Dequeue, TrqUnload
  <2>2. CASE Head(acks).rowid \notin q
    BY <2>2, SameRows DEF Dequeue, trqVars
  <2> QED
    BY <2>1, <2>2
<1>4. acks \in Seq(Answered')
  BY <1>3, TrafficStays
<1> QED
  BY <1>3, <1>4, HeadTailProperties

\* Whatever is not the move of a backup keeps the rows and their messages.
LEMMA RowsNext ==
  ASSUME TrqInd, RowsAreMessages, TrafficIsOwn, [Next]_vars, ~BackupMove
  PROVE  RowsAreMessages' /\ KeepsIds /\ processed \subseteq processed'
<1>0. TrqTypeOK /\ QueueIsPending
  BY DEF TrqInd
<1>1. CASE MtStart
  BY <1>1, SameRows DEF MtStart, TrqStart, peerVars
<1>2. CASE MtStop \/ Crash
  BY <1>2, SameRows DEF MtStop, TrqStop, Crash, TrqCrash
<1>3. CASE OnOpen \/ OnOpenBreaks \/ OnClose \/ SetMaxAcks
  BY <1>3, SameRows DEF OnOpen, OnOpenBreaks, OnClose, SetMaxAcks, trqVars, peerVars
<1>4. CASE SendMessage
  BY <1>0, <1>4, AppendedMessage DEF SendMessage, peerVars
<1>5. CASE ProcessAck \/ ProcessAckBreaks
  BY <1>5, AckIsOwn DEF ProcessAck, ProcessAckBreaks, AckRead, peerVars
<1>6. CASE Timeout
  BY <1>6, SameRows DEF Timeout, BackupMarkEnd, trqVars, peerVars
<1>7. CASE BackupStep
  BY <1>7, SameRows DEF BackupStep, TrqBackupStep, BackupCreate, BackupReset, peerVars
<1>8. CASE Admin
  BY <1>0, <1>8, MarkedMessages DEF Admin, peerVars
<1>9. CASE LinkBreaks \/ PeerReads \/ PeerRefuses \/ PeerAnswers \/ PeerCrashes
  BY <1>9, SameRows
     DEF LinkBreaks, PeerReads, PeerRefuses, PeerAnswers, PeerCrashes, trqVars
<1>10. CASE UNCHANGED vars
  BY <1>10, SameRows DEF vars, trqVars, peerVars
<1> QED
  BY <1>1, <1>2, <1>3, <1>4, <1>5, <1>6, <1>7, <1>8, <1>9, <1>10 DEF Next

LEMMA TrafficNext ==
  ASSUME TrqInd, TrqInd', RowsAreMessages, TrafficIsOwn, [Next]_vars, ~BackupMove
  PROVE  TrafficIsOwn'
<1>0. /\ KeepsIds /\ processed \subseteq processed'
      /\ wire \in Seq(Own') /\ acks \in Seq(Answered') /\ todo \subseteq Own'
  BY RowsNext, TrafficStays
<1>1. CASE \/ MtStart \/ BackupStep \/ Admin \/ OnOpenBreaks \/ OnClose \/ SetMaxAcks
           \/ UNCHANGED vars
  <2>1. UNCHANGED <<wire, acks, todo>>
    BY <1>1 DEF MtStart, BackupStep, Admin, OnOpenBreaks, OnClose, SetMaxAcks, vars,
                linkVars, peerVars
  <2> QED
    BY <1>0, <2>1 DEF TrafficIsOwn
<1>2. CASE MtStop \/ Crash \/ LinkBreaks \/ ProcessAckBreaks
  <2>1. DropTraffic
    BY <1>2 DEF MtStop, Crash, LinkBreaks, ProcessAckBreaks, BreakLink
  <2> QED
    BY <1>0, <2>1, DropIsOwn
<1>3. CASE OnOpen \/ Timeout
  <2>1. SendBatch(q, marked, lastSent, pending) /\ UNCHANGED <<acks, todo, q>>
    BY <1>3 DEF OnOpen, Timeout, BackupMarkEnd, trqVars, peerVars
  <2>2. wire' \in Seq(Own')
    BY <1>0, <2>1, BatchIsOwn
  <2> QED
    BY <1>0, <2>1, <2>2 DEF TrafficIsOwn
<1>4. CASE SendMessage
  <2>1. TrqAppend /\ UNCHANGED <<acks, todo>>
    BY <1>4 DEF SendMessage, peerVars
  <2>2. CASE SendsNow
    <3>1. Send({Len(topic')}, marked, lastSent, pending) /\ {Len(topic')} \subseteq q'
      BY <1>4, <2>2 DEF SendMessage, TrqAppend
    <3>2. wire' \in Seq(Own')
      BY <1>0, <3>1, SendIsOwn
    <3> QED
      BY <1>0, <2>1, <3>2 DEF TrafficIsOwn
  <2>3. CASE ~SendsNow
    BY <1>0, <1>4, <2>1, <2>3 DEF SendMessage, TrafficIsOwn
  <2> QED
    BY <2>2, <2>3
<1>5. CASE ProcessAck
  <2> DEFINE r == Head(acks).rowid
  <2>1. /\ SendBatch(q \ {r}, marked \ {r}, CursorAfter(r), PendingAfter(r))
        /\ UNCHANGED <<todo, processed>>
        /\ acks' = Tail(acks) /\ acks # <<>>
        /\ Dequeue(r)
    BY <1>5 DEF ProcessAck, AckRead, peerVars
  <2>2. acks' \in Seq(Answered')
    BY <2>1, AckIsOwn
  <2>3. q \ {r} \subseteq q'
    BY <2>1 DEF Dequeue, TrqUnload, trqVars
  <2>4. wire' \in Seq(Own')
    BY <1>0, <2>1, <2>3, BatchIsOwn
  <2> QED
    BY <1>0, <2>1, <2>2, <2>4 DEF TrafficIsOwn
<1>6. CASE PeerReads \/ PeerRefuses
  <2>1. UNCHANGED acks
    BY <1>6 DEF PeerReads, PeerRefuses
  <2>2. Head(wire) \in Own' /\ Tail(wire) \in Seq(Own')
    BY <1>0, <1>6, HeadTailProperties DEF PeerReads, PeerRefuses
  <2>3. wire' \in Seq(Own') /\ todo' \subseteq Own'
    BY <1>0, <1>6, <2>2 DEF PeerReads, PeerRefuses
  <2> QED
    BY <1>0, <2>1, <2>3 DEF TrafficIsOwn
<1>7. CASE PeerAnswers
  <2>1. PICK m \in todo :
          /\ todo' = todo \ {m}
          /\ processed' = processed \cup {m.id}
          /\ acks' = IF link = "open" THEN Append(acks, m) ELSE acks
          /\ UNCHANGED wire
    BY <1>7 DEF PeerAnswers
  <2>2. m \in Answered'
    BY <1>0, <2>1 DEF Answered
  <2>3. acks' \in Seq(Answered')
    BY <1>0, <2>1, <2>2
  <2> QED
    BY <1>0, <2>1, <2>3 DEF TrafficIsOwn
<1>8. CASE PeerCrashes
  BY <1>0, <1>8 DEF PeerCrashes, TrafficIsOwn
<1> QED
  BY <1>1, <1>2, <1>3, <1>4, <1>5, <1>6, <1>7, <1>8 DEF Next

\* A backup begins when all is quiet, and until it ends no handler runs.
LEMMA QuietNext ==
  ASSUME BackupSize = 0 \/ (~AcksCrossBackup /\ ~CrashInBackup),
         backup # "none" => Quiet, TrqInd, SearchInd, [Next]_vars
  PROVE  backup' # "none" => Quiet'
<1> SUFFICES ASSUME backup' # "none" PROVE Quiet'
  OBVIOUS
<1>1. CASE backup = "none"
  <2>1. Timeout /\ BackupMarkEnd /\ q = {} /\ (AcksCrossBackup \/ Quiet)
    <3>1. CASE MtStart \/ MtStop \/ Crash \/ Admin
      BY <1>1, <3>1, MarkedRows
         DEF MtStart, TrqStart, MtStop, TrqStop, Crash, TrqCrash, Admin, TrqInd
    <3>2. CASE OnOpen \/ OnOpenBreaks \/ OnClose \/ SetMaxAcks \/ UNCHANGED vars
      BY <1>1, <3>2 DEF OnOpen, OnOpenBreaks, OnClose, SetMaxAcks, vars, trqVars
    <3>3. CASE SendMessage \/ ProcessAck \/ ProcessAckBreaks
      BY <1>1, <3>3 DEF SendMessage, TrqAppend, ProcessAck, ProcessAckBreaks,
                        Dequeue, TrqUnload, trqVars
    <3>4. CASE BackupStep
      BY <1>1, <3>4 DEF BackupStep, TrqBackupStep, BackupMove, BackupCreate, BackupReset
    <3>5. CASE LinkBreaks \/ PeerReads \/ PeerRefuses \/ PeerAnswers \/ PeerCrashes
      BY <1>1, <3>5
         DEF LinkBreaks, PeerReads, PeerRefuses, PeerAnswers, PeerCrashes, trqVars
    <3>6. CASE Timeout
      BY <1>1, <3>6 DEF Timeout, Settled, trqVars
    <3> QED
      BY <3>1, <3>2, <3>3, <3>4, <3>5, <3>6 DEF Next
  <2>2. Quiet
    BY <2>1 DEF BackupMarkEnd, BackupDue
  <2>3. SendBatch({}, marked, lastSent, pending)
    BY <2>1 DEF Timeout
  <2>4. wire' = <<>>
    BY <2>2, <2>3, NothingToSend DEF Quiet
  <2>5. UNCHANGED <<acks, todo>>
    BY <2>1 DEF Timeout, peerVars
  <2> QED
    BY <2>2, <2>4, <2>5 DEF Quiet
<1>2. CASE backup # "none"
  <2>1. Quiet /\ ~CrashInBackup /\ trqOpen
    BY <1>2 DEF SearchInd, TrqInd
  <2>2. CASE MtStart \/ MtStop \/ Crash
    BY <1>2, <2>1, <2>2
       DEF MtStart, TrqStart, MtStop, Crash, TrqCrash
  <2>3. CASE OnOpen \/ OnOpenBreaks \/ OnClose \/ SetMaxAcks \/ UNCHANGED vars
    BY <1>2, <2>1, <2>3
       DEF OnOpen, OnOpenBreaks, Running, OnClose, SetMaxAcks, vars, linkVars,
           peerVars, Quiet
  <2>4. CASE SendMessage \/ ProcessAck \/ ProcessAckBreaks \/ Timeout
    BY <1>2, <2>4 DEF SendMessage, TrqAppend, ProcessAck, ProcessAckBreaks, AckRead,
                      Timeout, Running
  <2>5. CASE BackupStep
    BY <2>1, <2>5 DEF BackupStep, linkVars, peerVars, Quiet
  <2>6. CASE Admin
    BY <2>1, <2>6, MarkedRows DEF Admin, TrqInd
  <2>7. CASE LinkBreaks \/ PeerReads \/ PeerRefuses \/ PeerAnswers \/ PeerCrashes
    BY <2>1, <2>7
       DEF LinkBreaks, BreakLink, DropTraffic, PeerReads, PeerRefuses, PeerAnswers,
           PeerCrashes, Quiet
  <2> QED
    BY <2>2, <2>3, <2>4, <2>5, <2>6, <2>7 DEF Next
<1> QED
  BY <1>1, <1>2

LEMMA LossIndNext ==
  ASSUME BackupSize = 0 \/ (~AcksCrossBackup /\ ~CrashInBackup),
         TrqInd, TrqInd', SearchInd, LossInd, [Next]_vars
  PROVE  LossInd'
<1>1. backup' # "none" => Quiet'
  BY QuietNext DEF LossInd
<1>2. CASE ~BackupMove
  BY <1>1, <1>2, RowsNext, TrafficNext DEF LossInd
<1>3. CASE BackupMove
  <2>1. backup # "none" /\ backup' # "none"
    BY <1>3 DEF BackupMove
  <2>2. UNCHANGED processed
    <3>1. Quiet
      BY <2>1 DEF LossInd
    <3>2. ~PeerAnswers
      BY <3>1 DEF PeerAnswers, Quiet
    <3> QED
      BY <3>2 DEF Next, MtStart, MtStop, Crash, OnOpen, OnOpenBreaks, OnClose, SendMessage,
           ProcessAck, ProcessAckBreaks, Timeout, BackupStep, SetMaxAcks, Admin,
           LinkBreaks, PeerReads, PeerRefuses, PeerCrashes, peerVars, vars
  <2>3. RowsAreMessages'
    BY <1>3, <2>2, MovedMessages DEF LossInd, TrqInd
  <2>4. TrafficIsOwn'
    BY <1>1, <2>1 DEF Quiet, TrafficIsOwn
  <2> QED
    BY <1>1, <2>3, <2>4 DEF LossInd
<1> QED
  BY <1>2, <1>3

\* What the disk owes and what is done are all the messages.
LEMMA NothingIsLost ==
  ASSUME TrqTypeOK, RowsAreMessages
  PROVE  NoMessageLost
<1>1. /\ Len(topic) \in Nat /\ DOMAIN topic = 1..Len(topic)
      /\ accepted \in Nat /\ Before \in Nat
  BY TopicShape DEF Before, TrqTypeOK, RowsAreMessages
<1>2. ASSUME NEW i \in 1..accepted PROVE i \in Outstanding \cup Done
  <2>1. CASE i <= Before
    BY <1>1, <1>2, <2>1 DEF RowsAreMessages
  <2>2. CASE i > Before
    <3>1. i - Before \in DOMAIN topic
      BY <1>1, <1>2, <2>2 DEF Before
    <3>2. topic[i - Before].id = i
      BY <1>1, <3>1 DEF RowsAreMessages
    <3>3. topic[i - Before].pending \/ i \in Done
      BY <3>1, <3>2 DEF RowsAreMessages
    <3> QED
      BY <3>1, <3>2, <3>3 DEF Outstanding, PendingRows
  <2> QED
    BY <1>1, <2>1, <2>2
<1> QED
  BY <1>2 DEF NoMessageLost, Done

LEMMA GateInvariants ==
  Spec => [](TrqInd /\ GateTypes)
<1>1. Spec => []TrqInd
  BY GateUsesQueue, TrqIndInit, TrqIndNext, PTL DEF TrqSpec
<1> QED
  BY <1>1, GateTypesInit, GateTypesNext, PTL DEF Spec

LEMMA GateOwes ==
  ASSUME BackupSize = 0 \/ (~AcksCrossBackup /\ ~CrashInBackup)
  PROVE  Spec => [](SearchInd /\ LossInd)
<1>1. Spec => []SearchInd
  BY GateUsesQueue, TrqIndInit, TrqIndNext, SearchIndInit, SearchIndNext, PTL
  DEF TrqSpec
<1> QED
  BY <1>1, GateInvariants, LossIndInit, LossIndNext, PTL DEF Spec

(***************************************************************************)
(* At least once, for every number of messages, faults and connections,    *)
(* every peer and every max_pending_acks, also when a TLS write fails:     *)
(* what was accepted is still owed by the disk, was processed or was given *)
(* up by an operator.  Backups are no danger to it as long as no process   *)
(* dies inside one and the acks of the old topic come before it            *)
(* (c_qiogate.c dequeue_msg, ac_timeout, tr_queue.c trq_append2,           *)
(* trq_unload_msg, trq_check_backup).                                      *)
(***************************************************************************)
THEOREM GateLosesNoMessage ==
  ASSUME BackupSize = 0 \/ (~AcksCrossBackup /\ ~CrashInBackup)
  PROVE  Spec => []NoMessageLost
<1>1. TrqInd /\ LossInd => NoMessageLost
  BY NothingIsLost DEF TrqInd, LossInd
<1> QED
  BY <1>1, GateInvariants, GateOwes, PTL

-----------------------------------------------------------------------------
(***************************************************************************)
(* The safe part of the refinement: every step of the gate is a step of    *)
(* AtLeastOnce or a stutter.  A send accepts, an ack that is read settles, *)
(* an answer of the peer processes; a backup moves nothing that is owed.   *)
(***************************************************************************)
LEMMA NothingRemarked ==
  ASSUME ~AdminMarks
  PROVE  TrqSpec => [](remarked = {})
<1>1. TrqInit => remarked = {}
  BY DEF TrqInit
<1>2. remarked = {} /\ [TrqNext]_trqVars => (remarked = {})'
  BY DEF TrqNext, trqVars, TrqStart, TrqStop, TrqAppend, TrqUnload, BackupMarkEnd,
         TrqBackupStep, BackupMove, BackupCreate, BackupReset, TrqCrash,
         TrqAdmin, TrqMarkRows
<1> QED
  BY <1>1, <1>2, PTL DEF TrqSpec

LEMMA AppendOwes ==
  ASSUME TrqTypeOK, TrqAppend
  PROVE  /\ accepted < MaxMsgs /\ accepted' = accepted + 1
         /\ Outstanding' = Outstanding \cup {accepted + 1}
<1>1. Len(topic) \in Nat /\ DOMAIN topic = 1..Len(topic)
  BY TopicShape
<1>2. accepted < MaxMsgs /\ accepted' = accepted + 1
  BY DEF TrqAppend
<1>3. [id |-> accepted', pending |-> TRUE] \in Row
  BY TrqAssumption DEF TrqAppend, TrqTypeOK, Ids, Row
<1>4. /\ \A r \in 1..Len(topic) : topic'[r] = topic[r]
      /\ topic'[Len(topic) + 1].id = accepted + 1
  BY <1>1, <1>2, <1>3 DEF TrqAppend, TrqTypeOK
<1>5. /\ PendingRows' = PendingRows \cup {Len(topic) + 1}
      /\ PendingRows \subseteq 1..Len(topic)
  BY AppendedRow, TopicShape
<1>6. Outstanding' = {topic'[r].id : r \in PendingRows'}
  BY DEF Outstanding
<1>7. Outstanding' = Outstanding \cup {accepted + 1}
  BY <1>4, <1>5, <1>6 DEF Outstanding
<1> QED
  BY <1>2, <1>7

LEMMA UnloadSettles ==
  ASSUME TrqTypeOK, QueueIsPending, RowsAreMessages, NEW r \in q, TrqUnload(r)
  PROVE  /\ topic[r].id \in Outstanding
         /\ Outstanding' = Outstanding \ {topic[r].id}
<1>1. /\ Len(topic) \in Nat /\ DOMAIN topic = 1..Len(topic)
      /\ PendingRows \subseteq 1..Len(topic) /\ Before \in Int
  BY TopicShape DEF Before, TrqTypeOK
<1>2. r \in PendingRows
  BY DEF QueueIsPending
<1>3. topic' = [x \in 1..Len(topic) |->
                  IF x = r THEN [id |-> topic[r].id, pending |-> FALSE]
                  ELSE topic[x]]
  BY <1>1 DEF TrqUnload, TrqTypeOK
<1>4. \A x \in PendingRows : topic'[x].id = topic[x].id
  BY <1>1, <1>3
<1>5. PendingRows' = PendingRows \ {r}
  BY UnloadedRow
<1>6. \A x \in PendingRows : topic[x].id = topic[r].id => x = r
  <2>1. \A x \in PendingRows : topic[x].id = x + Before
    BY <1>1 DEF RowsAreMessages
  <2> QED
    BY <1>1, <1>2, <2>1
<1>7. Outstanding' = {topic'[x].id : x \in PendingRows'}
  BY DEF Outstanding
<1> QED
  BY <1>2, <1>4, <1>5, <1>6, <1>7 DEF Outstanding

LEMMA AckSettles ==
  ASSUME TrqInd, RowsAreMessages, TrafficIsOwn,
         acks # <<>>, Dequeue(Head(acks).rowid), UNCHANGED processed
  PROVE  Promise!Settle \/ UNCHANGED <<accepted, Outstanding, processed>>
<1> DEFINE r == Head(acks).rowid
<1>1. CASE r \in q
  <2>1. TrqUnload(r) /\ UNCHANGED accepted
    BY <1>1 DEF Dequeue, TrqUnload
  <2>2. topic[r].id \in processed
    <3>1. Head(acks) \in Answered
      BY HeadTailProperties DEF TrafficIsOwn
    <3> QED
      BY <3>1 DEF Answered, Own
  <2>3. topic[r].id \in Outstanding /\ Outstanding' = Outstanding \ {topic[r].id}
    BY <1>1, <2>1, UnloadSettles DEF TrqInd
  <2> QED
    BY <2>1, <2>2, <2>3 DEF Promise!Settle
<1>2. CASE r \notin q
  BY <1>2 DEF Dequeue, trqVars, Outstanding, PendingRows
<1> QED
  BY <1>1, <1>2

LEMMA AnswerProcesses ==
  ASSUME TrqInd, RowsAreMessages, TrafficIsOwn, PeerAnswers
  PROVE  Promise!Process
<1>1. PICK m \in todo :
        /\ processed' = processed \cup {m.id}
        /\ UNCHANGED trqVars
  BY DEF PeerAnswers
<1>2. /\ Len(topic) \in Nat /\ DOMAIN topic = 1..Len(topic)
      /\ accepted \in Nat /\ Before \in Nat
  BY TopicShape DEF Before, TrqInd, TrqTypeOK, RowsAreMessages
<1>3. m.rowid \in 1..Len(topic) /\ m.id = m.rowid + Before
  BY <1>2 DEF TrafficIsOwn, Own, RowsAreMessages
<1>4. m.id \in 1..accepted
  BY <1>2, <1>3 DEF Before
<1>5. UNCHANGED <<accepted, Outstanding>>
  BY <1>1 DEF trqVars, Outstanding, PendingRows
<1> QED
  BY <1>1, <1>4, <1>5 DEF Promise!Process

LEMMA PromiseNext ==
  ASSUME ~AdminMarks, TrqInd, SearchInd, LossInd, remarked = {}, [Next]_vars
  PROVE  Promise!Next \/ UNCHANGED <<accepted, Outstanding, processed>>
<1>0. TrqTypeOK /\ RowsAreMessages /\ TrafficIsOwn
  BY DEF TrqInd, LossInd
<1>1. ASSUME UNCHANGED <<topic, accepted, processed>>
      PROVE  UNCHANGED <<accepted, Outstanding, processed>>
  BY <1>1 DEF Outstanding, PendingRows
<1>2. CASE MtStart \/ MtStop \/ Crash
  BY <1>1, <1>2 DEF MtStart, TrqStart, MtStop, TrqStop, Crash, TrqCrash, peerVars
<1>3. CASE \/ OnOpen \/ OnOpenBreaks \/ OnClose \/ SetMaxAcks \/ Timeout
           \/ UNCHANGED vars
  BY <1>1, <1>3 DEF OnOpen, OnOpenBreaks, OnClose, SetMaxAcks, Timeout, BackupMarkEnd, vars,
                    trqVars, peerVars
<1>4. CASE SendMessage
  <2>1. TrqAppend /\ UNCHANGED processed
    BY <1>4 DEF SendMessage, peerVars
  <2>2. Promise!Accept
    BY <1>0, <2>1, AppendOwes DEF Promise!Accept
  <2> QED
    BY <2>2 DEF Promise!Next
<1>5. CASE ProcessAck \/ ProcessAckBreaks
  <2>1. acks # <<>> /\ Dequeue(Head(acks).rowid) /\ UNCHANGED processed
    BY <1>5 DEF ProcessAck, ProcessAckBreaks, AckRead, peerVars
  <2> QED
    BY <1>0, <2>1, AckSettles DEF Promise!Next
<1>6. CASE BackupStep
  <2>1. UNCHANGED <<accepted, processed>>
    BY <1>6 DEF BackupStep, TrqBackupStep, BackupMove, BackupCreate, BackupReset,
                peerVars
  <2>2. CASE BackupMove
    BY <2>1, <2>2 DEF BackupMove, SearchInd, Outstanding, PendingRows
  <2>3. CASE BackupCreate \/ BackupReset
    BY <1>1, <2>1, <2>3 DEF BackupCreate, BackupReset
  <2> QED
    BY <1>6, <2>2, <2>3 DEF BackupStep, TrqBackupStep
<1>7. CASE Admin
  BY <1>7 DEF Admin, TrqAdmin, TrqMarkRows
<1>8. CASE LinkBreaks \/ PeerReads \/ PeerRefuses \/ PeerCrashes
  BY <1>1, <1>8 DEF LinkBreaks, PeerReads, PeerRefuses, PeerCrashes, trqVars
<1>9. CASE PeerAnswers
  BY <1>0, <1>9, AnswerProcesses DEF Promise!Next
<1> QED
  BY <1>2, <1>3, <1>4, <1>5, <1>6, <1>7, <1>8, <1>9 DEF Next

(***************************************************************************)
(* The gate implements the safe part of what AtLeastOnce promises: each    *)
(* message is accepted once, is owed from then on, is settled only after   *)
(* the peer has processed it, and is never owed again.  For every number   *)
(* of messages, faults and windows, for any peer and failing TLS writes,   *)
(* with backups that find no ack on its way (c_qiogate.c                   *)
(* ac_send_message, dequeue_msg, ac_timeout).                              *)
(***************************************************************************)
THEOREM GateKeepsPromise ==
  ASSUME ~AdminMarks,
         BackupSize = 0 \/ (~AcksCrossBackup /\ ~CrashInBackup)
  PROVE  Spec => Promise!SafeSpec
<1>1. Init => Promise!Init
  BY DEF Init, TrqInit, Promise!Init, Outstanding, PendingRows
<1>2. Spec => [](remarked = {})
  BY GateUsesQueue, NothingRemarked, PTL
<1>3. TrqInd /\ SearchInd /\ LossInd /\ remarked = {} /\ [Next]_vars
        => [Promise!Next]_(Promise!vars)
  BY PromiseNext DEF Promise!vars
<1> QED
  BY <1>1, <1>2, <1>3, GateInvariants, GateOwes, PTL DEF Spec, Promise!SafeSpec
=============================================================================
