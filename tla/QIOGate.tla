------------------------------ MODULE QIOGate ------------------------------
(***************************************************************************)
(* The queued output gate of root-linux/src/c_qiogate.c over the queue of  *)
(* TrQueue, its connection and the peer that acknowledges.                 *)
(*                                                                         *)
(* The gate stores each message before it sends it, keeps at most          *)
(* max_pending_acks of them sent and not acknowledged, and unloads a       *)
(* message when its ack comes.  A soft mark says which messages were sent  *)
(* in the current connection; it is reset when the connection closes, and  *)
(* what was not acknowledged is sent again in the next one.                *)
(*                                                                         *)
(* The yuno is single-threaded: each handler runs to its end, with every   *)
(* event that it sends to another gobj.  What interleaves is the handlers, *)
(* the network, the peer, and the death of a process.  The gobjs below     *)
(* (C_IOGATE, C_CHANNEL, a protocol, C_TCP) are taken as one connection;   *)
(* `dying' is C_TCP in ST_WAIT_STOPPED: nothing is sent or read any more   *)
(* and EV_ON_CLOSE has not come yet.                                       *)
(***************************************************************************)
EXTENDS TrQueue, FiniteSets, Functions

CONSTANTS
    MaxAcksValues,  \* values of the attribute max_pending_acks, 0 = no limit
    MaxFaults,      \* bound: stops, broken connections, crashes, refusals
    AcksCrossBackup,\* an ack may come later than the next backup
    PeerMayRefuse,  \* a peer may drop a message and never acknowledge it
    TlsWriteMayFail \* ytls_encrypt_data() may fail

ASSUME GateAssumption ==
    /\ MaxAcksValues \subseteq Nat
    /\ MaxAcksValues # {}
    /\ MaxFaults \in Nat
    /\ {AcksCrossBackup, PeerMayRefuse, TlsWriteMayFail} \subseteq BOOLEAN

VARIABLES
    opened,     \* gate: bottom_side_opened
    lastSent,   \* gate: last_msg_sent, a row, 0 = NULL, or Dangling
    pending,    \* gate: pending_acks
    marked,     \* gate: the rows with the soft mark TRQ_MSG_PENDING
    timer,      \* gate: the timer of timeout_poll is armed
    maxAcks,    \* gate: max_pending_acks
    link,       \* "closed", "open" or "dying"
    retries,    \* C_TCP, closed, is bound to connect again
    wire,       \* sent messages the peer has not read, each [rowid, id]
    acks,       \* acks the gate has not read, with the message they echo
    todo,       \* peer: messages read, in process
    seen,       \* peer: every message it ever read
    processed,  \* peer: every message it ever processed
    faults      \* how many faults happened

gateVars == <<opened, lastSent, pending, marked, timer, maxAcks>>
peerVars == <<todo, seen, processed>>
linkVars == <<link, retries, wire, acks>>
vars == <<trqVars, gateVars, linkVars, peerVars, faults>>

\* What travels: the row number in the metadata, the message in the payload.
Message == [rowid : Nat, id : Ids]

\* A pointer to a message that trq_close() freed.
Dangling == MaxMsgs + 1

Fault == faults < MaxFaults /\ faults' = faults + 1

Init ==
    /\ TrqInit
    /\ opened = FALSE
    /\ lastSent = 0
    /\ pending = 0
    /\ marked = {}
    /\ timer = FALSE
    /\ maxAcks \in MaxAcksValues
    /\ link = "closed"
    /\ retries = TRUE
    /\ wire = <<>>
    /\ acks = <<>>
    /\ todo = {}
    /\ seen = {}
    /\ processed = {}
    /\ faults = 0

-----------------------------------------------------------------------------
(* Sending.  A handler runs only outside trq_check_backup(). *)

Running == trqOpen /\ backup = "none"

\* The rows of S in the order of the list.
InOrder(S) == {s \in [1..Cardinality(S) -> S] :
                 \A i, j \in DOMAIN s : i < j => s[i] < s[j]}

Messages(s) == [i \in DOMAIN s |-> [rowid |-> s[i], id |-> topic'[s[i]].id]]

\* Mutant of Room: one more than max_pending_acks.
RoomOffByOne(inflight) == maxAcks = 0 \/ inflight <= maxAcks

Room(inflight) == maxAcks = 0 \/ inflight < maxAcks

(***************************************************************************)
(* The loop of send_batch_messages(gobj, 0) over the rows from the cursor: *)
(* the unmarked ones, while there is room; it stops at the first without.  *)
(***************************************************************************)
Batch(queue, marks, cursor, inflight) ==
    LET unsent == {r \in queue \ marks : r >= cursor}
    IN  {r \in unsent : Room(inflight + Cardinality({x \in unsent : x < r}))}

Last(S, default) ==
    IF S = {} THEN default ELSE CHOOSE r \in S : \A x \in S : x <= r

\* The rows are sent below, in order, marked and counted.
Send(rows, marks, cursor, inflight) ==
    /\ \E s \in InOrder(rows) :
         wire' = IF link' = "open" THEN wire \o Messages(s) ELSE wire
    /\ marked' = marks \cup rows
    /\ pending' = inflight + Cardinality(rows)
    /\ lastSent' = Last(rows, cursor)

\* send_batch_messages(gobj, 0), which is called only if bottom_side_opened.
SendBatch(queue, marks, cursor, inflight) ==
    Send(IF opened' THEN Batch(queue, marks, cursor, inflight) ELSE {},
         marks, cursor, inflight)

(***************************************************************************)
(* The same, but the first write of the batch fails in the TLS filter.  No *)
(* I/O is in progress, so C_TCP closes at once and ac_on_close() runs      *)
(* inside send_message_to_bottom_side(): the loop of send_batch_messages() *)
(* goes on with what it reset, and sends into a closed connection.         *)
(***************************************************************************)
BreakBatch(queue, marks, cursor, inflight) ==
    LET batch == Batch(queue, marks, cursor, inflight) IN
    /\ TlsWriteMayFail
    /\ Fault
    /\ \E first \in batch :
         LET rest == Batch(queue, {first}, first, 1) IN
         /\ \A x \in batch : first <= x
         /\ marked' = {first} \cup rest
         /\ pending' = 1 + Cardinality(rest)
         /\ lastSent' = Last(rest, 0)
    /\ link' = "closed"
    /\ opened' = FALSE

-----------------------------------------------------------------------------
(* The end of a connection: what travels in it is lost.  The peer goes on  *)
(* with what it has read, and answers in the connection there is then.     *)

DropTraffic ==
    /\ wire' = <<>>
    /\ acks' = <<>>
    /\ UNCHANGED todo

BreakLink ==
    /\ link' = IF link = "open" THEN "dying" ELSE link
    /\ DropTraffic

-----------------------------------------------------------------------------
(* The handlers of C_QIOGATE. *)

\* mt_start(): the queue is opened and loaded; the rest stays as it was.
MtStart ==
    /\ TrqStart
    /\ UNCHANGED <<gateVars, linkVars, peerVars, faults>>

(***************************************************************************)
(* mt_stop(), and the stop of the gobjs below that gobj_stop_tree() goes   *)
(* on with: the connection begins to close.  A client C_TCP that is        *)
(* stopped while it waits to connect cannot be started again (c_tcp.c:263; *)
(* TcpRestart.cfg), so with no connection there may be none any more.      *)
(***************************************************************************)
MtStop ==
    /\ Fault
    /\ backup = "none"
    /\ TrqStop
    /\ timer' = FALSE
    /\ marked' = {}
    /\ lastSent' = IF lastSent = 0 THEN 0 ELSE Dangling
    /\ BreakLink
    /\ retries' = (retries /\ link # "closed")
    /\ UNCHANGED <<opened, pending, maxAcks, seen, processed>>

\* The connection is made and its EV_ON_OPEN comes up: ac_on_open().
OnOpen ==
    /\ Running
    /\ link = "closed"
    /\ link' = "open"
    /\ retries' = TRUE
    /\ opened' = TRUE
    /\ timer' = TRUE
    /\ UNCHANGED trqVars
    /\ SendBatch(q, marked, lastSent, pending)
    /\ UNCHANGED <<maxAcks, acks, peerVars, faults>>

\* The same, with a batch that breaks: the timer is armed after it.
OnOpenBreaks ==
    /\ Running
    /\ link = "closed"
    /\ BreakBatch(q, marked, lastSent, pending)
    /\ retries' = TRUE
    /\ timer' = TRUE
    /\ UNCHANGED <<trqVars, maxAcks, wire, acks, peerVars>>

\* Mutant of ResetSoftQueue: the cursor survives the connection.
ResetKeepsCursor == marked' = {} /\ pending' = 0 /\ UNCHANGED lastSent

\* Mutant of ResetSoftQueue: the soft marks survive it.
ResetKeepsMarks == UNCHANGED marked /\ pending' = 0 /\ lastSent' = 0

\* reset_soft_queue()
ResetSoftQueue == marked' = {} /\ pending' = 0 /\ lastSent' = 0

\* ac_on_close(), once every I/O of the connection has stopped.
OnClose ==
    /\ link = "dying"
    /\ backup = "none"
    /\ link' = "closed"
    /\ opened' = FALSE
    /\ timer' = FALSE
    /\ ResetSoftQueue
    /\ UNCHANGED <<trqVars, maxAcks, retries, wire, acks, peerVars, faults>>

\* The row before the last one of the list, which has just been appended.
PrevIsSent == q = {} \/ Last(q, 0) \in marked

\* Mutant of SendsNow: the message overtakes the unsent ones before it.
SendsAnyway == opened /\ Room(pending)

\* send_batch_messages(gobj, msg) goes as far as sending.
SendsNow == opened /\ PrevIsSent /\ Room(pending)

\* ac_send_message(): enqueue_message(), then send_batch_messages(gobj, msg).
SendMessage ==
    /\ TrqAppend
    /\ UNCHANGED <<link, retries>>
    /\ IF SendsNow
       THEN Send({Len(topic')}, marked, lastSent, pending)
       ELSE UNCHANGED <<wire, marked, pending, lastSent>>
    /\ UNCHANGED <<opened, timer, maxAcks, acks, peerVars, faults>>

(***************************************************************************)
(* dequeue_msg(): the message is looked for by its row number alone (the   *)
(* __msg_t__ of the ack is not compared); one that is not there changes    *)
(* nothing.                                                                *)
(***************************************************************************)
\* Mutant of Dequeue: acks are taken to come in the order of the messages.
DequeueOldest(r) ==
    IF q = {} THEN UNCHANGED trqVars
    ELSE TrqUnload(CHOOSE x \in q : \A y \in q : x <= y)

Dequeue(r) == IF r \in q THEN TrqUnload(r) ELSE UNCHANGED trqVars

\* Mutant of PendingAfter: every ack lowers the count.
PendingAfterAny(r) == pending - 1

PendingAfter(r) == IF r \in marked /\ pending > 0 THEN pending - 1 ELSE pending

\* Mutant of CursorAfter: the cursor is not reset.
CursorKept(r) == lastSent

CursorAfter(r) == IF r \in q /\ lastSent = r THEN 0 ELSE lastSent

\* An ack that the connection brings to the gate.
AckRead == Running /\ link = "open" /\ acks # <<>>

\* EV_ON_MESSAGE: process_ack(), dequeue_msg(), then another batch.
ProcessAck ==
    /\ AckRead
    /\ LET r == Head(acks).rowid IN
       /\ Dequeue(r)
       /\ UNCHANGED <<opened, link, retries>>
       /\ SendBatch(q \ {r}, marked \ {r}, CursorAfter(r), PendingAfter(r))
    /\ acks' = Tail(acks)
    /\ UNCHANGED <<timer, maxAcks, peerVars, faults>>

\* The same, with a batch that breaks.
ProcessAckBreaks ==
    /\ AckRead
    /\ opened
    /\ LET r == Head(acks).rowid IN
       /\ Dequeue(r)
       /\ BreakBatch(q \ {r}, marked \ {r}, CursorAfter(r), PendingAfter(r))
    /\ timer' = FALSE
    /\ DropTraffic
    /\ UNCHANGED <<maxAcks, retries, seen, processed>>

\* Mutant of Settled: the backup does not wait for an empty queue.
SettledUnchecked == TRUE

\* When the periodic timer may start a backup.
Settled == q = {} /\ pending = 0

\* No message of the present topic is with the peer or on its way.
Quiet == wire = <<>> /\ acks = <<>> /\ todo = {}

(***************************************************************************)
(* ac_timeout(): a batch and, every timeout_backup seconds, the backup of  *)
(* a settled queue; the timer is armed again.  What trq_check_backup()     *)
(* does besides its first write are the steps TrqBackupStep.  Unless       *)
(* AcksCrossBackup, timeout_backup is taken to be long enough for the      *)
(* acks on their way to come first.                                        *)
(***************************************************************************)
Timeout ==
    /\ Running
    /\ timer
    /\ \/ UNCHANGED trqVars
       \/ Settled /\ (AcksCrossBackup \/ Quiet) /\ BackupMarkEnd
    /\ UNCHANGED <<opened, link, retries>>
    /\ SendBatch(q, marked, lastSent, pending)
    /\ timer' = TRUE
    /\ UNCHANGED <<maxAcks, acks, peerVars, faults>>

Admin ==
    /\ TrqAdmin
    /\ UNCHANGED <<gateVars, linkVars, peerVars, faults>>

BackupStep ==
    /\ TrqBackupStep
    /\ UNCHANGED <<gateVars, linkVars, peerVars, faults>>

\* mt_writing(): max_pending_acks takes another value.
SetMaxAcks ==
    /\ backup = "none"
    /\ maxAcks' \in MaxAcksValues \ {maxAcks}
    /\ UNCHANGED <<trqVars, opened, lastSent, pending, marked, timer>>
    /\ UNCHANGED <<linkVars, peerVars, faults>>

\* The yuno dies.  Its peer sees the connection close.
Crash ==
    /\ Fault
    /\ TrqCrash
    /\ opened' = FALSE
    /\ lastSent' = 0
    /\ pending' = 0
    /\ marked' = {}
    /\ timer' = FALSE
    /\ link' = "closed"
    /\ retries' = TRUE
    /\ DropTraffic
    /\ UNCHANGED <<maxAcks, seen, processed>>

-----------------------------------------------------------------------------
(* The network and the peer. *)

LinkBreaks ==
    /\ Fault
    /\ link = "open"
    /\ BreakLink
    /\ UNCHANGED <<trqVars, gateVars, retries, seen, processed>>

\* The peer reads a message; one that it has in process already is dropped.
PeerReads ==
    /\ wire # <<>>
    /\ wire' = Tail(wire)
    /\ todo' = todo \cup {Head(wire)}
    /\ seen' = seen \cup {Head(wire).id}
    /\ UNCHANGED <<trqVars, gateVars, link, retries, acks, processed, faults>>

\* The peer reads a message and drops it.
PeerRefuses ==
    /\ PeerMayRefuse
    /\ Fault
    /\ wire # <<>>
    /\ wire' = Tail(wire)
    /\ seen' = seen \cup {Head(wire).id}
    /\ UNCHANGED <<trqVars, gateVars, link, retries, acks, todo, processed>>

\* The peer has processed a message and acknowledges it with trq_answer(),
\* over the connection there is at that moment.
PeerAnswers ==
    \E m \in todo :
      /\ todo' = todo \ {m}
      /\ processed' = processed \cup {m.id}
      /\ acks' = IF link = "open" THEN Append(acks, m) ELSE acks
      /\ UNCHANGED <<trqVars, gateVars, link, retries, wire, seen, faults>>

PeerCrashes ==
    /\ Fault
    /\ todo # {}
    /\ link' = IF link = "open" THEN "dying" ELSE link
    /\ wire' = <<>>
    /\ acks' = <<>>
    /\ todo' = {}
    /\ UNCHANGED <<trqVars, gateVars, retries, seen, processed>>

-----------------------------------------------------------------------------

Next ==
    \/ MtStart \/ MtStop \/ Crash
    \/ OnOpen \/ OnOpenBreaks \/ OnClose
    \/ SendMessage \/ ProcessAck \/ ProcessAckBreaks
    \/ Timeout \/ BackupStep \/ SetMaxAcks \/ Admin
    \/ LinkBreaks \/ PeerReads \/ PeerRefuses \/ PeerAnswers \/ PeerCrashes

Spec == Init /\ [][Next]_vars

(***************************************************************************)
(* A handler whose event is there runs; a yuno that stopped is started     *)
(* again (a dead one is relaunched by its watcher); C_TCP tries to connect *)
(* until it succeeds, unless a stop may have ended that (retries); the     *)
(* peer goes on.  Faults are finitely many.  No fairness is asked of       *)
(* SendMessage, SetMaxAcks or a fault.                                     *)
(***************************************************************************)
Fairness ==
    /\ WF_vars(MtStart) /\ WF_vars(retries /\ OnOpen) /\ WF_vars(OnClose)
    /\ WF_vars(ProcessAck) /\ WF_vars(Timeout) /\ WF_vars(BackupStep)
    /\ WF_vars(PeerReads) /\ WF_vars(PeerAnswers)

FairSpec == Spec /\ Fairness

-----------------------------------------------------------------------------

TypeOK ==
    /\ TrqTypeOK
    /\ opened \in BOOLEAN
    /\ lastSent \in Nat
    /\ pending \in Nat
    /\ marked \subseteq Nat
    /\ timer \in BOOLEAN
    /\ maxAcks \in MaxAcksValues
    /\ link \in {"closed", "open", "dying"}
    /\ retries \in BOOLEAN
    /\ wire \in Seq(Message)
    /\ acks \in Seq(Message)
    /\ todo \subseteq Message
    /\ seen \subseteq Ids
    /\ processed \subseteq Ids
    /\ faults \in 0..MaxFaults

(***************************************************************************)
(* At least once: a message that the gate accepted is still owed by the    *)
(* disk or was processed by the peer, whatever crashed, stopped or was     *)
(* resent in between, unless an operator gave it up (enqueue_message       *)
(* before send; dequeue_msg only on an ack).                               *)
(***************************************************************************)
NoMessageLost == 1..accepted \subseteq Outstanding \cup processed \cup givenUp

(***************************************************************************)
(* pending_acks counts exactly the rows sent in this connection that are   *)
(* not acknowledged: neither a duplicated ack, nor one for a message of a  *)
(* former connection, nor a reset makes it drift, so that the window       *)
(* neither closes for ever nor opens too wide (dequeue_msg,                *)
(* reset_soft_queue).  From a stop until the old connection has closed     *)
(* the count is of that connection.                                        *)
(***************************************************************************)
PendingAcksExact == Running /\ link # "dying" => pending = Cardinality(marked)

(***************************************************************************)
(* The sent rows are the oldest of the queue.  ac_send_message relies on   *)
(* it: it looks only at the mark of the row before the last one to know    *)
(* that nothing older waits (send_batch_messages, case of one message).    *)
(***************************************************************************)
MarksArePrefix ==
    /\ marked \subseteq q
    /\ \A r \in marked, x \in q : x < r => x \in marked

(***************************************************************************)
(* The cursor last_msg_sent, a pointer into the list, points to a message  *)
(* of the list (or is NULL) whenever a batch may follow it, and leaves no  *)
(* unsent row behind: a batch that starts there skips nothing              *)
(* (send_batch_messages, dequeue_msg, trq_close in mt_stop).               *)
(***************************************************************************)
CursorSafe ==
    trqOpen /\ link # "dying" =>
        /\ lastSent \in q \cup {0}
        /\ \A r \in q \ marked : lastSent < r

(***************************************************************************)
(* While connected, the oldest message of the queue is one of those sent:  *)
(* the gate never holds a queue with an idle connection waiting for an     *)
(* event that would not come (ac_on_open, ac_send_message, process_ack).   *)
(***************************************************************************)
HeadInFlight ==
    Running /\ link = "open" => q = {} \/ \E r \in marked : \A x \in q : r <= x

(***************************************************************************)
(* The peer first reads the messages in the order in which the gate        *)
(* accepted them: what it has read is always an initial segment of them,   *)
(* but for those that an operator gave up (the resend and the window never *)
(* let a message overtake another).                                        *)
(***************************************************************************)
NoOvertaking == \A i \in seen : 1..i \subseteq seen \cup givenUp

(***************************************************************************)
(* Each message that the gate counts as sent is on its way, with the peer  *)
(* or in an ack that comes back, as long as no peer drops one (the gate    *)
(* has no ack timeout: a message that is none of these is never resent in  *)
(* this connection).                                                       *)
(***************************************************************************)
InFlight(r) == \E m \in todo \cup Range(wire) \cup Range(acks) : m.rowid = r

InFlightOwned == Running /\ link = "open" => \A r \in marked : InFlight(r)

(***************************************************************************)
(* A send never takes the sent and not acknowledged messages past          *)
(* max_pending_acks, also when the attribute was lowered while more were   *)
(* on their way (send_batch_messages, mt_writing).                         *)
(***************************************************************************)
WindowRespected ==
    [][marked' \subseteq marked \/ maxAcks = 0 \/ Cardinality(marked') <= maxAcks]_vars

(***************************************************************************)
(* On open, send or resend: the rows marked when a connection opens are    *)
(* exactly those put on its wire; none is taken as sent because a former   *)
(* connection sent it (ac_on_open).                                        *)
(***************************************************************************)
OnOpenResends ==
    [][OnOpen => marked' = {m.rowid : m \in Range(wire')}]_vars

(***************************************************************************)
(* The gate implements the promise of AtLeastOnce.tla: a message that it   *)
(* accepts is owed until the peer has processed it, then settled, and in   *)
(* the end every one is, as long as C_TCP goes on to connect (ack-based    *)
(* delivery, resend on reconnection).                                      *)
(***************************************************************************)
Promise == INSTANCE AtLeastOnce WITH
             outstanding <- Outstanding, reachable <- retries

PromiseKept == Promise!Spec
=============================================================================
