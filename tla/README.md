# A verification project for Yunetas: queues, connections, requests and sessions

Yunetas is a C framework of single-threaded processes (*yunos*) made of state
machines (*gobjs*) that send each other events, over an io_uring event loop and
an append-only store (*timeranger2*). This directory holds TLA+ models of parts
of it, the TLC configurations that check them and TLAPS proofs about them.
Paths are relative to the root of the repository.

## 1. Inventory

| Component | State it keeps | Operations | What makes it correct | Here |
|---|---|---|---|---|
| TR_QUEUE (`tr_queue.c`) | rows with a PENDING flag and `first_rowid` on disk; list of pending rows in memory | open, load, append, unload, backup, load a range | an open queue has exactly what the disk owes; a backup takes nothing pending away | `TrQueue` |
| C_QIOGATE (`c_qiogate.c`) | soft marks, cursor `last_msg_sent`, `pending_acks`, timer, connection flag | send, ack, open, close, poll, start, stop, two operator commands | at-least-once, order, window, exact accounting, resend after a reconnection | `QIOGate` |
| C_MQIOGATE | none but its children | broadcast, partition by last digits | each message reaches all / exactly one queue | no |
| C_IOGATE, C_CHANNEL | current channel; open or closed | choose a channel, forward up and down | one EV_ON_OPEN / EV_ON_CLOSE pair per channel; rotation | no |
| C_TCP, C_TCP_S | FSM of 6 states, events in progress, tx queue, timer | connect, accept, read, write, drop, stop, inactivity | EV_DISCONNECTED once per EV_CONNECTED, after all I/O stopped; a client with work always retries | `CTcp` (C_TCP) |
| yev_loop | state of each event, ring | start, stop, destroy, completion | one STOPPED per start, freed once | `YevEvent` (states and cancel) |
| C_TIMER, C_TIMER0 | armed or not | set, clear, fire | no fire after a clear | a flag in the modules that own one |
| gobj core (`gobj.c`) | tree, life flags, subscriptions, posted events | create, start, stop, destroy, send, publish, post | nothing delivered to a destroyed gobj; posted events in order, once, next cycle | `PostedEvents` (posted events; the rest left) |
| C_IEVENT_CLI/SRV | session state, identity, subscriptions to resend | identity card, ack, send, subscribe | remote subscriptions restored by each session | no |
| timeranger2 (`timeranger2.c`) | content, metadata, index files; real-time lists | append, flag, list, follow, backup | rows and files agree after any crash; every follower sees each row once | no (`TrQueue` has its interface) |
| tr_treedb | nodes with hooks and fkeys, instances, snapshots | create, update, link, unlink, delete, reload | both sides of a link agree, and agree with the disk | no |
| C_TASK, C_TASK_AUTHENTICATE | current job, timer | execute, result, timeout, reconnect | one end per task; a late answer does not advance another job | `AuthBff` (C_TASK with one job) |
| C_AUTH_BFF | pending requests, task in process | request, answer, close, timeout | an answer goes to the browser that asked; every request is answered | `AuthBff` |
| MQTT (`tr2q_mqtt.c`, `c_prot_mqtt2.c`, broker) | inflight and queued messages on disk, message ids in memory | publish, ack phases, reconnect, close | QoS 1 and 2 across connections and restarts, in order | `MqttSession` |
| others | | | | see `components` in PROJECT.json |

How they interact. On the output path, an application sends EV_SEND_MESSAGE to
C_QIOGATE, which appends to TR_QUEUE and sends the message to its bottom gobj
(C_IOGATE, C_CHANNEL, a protocol, C_TCP). EV_ON_OPEN, EV_ON_MESSAGE (an ack) and
EV_ON_CLOSE come back by the same way. All of these are function calls: a
handler runs to its end together with every event that it sends. The peer
(`dba_postgres` is the one in the repository) answers each message with its
queue metadata, at once or when a task of its own ends.

Below every such path is a C_TCP. It owns events of the io_uring loop (`yev_loop`):
it starts and stops them, and the loop calls it back with each completion. When a
connection ends, all that is in progress is cancelled first and the end is announced
when the last of it has stopped, so that for the gobjs above a connection is closed,
open or *dying*.

C_AUTH_BFF takes requests of a browser and turns each into a C_TASK, which asks an
identity provider over a C_PROT_HTTP_CL and a C_TCP of its own; the answer, a timer
of the task or a watchdog of the gobj ends it, and the next request starts.
C_PROT_MQTT2, in the broker and in the client, keeps a session's messages in topics
of timeranger2 (`tr2q_mqtt.c`) and walks each through the packets of its QoS.

Posted events are how a handler defers work: `gobj_post_event()` puts an
event in one list of the process, and the event loop delivers at the top of each
cycle what was waiting then. The actions that it calls post and destroy gobjs
while the list is being gone through.

What is hard: crashes between any two disk writes; connections that break with
messages and acks on the way; acks that are late, doubled or never come; handlers
entered again from inside a send; a stop that overlaps a connection still closing;
cancels that race with completions; two timers over one wait; users that follow
each other on one gobj; ids that one side stores and the other does not; attributes
changed at run time; row numbers that restart. `hazards` in
PROJECT.json lists each at its line with the properties aimed at it.

## 2. Modules

| Module | What it is |
|---|---|
| `TrQueue` | the queue over its topic, with its own next-state relation (an arbitrary user) and its properties |
| `QIOGate` | EXTENDS `TrQueue`: the gate, its connection and its peer; each handler that uses the queue is a conjunction with the queue's action |
| `AtLeastOnce` | what a queue with acks promises: accept, process, settle, and settle in the end as long as the peer is `reachable`; INSTANCEd as `Promise` by `QIOGate` (`reachable <- retries`) and by `MqttSession` (always) |
| `Connection` | what a connection promises to the gobjs above it: closed, open, dying; INSTANCEd by `CTcp` |
| `YevEvent` | the events of the loop that a gobj owns: start, cancel, completion, over fields of its record |
| `CTcp` | EXTENDS `YevEvent`: a client or a server's channel, with the kernel, the peer and the gobjs above as environment |
| `AuthBff` | C_AUTH_BFF with its C_TASK and its connection to the identity provider, browsers one after another |
| `MqttSession` | both ends of an MQTT session and the packets between them |
| `PostedEvents` | the list of posted events under handlers that post and destroy; composed with nothing |
| `PostedEvents_proofs` | theorems about it |
| `NaturalMin` | one lemma used by the proofs: a set of naturals has a least element |
| `TrQueue_proofs` | theorems about `TrQueue` |
| `QIOGate_proofs` | theorems about `QIOGate`, using those of the queue: no loss, the promise |
| `QIOGate_window_proofs` | theorems about its window: count, marks, cursor, what is in flight, order |
| `CTcp_proofs` | theorems about `CTcp` and, with it, `YevEvent` |
| `MqttSession_proofs` | theorems about `MqttSession`: its types, the window against the message ids, the promise of `AtLeastOnce`, the order of delivery |
| `AuthBff_proofs` | theorems about `AuthBff` |

The modules are instantiated by the `.cfg` files directly, since every constant
is a number, a flag, a model value or a set of these.

### TrQueue

| Variable | In the code |
|---|---|
| `topic` | the rows of the topic: message number and flag `TRQ_MSG_PENDING` |
| `topicVar` | `first_rowid` in `topic_var.json` (and in `trq->topic`, kept equal) |
| `backup` | where `trq_check_backup()` stands; "none" outside of it |
| `q` | `dl_q_msg`, as the set of its row numbers: the list is always in their order |
| `trqOpen` | `trq_msgs` is not NULL |
| `accepted` | history: how many messages were ever appended |
| `remarked` | history: rows that a command turned PENDING and no load has found since |

`TrqStart` is `trq_open` and `trq_load`; `TrqAppend` is `trq_append2`;
`TrqUnload` is `trq_unload_msg`; `TrqStop` is `trq_close`. `BackupMarkEnd`,
`BackupMove`, `BackupCreate`, `BackupReset` are `trq_check_backup()` cut at each
write, so that a crash may come between. Between the rename and the creation of
the new topic the variables are only in the process's memory: a crash there
leaves a new topic without them. `TrqMarkRows` is the body of the two operator
commands.

`CrashInBackup` and `AdminMarks` switch two of the environment's actions; section 3
says what does not hold with the first.

### QIOGate

| Variable | In the code |
|---|---|
| `opened` | `bottom_side_opened` |
| `lastSent` | `last_msg_sent`: a row, 0 for NULL, or `Dangling` after `trq_close()` freed it |
| `pending` | `pending_acks` |
| `marked` | the rows whose soft mark is set |
| `timer` | the poll timer is armed |
| `maxAcks` | `max_pending_acks` |
| `link` | "closed", "open", or "dying": C_TCP waits for its I/O to stop, nothing is sent or read, EV_ON_CLOSE has not come |
| `retries` | a client C_TCP with no connection still goes on to connect: not after a stop with none, which may have ended that (section 3, `TcpRestart`) |
| `wire`, `acks` | what travels, each with the row number and the message |
| `todo`, `seen`, `processed` | the peer: in process, ever read, ever processed |
| `givenUp` | history: messages that an operator marked as not pending |

| Action | In the code |
|---|---|
| `SendMessage` | `ac_send_message`: enqueue, then `send_batch_messages(gobj, msg)` |
| `ProcessAck` | `ac_on_message`, `process_ack`, `dequeue_msg`, then a batch |
| `OnOpen`, `OnClose` | `ac_on_open` with its batch, `ac_on_close` with `reset_soft_queue` |
| `ProcessAckBreaks`, `OnOpenBreaks` | `process_ack` and `ac_on_open` with a batch whose first write enters `ac_on_close` (`BreakBatch`) |
| `Timeout` | `ac_timeout`: a batch, perhaps the first step of a backup, the timer again |
| `MtStart`, `MtStop` | `mt_start`, `mt_stop` (and the stop of the gobjs below) |
| `SetMaxAcks`, `Admin` | `mt_writing`, the operator commands |
| `Crash`, `LinkBreaks`, `PeerReads`, `PeerRefuses`, `PeerAnswers`, `PeerCrashes` | the environment |

`Batch` is the loop of `send_batch_messages()` as the set of rows it sends: the
unmarked rows from the cursor on, each with room for it and for those before it.
The code between steps of a backup does not run other handlers, which the guard
`Running` says; only `TrqCrash` may come between, if `CrashInBackup`.

### PostedEvents

| Variable | In the code |
|---|---|
| `alive` | the gobjs without `obflag_destroying` |
| `destroying` | the calls of `gobj_destroy()` in progress, nested as they are |
| `queue` | `dl_posted_events`, as the set of its entries with the number of `dl_add()` |
| `lastId` | `__last_id__` of the list |
| `lastOne` | `last_id` of the delivery in progress, 0 with none |
| `fresh`, `accepted`, `delivered` | history: posted since the last delivery began, destination of each accepted event, what was delivered |

`Post` is `gobj_post_event()` when it accepts; a refusal (destination destroyed or
being destroyed, 10000 waiting) changes nothing. `DestroyBegins` is
`gobj_destroy()` as far as its purge, `DestroyEnds` the rest, which may post,
destroy and be nested. `DeliveryBegins`, `Deliver` and `DeliveryEnds` are the
parts of `gobj_deliver_posted_events()`; between them run the actions that it
calls, whose steps are `HandlerPosts`, `DestroyBegins` and `DestroyEnds`.

`gobj_stop()` of a running gobj, which `gobj_destroy()` calls before it raises the
flag, is a handler like another: what it posts comes before `DestroyBegins`.

### YevEvent and CTcp

C functions call each other within a handler (`try_to_stop_yevents()` calls
`set_disconnected()`, which publishes, starts a timer or an accept), so the gobj is
one record and each function is an operator from a record to the next; an action
applies the function of its handler.

| Field of `tcp` | In the code |
|---|---|
| `running`, `state` | `gobj_is_running()`, the state of the FSM |
| `yev`, `armed`, `cq` | state of `yev_connect` or `yev_accept` ("open") and of `yev_reading` ("read"); which have an operation in the kernel; the completions not reaped |
| `writes`, `txing`, `queue` | `tx_in_progress`, `gbuf_txing` is not NULL, length of `dl_tx` |
| `timer`, `msec` | the timer runs; it has a period (`gobj_start()` of it runs it again) |
| `idleClosed`, `inform` | `idle_closed`, `inform_disconnection` |
| `told`, `disorder` | history: last event published, and whether one was out of turn |

| Other variable | In the code |
|---|---|
| `strays` | accepts still in the kernel after `mt_start()` put a new event in `yev_accept` (line 290) |
| `strayed` | history: it happened |

`conf` says which of the models it is: client or server's channel, with inactivity
timeout or without, TLS or clear. `MtStart`, `MtStop`, `Drop`, `Timeout`, `FromAbove`
(EV_TX_DATA in each state, EV_CONNECT) are the handlers; `Completes` is the kernel,
`Reap` is `callback_cqe()` with `yev_callback()` for open and read; `WriteDone`,
`WritePart`, `WriteFails` the same for writes, which are a count: they are never
cancelled, only waited for. `StrayAccepts` is `yev_callback()` of a lost accept.

A cancelled operation gives two completions, 0 for the cancel and then its own error;
one that had completed gives its own result and then the cancel's error. `Reaped` waits
for the negative one. The order of the two in the first case is an assumption about the
kernel, which answers a cancel as it submits it. What is left open is where the stop
comes: before or after its operation is done, with anything before it in the ring. The
model assumes also `NoneOldInRing`: that the second of them has been reaped when the
same event is submitted again by another handler.

**An accept that is lost.** `mt_start()` of a channel changes no state, so one that is
started in ST_STOPPED waits for its peer there. `try_to_stop_yevents()` returns at once
in ST_STOPPED (line 1078), so a stop then leaves the accept armed, although its comment
says "Stop all events" (line 1069), and the next start makes a second one and forgets the
first. `yev_callback()` looks neither at the state nor at whether the gobj runs. One
start, stop, start, stop and start with no peer in between are enough: two peers may then
come to the gobj, and EV_CONNECTED goes up twice (`strayed` and, with the second,
`disorder`). Without the last start a peer may still come to the accept of the stopped
gobj, which announces it: no property fails by that, and the model has it. The lost
accept is the one exception that `InTurn`, `DownIsQuiet`, `NeverStalled` and
`Connection` (its `void`) make: with `strayed` they claim nothing.

### AuthBff

| Field of `bff` | In the code |
|---|---|
| `pending`, `processing`, `taskValid` | `dl_pending`, `processing`, `task_valid` |
| `discovered` | the endpoints are known |
| `task` | `gobj_task` (a request), `gobj_discovery_task` (0) or none |
| `execTimer`, `watchdog` | the timer of C_TASK; the one of the gobj |
| `running`, `connected`, `link` | the connection to the IdP: started, its attribute, what it has announced (`Connection`) |
| `atIdp`, `partial` | the queries of this connection that the IdP has not answered, in order; whether a part of the next reply came |

`ProcessNext`, `StartTask`, `EndTask`, `OnMessage` are `process_next`, the start of a
C_TASK, its `stop_task` with EV_END_TASK (`AfterDiscovery`, `AfterRequest` are the two
halves of `ac_end_task`), and its `ac_on_message`. The actions are the events: from
browsers, from the connection, and the two timers. Replies come in the order of the
queries, and C_PROT_HTTP_CL does not tell which query a reply is to: whatever task is
there takes it. More than one query is at the IdP only after a discovery that timed
out, which leaves its connection up (`c_auth_bff.c:2708`).

### MqttSession

| Variable | In the code |
|---|---|
| `out.state` | the sender's rows, each with the state in its user flag; "none" once unloaded |
| `out.inflight`, `out.queued` | `dl_inflight` with message ids, `dl_queued` |
| `out.lastMid`, `savedMid` | `last_mid`, and the one of the session in the broker's treedb |
| `in.held`, `in.rows` | the receiver's messages of QoS 2 with their ids and row numbers |
| `in.delivered` | history: how often each message was passed on |
| `out.packets`, `in.packets` | on their way |
| `link` | closed, open, or which end is closing it (`ws_close()`: ST_DISCONNECTED with the connection alive) |
| `cleanStart` | `clean_start` of the CONNECT of this connection |

`Enqueue`, `Release`, `Settle`, `Received`, `Refill`, `Load` are `message__queue`,
`message__release_to_inflight`, `handle__pubackcomp`, `handle__pubrec`,
`db__message_delete_outgoing` (its move of queued messages) and `tr2q_load`. The loops
of the code over a list are stated by what they leave: which places of the list send
(`Sends`), which take a new id (`TakesMid`), the n-th id after the last one (`MidAfter`),
and what moves up from the queue (`Fill`).
`conf.server` chooses the direction, as handlers differ: only the broker moves queued
messages to inflight, and only the client looks for a doubled PUBLISH by row number.

## 3. Runs

| Run | Asks | Result |
|---|---|---|
| `TrQueue` | does an open queue hold exactly what the disk owes, with crashes, backups and operators marking rows? | holds |
| `GateSafety` | no loss, no overtaking, exact accounting, window, resend, without backups, with late acks and operators | holds |
| `GateBackup` | the promise of `AtLeastOnce` when row numbers restart, with its liveness as long as C_TCP goes on to connect | holds |
| `GateHostile` | nothing lost with backups, refused messages, failing TLS writes, crashes and stops at once | holds |
| `PostedEvents` | next cycle, once, in order, to a live destination, from no freed source, with gobjs destroyed in the middle of a delivery? | holds |
| `Tcp` | is it the connection of `Connection`, does it always have something to wake it up, does every stop end, does a client reconnect? | holds |
| `AuthBff` | is each request answered, once, to who asked, with its own reply or an error? | holds |
| `Mqtt` | no message lost, doubled, overtaken or left unsettled, if no connection ends in the middle of a QoS 2 exchange, nor with two messages of QoS 2 sent and unconfirmed | holds |
| `GateLateAck` | an ack that outlives its topic settles another message | violated |
| `TcpRestart` | a client stopped while it waits to connect never connects again | violated |
| `AuthBffLateReply` | a reply without a length goes to the next request | violated |
| `MqttExactlyOnce` | a connection that ends between PUBREC and PUBCOMP loses a message of QoS 2 | violated |

What each violated run means, with the quoted text that it contradicts, is under
`findings` in PROJECT.json. Each lets one thing happen that the
run of the same module that passes does not, and is smaller for the rest:
`AcksCrossBackup`, `StopBetween`, `CloseDelimited`, `BreaksInExchange`.

### Constants that are off, and what happens with them on

These are faults that the code meets badly and for which there is no run of their
own. Each was tried with TLC.

| Constant | Code | With it on |
|---|---|---|
| `CrashInBackup` | a death inside `trq_check_backup()` leaves the old `first_rowid` in the new topic (`tr_queue.c:618`) | `NothingStranded`, `BackupMovesSettled`, `NoMessageLost` fail |
| `TlsWriteMayFail` in `GateSafety` | a write that fails inside a batch, after an ack or on an open, runs `ac_on_close()` inside it and the batch goes on marking (`c_qiogate.c:838`) | `OnOpenResends` fails; `GateHostile` shows that nothing is lost |
| `PeerMayRefuse` in `GateBackup` | `timeout_ack` is read and not used (`c_qiogate.c:1091`): a refused message waits for the next connection | `InFlightOwned` fails |
| `PostsInDestroy` | an event posted from `mt_destroy` with its own gobj as source | `NoDanglingSource` fails |
| `AcceptMayFail` | a failed accept is not started again (`c_tcp.c:1558`) | `NeverStalled` fails, and with 5 faults `DownIsQuiet` |
| `ReaderRefuses` | EV_RX_DATA returning an error leaves the read unarmed (`c_tcp.c:1377`) | `NeverStalled` fails |
| `LateReplies` | after a discovery that timed out, its query and its connection stay (`c_auth_bff.c:2708`), and a reply that comes after the next query is taken for the reply to it | `AnswersTheAsker` fails: every later reply of the connection is one behind |
| `SlowWrites` | the inactivity timer fires with data to write, "no pending work" (`c_tcp.c:1781`) | `Reconnects` fails |
| `CleanStarts` = {TRUE} | `close_queues()` deletes the topics at each close (`c_prot_mqtt2.c:742`), also of an MQTT 5 session that is to be kept | `KeepsPromise` fails |
| `RoutesWhileClosing` | the broker routes to a session in ST_DISCONNECTED, which knows no EV_SEND_MESSAGE (`c_prot_mqtt2.c:7755`) | `KeepsPromise` fails |

### Bounds

`MaxMsgs` (messages accepted), `MaxFaults` (stops, crashes of either side, broken
connections, refused messages and failing writes, together) and the constants
of the code. Three messages are the least with an oldest, a middle and a newest
(overtaking, a cursor in the middle, acks out of order); a window of 0 (none), 1
and 2 gives every relation of window and queue. Two faults give a break during
the recovery from another. The backup runs use a `BackupSize` of 2 with 4 messages
(5 in `TrQueue`): two generations of the topic or more, the last with rows of its
own; `GateHostile` has 3 faults. `PostedEvents` has three gobjs (a destination, a
source and a bystander that may be either), 4 posts and a ceiling of 3, so that the
ceiling is met and events are waiting before, and posted during, a delivery.

`Tcp` has a transmission queue of 2, three sends, two writes of a handshake at once and
four faults: a connection that fails, one that is dropped with a write in progress and
messages behind it, a stop while that is closing, and one more; and for a channel four
stops with starts between them, twice what it takes to lose an accept. `AuthBff` has four requests of two browsers, a
queue of 2 and two faults: with one request at the identity provider and two queued,
the fourth is refused, and the second browser can come at every point of the first
one's requests. `Mqtt` has three messages, a window of 2 and ids that wrap after 3:
a window with one message behind it, and every id used again.

`Mqtt` and `MqttExactlyOnce` differ in `BreaksInExchange`. Without it, `MayEnd`
limits where a connection may end: the receiver holds no message of QoS 2, and at
most one is sent and not known to be received. `MayEnd` stands in the guards of
every action that could leave a closing connection in another state, so it is a
bound on the environment and not on the code. Within it everything else may happen:
breaks with packets of QoS 1 in both directions, half-closed ends, crashes.

### Fairness

`FairSpec` of the gate asks weak fairness of: the handlers whose event is there
(`ProcessAck`, `OnClose`, `Timeout`, `BackupStep`: the event loop serves every ready
completion and the steps of a backup are straight code); `MtStart` (the watcher in
`ydaemon.c` relaunches a dead yuno, and an operator starts again one that was
stopped); `OnOpen` while `retries`; and a peer that goes on. C_TCP retries from
`set_disconnected`, also when it is started again after a stop that closed a
connection. A client that is stopped with none, while it waits to connect, does not:
`mt_start` refuses, as `TcpRestart` shows. So a stop with the link closed takes
`retries` away (it may have come at such a moment), a process that starts anew brings
it back, and so does a connection that is made all the same, since without fairness
`OnOpen` may still happen. `Settles` claims of a message that it is settled or that
`retries` is FALSE: with `reachable <- TRUE` TLC finds a behaviour with one stop that
never sends again. Faults are finitely many by their bound. New messages, changes of the window
and the choice of a backup by the timer ask for no fairness.

In `PostedEvents` it asks it of the delivery and of the return of `gobj_destroy()`:
`yev_loop_run()` delivers at the top of each cycle and does not block on the ring
while something is posted. What waits when the loop ends is dropped by
`gobj_end()`; the model has no end of the loop.

In `CTcp`, of the loop (`Reap`), the timer, the end of writes (TCP acknowledges or
fails) and a client's connect, which ends by success when no fault befalls it. A
handshake takes rounds whose number the model leaves open, so strong fairness says
that it ends, and weak fairness that its data comes. Nothing is asked of a peer that
may come or send, nor of who starts and stops.

In `AuthBff`, of the two timers only: that every request is answered must not depend
on the identity provider, the network or the next browser.

In `MqttSession`, of the arrival of packets, of a client that comes back and of a
connection that, once closing, ends.

## 4. Proofs

Checked by TLAPS for all values of the constants, under the assumptions named. Each
assumption is the setting of a constant that section 3 lists with what fails
without it, or a bound of the code. Induction over steps only: what a theorem needs of
finite sets and sequences comes from the library.

**TrQueue.**
`TrqTyping` and `TrqListIsPending` hold for every setting, crashes inside a
backup and operators included. `TrqNothingStranded` and `TrqBackupMovesSettled`
assume that there are no backups or that no process dies inside one
(`BackupSize = 0 \/ ~CrashInBackup`); operators mark what they like, and the rows that
they turn pending (`remarked`) are the exception that the properties state.
`NothingStranded` is not inductive: while the queue is closed it says nothing, and it
would allow a start row above a pending one. `SearchInd` adds that, until a backup
moves the topic, `topicVar` is within the topic and no pending row but a `remarked`
one lies below it, and that during a backup no other row is pending. The lemma
`LoadFindsAll` then says that `trq_load()` loads all of these, and
`FirstRowidProperties` that the row it saves has none of them below.

**QIOGate, what is kept.**
`GateUsesQueue`: each step of the gate is a step of `TrqSpec` or leaves the queue
alone. The content is the guard of the backup, which the gate starts only with an
empty queue. The queue's theorems hold under the gate through it. `GateTyping` is its
type correctness.

`GateLosesNoMessage` assumes `BackupSize = 0`, or backups that no ack outlives and no
death cuts (`~AcksCrossBackup /\ ~CrashInBackup`). Operators' commands (what they give
up is excepted by the property), late and doubled acks, refused messages, failing TLS
writes, crashes and stops are all allowed. `NoMessageLost` is not inductive:
`dequeue_msg()` trusts the row number. The strengthening says that what is on the wire,
at the peer and in the acks names a row of the topic that holds that very message, and
that an ack exists only for a processed message; with backups also that all of it is of
the topic of now. `GateKeepsPromise` adds `~AdminMarks` and concludes that the gate
implements the safety part of `AtLeastOnce`, each step a step of it or a stutter. With
acks that outlive a backup both fail, as `GateLateAck` shows.

**QIOGate, the window.**
`GateWindow` (no step sends more than the window allows) has no assumption:
`CountCovers` says that `pending_acks` is at least the number of marked rows, also
after a stop and after a failed TLS write. The other seven assume `~TlsWriteMayFail`,
since a write that fails inside a batch marks rows of a queue that was just reset:

* `GateCountIsExact`, `GateMarksArePrefix`, `GateCursorSafe`, `GateHeadInFlight` from
  `WindowInd`: while the timer runs the count is exact, the cursor has no unmarked row
  behind it, and the marked rows are the first of the list. The last part holds in every
  state, also in what a stop leaves; the others only while the timer runs, because
  `trq_close()` frees the cursor and clears no mark.
* `GateOnOpenResends`, with `LinkQuiet`: outside of an open connection nothing travels,
  so a new connection finds no mark and begins with the oldest row.
* `GateInFlightOwned`, if the peer refuses nothing (`~PeerMayRefuse`), from `InFlightInd`.
* `GateNoOvertaking`, under the assumption of `GateLosesNoMessage` too, from
  `OrderInd`: of what is on the wire, each earlier message was seen, was given up or is
  on the wire before it.

**PostedEvents.**
`PostedTyping`, `PostedNoDeadDestination`, `PostedOrderKept`, `PostedNextCycle` and
`PostedAllAccounted` hold for every number of gobjs and posts and every ceiling,
`PostedNoDanglingSource` assuming `~PostsInDestroy`. The order and the snapshot
rest on `NumberInv`: the numbers of `dl_add()` are distinct and grow, all that
waits is above all that was delivered, and during a delivery an entry is at most
`lastOne` exactly when it was not posted since the delivery began. A purge takes
any entries out of the list and disturbs none of this, which is what the comment
in `gobj_deliver_posted_events()` claims for a mark against a count. That the
delivery leaves nothing behind also needs that a list with entries has a first
one (`EndsAboveSnapshot`, from `MinExists`).

**AuthBff.**
`BffTypes`, `BffTaskIsTimed` and `BffAnswersOnce` have no assumption; they follow from
`BffInd`, of three parts. `Fits` ties the flags of the gobj together (a task has a
timer, a timer has a task, `task_valid` and `processing` go together). `Places` says
that a request is in one place only: in the queue, in the task, or among the answers.
`Owners` and `Kept` say whose it is: what waits belongs to the browser that is
connected, and nothing that this browser asked is missing. `BffAnswersTheAsker` assumes
`~CloseDelimited` and `~LateReplies`. Its invariant `AskInd` says what the IdP can have
been asked on an open connection: nothing, the discovery any number of times before any
request could start, or just the query of the task.

**CTcp.**
`TcpTyping` has no assumption. `TcpInvariant`, `TcpInTurn`, `TcpDownIsQuiet` and
`TcpIsConnection` (the connection implements the safety part of `Connection`,
`SafeSpec`) assume `AcceptsSucceed`: no accept fails while a channel waits for a peer.
Each is about a gobj that lost no accept (`strayed`); that case is in the properties and
not in an assumption, so what the theorem of `TcpInTurn` says is that nothing else
brings an event out of turn, a channel stopped in ST_STOPPED included.
None of the properties is inductive, because the completions that are still in the
ring decide what the next callback does. The invariant has three parts.

* `RingInd`, of the ring: a running event has its operation in the kernel or one
  completion, and one that is idle in its callback has neither (`OneEach`); the
  completions of an old read come before that of the connect or accept going on
  (`ReadsFirst`); an accept's error is the last of its completions (`AcceptEnds`).
* `PhaseInd`, of the phases: what each state of the FSM says of what was announced, of
  the writes, and of the two events. "The read is running or in its callback only in
  ST_WAIT_HANDSHAKE and ST_CONNECTED" is the part that keeps a late callback of one
  connection out of the next.
* `Untimed`: a channel has no timer.

`TcpNeverStalled` assumes two more: no client is stopped between two connections
(`StopsConnected`; `TcpRestart` is the run without it), and no reader returns an error
(`~ReaderRefuses`). `AwakeInd` adds what each state waits for (`Waits`), that a running
event has an operation or a completion and one that is cancelled its error, which is
the completion that `callback_cqe()` waits for (`Awaited`), what a stop leaves behind,
so that a start finds it (`Rests`; a stopped channel may still serve a peer, a stopped
client may not, `Serves`), and that `idle_closed` marks only the end of a connection
that was announced, so that the end of a failed attempt always arms the retry
(`Marks`). A handler calls `try_to_stop_yevents()` from inside others; the lemma
`TryToStopAlive` says, of any record that may be stopped (`Ending`), that what it
leaves has something to wait for.

**MqttSession.**
`MqttTyping` has no assumption. `MqttAnswersMatch` assumes `MaxInflight > 0` and
`MaxMid >= 2 * MaxInflight - 1`, and nothing of where connections break, who closes, what
is routed meanwhile or how often the ids wrap. `mqtt_mid_generate()` takes the next
number and does not look whether a message inflight has it, so something must bound how
old an id in use can be. The assumption is exact: with a window of 2 and 2 ids, or of 3
and 4 ids, TLC finds a behaviour in which two messages share an id. For the code it
reads: with 65535 ids, any limit from 1 to 32768, so the default of 20 is far inside.
With no limit (`max_inflight_messages` 0), or one above 32768, which the attribute's
description allows (`c_prot_mqtt2.c:223`), nothing in the code keeps ids apart.

`AnswersMatch` is not inductive: it speaks of the answers on their way, and says nothing
of the packets still to be answered, the ids and the rows. `MatchInd` has two halves.

* In a connection, `Window`. The messages inflight are different and begun (`Lists`),
  and their ids too (`Mids`). In the pipe of answers and then packets, in the order in
  which the sender will hear of them, each message has one packet at most, and each
  packet fits the state of its message (`Tokens`); while both ends read, each message has
  exactly one (`Covered`). `Ages` is the argument: since a message took its id, no more
  ids were given than there were places behind it in the window, plus one window for a
  message of QoS 2, which goes through the pipe twice; so an id given now is not in use.
  The broker's queued messages are not begun and come after those inflight, and wait
  only if there is no room (`Line`).
* Between connections, `Rows`: the broker's rows that were sent come before all others
  and are no more than a window, so `tr2q_load()` puts all of them inflight and the
  connection sends all of them again with new ids. Of a client this need not be said:
  it sends what is loaded inflight, and what it queued waits for another connection.

`ReleaseWindow` is the step that all of them use: what
`message__release_to_inflight()` sends gets ids apart from those in use, and goes to the
end of the pipe. `EnqueueWindow`, `ReceivedWindow`, `SettleWindow`, `ReadWindow` and
`ConnectWindow` are the handlers, and `LineLeaves` the end of a connection.

`MqttKeepsPromise` and `MqttInOrder` assume, besides the two of `MqttAnswersMatch`, that
no session is deleted at its end, that nothing is routed to a client that is closing,
and that messages are of QoS 1 only or connections end between the exchanges of QoS 2
(`ExactFits`). With QoS 1 only, connections may break and brokers die at any point, any
number of times, with any packets on their way, and the ids wrap. With QoS 2 the
assumption is not for the proof's sake: with a break within an exchange TLC finds a
message settled and never passed on (`MqttExactlyOnce`), and with two faults one passed
on twice. No theorem claims "exactly once" of QoS 2: breaks are what it is about, and
only `Mqtt` checks it, for the sessions that it allows.

* `ExactInd` adds to `MatchInd` what was passed on of each message by the state of its
  row (`Account`: not yet, while it may be sent again; once, or held, while PUBREL is
  owed; once, when it is settled). A message is held at most once (`HeldOnce`), under
  the id it has inflight, and its PUBREC is on its way or was read (`HeldFit`); what an
  answer tells is so (`AnswersTell`); and a PUBLISH with DUP finds nothing held that it
  would replace, because the one message of QoS 2 that a new connection sends again goes
  before the others (`FirstDup`). The broker looks the held message up by row and the
  client by id: the lemma `NothingReplaced` is where that difference comes to nothing.
* The promise: a step of the session accepts, processes or settles as `AtLeastOnce`
  does, or changes neither side (`PromiseStep`). That a settled message was passed on,
  whatever its QoS, follows from the account (`SettledPassed`).
* `OrderInd` adds, of the broker as sender, `InSequence`: the PUBLISHes on their way go
  up, what is held came before them, and PUBREC and then PUBREL go round in the order of
  what is held. `Qos1Turn` and `Qos2Turn` then say that what is passed on has nothing of
  its QoS before it that was not: of QoS 1, because what has no answer and was not
  passed on is still on its way (`StillSent`), which in an open connection follows from
  `Covered` (`OpenSends`) and has to be carried along while the sender is closing; of
  QoS 2, because its answer would be behind in the pipe. A handler of the sender adds
  only messages that were not sent before, in order (`Grows`, by `EnqueueGrows` and
  `SettleGrows`); a new connection sends the rows in order (`ConnectSequence`).

**Only model-checked.** Liveness (`Reconnects`, `StopCompletes`, the answers and the
deliveries that must come, the liveness parts of `AtLeastOnce` and `Connection`): it
needs fairness and ENABLED, which the prover does not handle. Of the other properties of
the passing runs all but `ExactlyOnce` have a theorem, the safety parts of `AtLeastOnce`
and `Connection` included. What `GateHostile` checks with failing TLS writes is proved
only for `NoMessageLost` and the window.

## 5. What is abstracted or left out

* Contents of messages, times, user flags other than PENDING, alerts, statistics.
* An append of timeranger2 is one step; its two files are not modelled, nor
  failures of the file system.
* The list search by row number is membership: two entries never have one number.
* The gobjs below the gate are one connection. Several channels under one gate,
  where the gate takes each channel's close for its own, are left out.
* No gclass posts with itself as source while it is being destroyed, and the runs
  have `PostsInDestroy` off. The code does not forbid it: `gobj_destroy()` purges once,
  before `mt_child_removed` and `mt_destroy`, and `gobj_post_event()` looks only at
  the destination, so the source of such an event would be a freed pointer, against
  what `gobj.h:1438` says.
* The rest of the gobj core: trees, states, subscriptions.
* The operator commands are accepted only with the queue closed; on a service
  started and not playing they open and close it a second time (`c_qiogate.c:314`).
* A row that an operator marks pending below the start row is not loaded by the next
  opening (`c_qiogate.c:352`): the properties of the queue except it (`remarked`).
* C_TCP: the legacy accept by `fd_clisrv`, DNS, what a handshake says, a gobj stopped
  or destroyed by its subscribers inside EV_DISCONNECTED, or a connection dropped
  inside EV_CONNECTED. Met while reading and not modelled: there is no timeout of a
  connect or a handshake; a socket accepted while the accept is being cancelled is
  not closed; a client's first TLS write and a queued one may be in progress at once.
* C_AUTH_BFF: `mt_stop`, cookies, CORS, what is in a request. A task ended by a
  browser that leaves is forgotten by the gobj and never destroyed (`c_auth_bff.c:2288`).
  A `token_endpoint` that does not parse ends its task without an answer
  (`c_auth_bff.c:1658`). The attribute `idp_timeout_ms` says "0 disables"
  (`c_auth_bff.c:225`) and 0 is taken as 30000 (line 535).
* MQTT: QoS 0, expiry of messages, reason codes in PUBACK and PUBREC, topic alias,
  ACL, subscriptions, retained messages, wills, a second connection of one client, the
  backup of a session's topics (which asks only that nothing is inflight,
  `c_prot_mqtt2.c:9345`). As sender the client never moves queued messages to
  inflight in a living connection, so `KeepsPromise` has its liveness, and `InOrder`
  is stated, for the broker as sender only.
* The comment of `trq_check_pending_rowid` (`tr_queue.h:150`) promises -1 for a row
  that does not exist; the function returns 0 or 1. Its one caller uses it to choose
  whether to log.
* Parsers of protocols, JSON and configuration, command wrappers, the agents and
  tools, and the ports are data or I/O with little control that a model would show;
  `components` in PROJECT.json says which and why.

## 6. Plan

What is left, in order of importance:

1. The order of completions that `CTcp` assumes (`NoneOldInRing`), as a theorem about
   a model of the ring with its submission queue.
2. `Tranger`: the two files of an append and a crash between them, as an
   implementation of the rows that `TrQueue` and `MqttSession` use.
3. `IOGate` (channels, rotation) and `MQIOGate` (broadcast, partition) with the gate.
4. `TreedbLinks`, both sides of a link in memory and on disk; `Subscriptions` of
   the gobj core.

Abstract specifications stated so far: `AtLeastOnce`, used by two queues, and
`Connection`, implemented by `CTcp` and assumed (as `link`) by the gate and by
`AuthBff`. The next would be an append-only list of rows that survives crashes.
