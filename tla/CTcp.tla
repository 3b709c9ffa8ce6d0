-------------------------------- MODULE CTcp --------------------------------
(***************************************************************************)
(* C_TCP, kernel/c/root-linux/src/c_tcp.c: one TCP connection, of a client *)
(* that connects and reconnects, or of a server's channel that accepts one *)
(* peer after another.  It owns an event that connects or accepts, "open", *)
(* one that reads, "read", and the writes in progress.                     *)
(*                                                                         *)
(* A connection ends in two phases: try_to_stop_yevents() stops the events *)
(* and, as long as something is in progress, waits in ST_WAIT_STOPPED;     *)
(* with the last of them set_disconnected() announces the end and makes    *)
(* ready for the next connection.  Each handler below is a function of the *)
(* gobj's record to its next value, as the C functions call each other.    *)
(***************************************************************************)
EXTENDS YevEvent

CONSTANTS
    Channels,       \* a channel of a server (TRUE), a client (FALSE), or both
    IdleModels,     \* clients with timeout_inactivity > 0, without, or both
    Tls,            \* with TLS, in the clear, or both
    MaxQueue,       \* max_tx_queue, 0 = no limit
    MaxSends,       \* bound: messages to send and connections on demand
    MaxAnswers,     \* bound: writes of a handshake in progress at once
    MaxFaults,      \* bound: failures, closes by the peer, drops and stops
    AcceptMayFail,  \* accept() may fail while a channel waits for a peer
    SlowWrites,     \* a write may last longer than timeout_inactivity
    ReaderRefuses,  \* EV_RX_DATA may return an error and keep the connection
    StopBetween     \* mt_stop() may come to a client that waits to connect

ASSUME TcpAssumption ==
    /\ {Channels, IdleModels, Tls} \subseteq SUBSET BOOLEAN
    /\ {MaxQueue, MaxSends, MaxAnswers, MaxFaults} \subseteq Nat
    /\ {AcceptMayFail, SlowWrites, ReaderRefuses, StopBetween} \subseteq BOOLEAN

VARIABLES
    conf,       \* what the connection is
    tcp,        \* the gobj: see Init
    strays,     \* accepts in the kernel that the gobj has lost sight of
    strayed,    \* history: it lost one
    sends,      \* how many EV_TX_DATA and EV_CONNECT came from above
    faults      \* how many faults happened

vars == <<conf, tcp, strays, strayed, sends, faults>>

Events == {"open", "read"}

\* Only a client heeds timeout_inactivity.
Models == {m \in [clisrv : Channels, idle : IdleModels, tls : Tls] :
             ~(m.clisrv /\ m.idle)}

Init ==
    /\ conf \in Models
    /\ tcp = [running |-> FALSE, state |-> "DISCONNECTED",
              yev |-> [e \in Events |-> "none"], armed |-> {}, cq |-> <<>>,
              writes |-> 0,             \* tx_in_progress
              txing |-> FALSE,          \* gbuf_txing is not NULL
              queue |-> 0,              \* length of dl_tx
              timer |-> FALSE,          \* the timer runs
              msec |-> FALSE,           \* its period is set
              idleClosed |-> FALSE, inform |-> FALSE, everConnected |-> FALSE,
              told |-> "down",          \* the last event published
              disorder |-> FALSE]       \* one was published out of turn
    /\ strays = 0
    /\ strayed = FALSE
    /\ sends = 0
    /\ faults = 0

Fault == faults < MaxFaults /\ faults' = faults + 1

\* Whether TLS does what it is asked, or fails, which is a fault.
TlsDoes(ok) ==
    \/ ok /\ UNCHANGED faults
    \/ ~ok /\ conf.tls /\ Fault

-----------------------------------------------------------------------------
(* Publishing, timers, the end of a connection. *)

\* EV_CONNECTED ("up") and EV_DISCONNECTED ("down") are told in turn.
Tell(s, event) ==
    [s EXCEPT !.told = event, !.disorder = @ \/ s.told = event]

SetTimeout(s) == [s EXCEPT !.timer = TRUE, !.msec = TRUE]

ClearTimeout(s) == [s EXCEPT !.timer = FALSE, !.msec = FALSE]

SetInactivityTimeout(s) == IF conf.idle THEN SetTimeout(s) ELSE s

\* What is queued survives only a connection that was never established.
KeepsQueue(s) == conf.idle /\ ~s.inform /\ s.running

\* Mutant of RetryLater: in the inactivity model a client never retries.
RetryNever(s) == IF conf.idle THEN ClearTimeout(s) ELSE SetTimeout(s)

\* A client that closed for inactivity waits for data, another retries.
RetryLater(s) ==
    IF conf.idle /\ s.idleClosed THEN ClearTimeout(s) ELSE SetTimeout(s)

\* Mutant of Informs: the end of a failed attempt is announced too.
InformsAlways(s) == TRUE

\* inform_disconnection: the connection was announced, so its end is.
Informs(s) == s.inform

\* set_disconnected()
SetDisconnected(s) ==
    LET told == IF Informs(s) THEN Tell(s, "down") ELSE s
        t == [told EXCEPT !.inform = FALSE, !.txing = FALSE,
                          !.queue = IF KeepsQueue(s) THEN @ ELSE 0]
        again == [t EXCEPT !.state = "DISCONNECTED"]
    IN  CASE conf.clisrv /\ s.running -> YevStart(again, "open")
          [] conf.clisrv /\ ~s.running -> t
          [] ~conf.clisrv /\ s.running ->
               [RetryLater(again) EXCEPT !.idleClosed = FALSE]
          [] OTHER -> [t EXCEPT !.yev["open"] = "none", !.idleClosed = FALSE]

\* Mutant of InProgress: the writes are not waited for.
EventsInProgress(s) == \E e \in Events : ~YevStopped(s, e)

InProgress(s) == s.writes > 0 \/ \E e \in Events : ~YevStopped(s, e)

\* try_to_stop_yevents()
TryToStop(s) ==
    LET t == YevStop(YevStop(s, "open"), "read")
    IN  CASE s.state = "STOPPED" -> s
          [] s.state # "STOPPED" /\ InProgress(t) ->
               [t EXCEPT !.state = "WAIT_STOPPED"]
          [] s.state = "DISCONNECTED" /\ ~InProgress(t) ->
               [t EXCEPT !.state = IF s.running THEN @ ELSE "STOPPED"]
          [] OTHER -> SetDisconnected([t EXCEPT !.state = "STOPPED"])

-----------------------------------------------------------------------------
(* Writing. *)

\* write_data(), with or without TLS; ok is the result of the encryption.
WriteData(s, ok) ==
    IF ok THEN [s EXCEPT !.writes = @ + 1] ELSE TryToStop(s)

\* enqueue_write(): a full queue throws its oldest message away.
Enqueue(s) ==
    IF MaxQueue > 0 /\ s.queue >= MaxQueue THEN s
    ELSE [s EXCEPT !.queue = @ + 1]

WriteNext(s, ok) == WriteData([s EXCEPT !.txing = TRUE, !.queue = @ - 1], ok)

\* Mutant of TryMoreWrites: the queue is not looked at.
TryMoreUnchecked(s, ok) == WriteNext(s, ok)

\* try_more_writes(): with nothing more it publishes EV_TX_READY.
TryMoreWrites(s, ok) ==
    IF s.queue = 0 THEN [s EXCEPT !.txing = FALSE] ELSE WriteNext(s, ok)

\* start_pending_writes()
StartPending(s, ok) ==
    IF s.txing \/ s.queue = 0 THEN s ELSE WriteNext(s, ok)

-----------------------------------------------------------------------------
(* The beginning of a connection. *)

\* The end of set_connected() in the clear, and of set_secure_connected().
Established(s, ok) ==
    LET up == Tell([s EXCEPT !.state = "CONNECTED", !.inform = TRUE], "up")
    IN  SetInactivityTimeout(StartPending(up, ok))

\* set_connected(); a client speaks first in the handshake.
SetConnected(s, ok) ==
    LET read == IF s.yev["read"] = "none" THEN "IDLE" ELSE s.yev["read"]
        t == YevStart([ClearTimeout(s) EXCEPT !.yev["read"] = read,
                                              !.everConnected = TRUE], "read")
        hello == [t EXCEPT !.state = "WAIT_HANDSHAKE", !.inform = FALSE,
                           !.writes = IF conf.clisrv THEN @ ELSE @ + 1]
    IN  CASE ~conf.tls -> Established(t, ok)
          [] conf.tls /\ ok -> hello
          [] OTHER -> TryToStop([hello EXCEPT !.writes = s.writes])

\* EV_CONNECT or EV_TIMEOUT in ST_DISCONNECTED: ac_connect()
Connect(s, ok) ==
    LET t == [s EXCEPT !.state = "WAIT_CONNECTED"]
    IN  IF ok /\ s.yev["open"] \in {"IDLE", "STOPPED"} THEN YevStart(t, "open")
        ELSE TryToStop(t)

\* The resolution of the name may fail at once.
ConnectDoes(ok) ==
    \/ ok /\ UNCHANGED faults
    \/ ~ok /\ Fault

-----------------------------------------------------------------------------
(* Start and stop. *)

\* No completion of a former connect or accept is left in the ring.
NoneOldInRing == \A i \in DOMAIN tcp.cq : tcp.cq[i].ev # "open"

\* A channel's start makes a new accept and keeps no pointer to the old one,
\* which may still be in the kernel: mt_stop() in ST_STOPPED stops nothing.
LosesAccept ==
    IF tcp.yev["open"] = "RUNNING"
    THEN strays' = strays + 1 /\ strayed' = TRUE
    ELSE UNCHANGED <<strays, strayed>>

(***************************************************************************)
(* gobj_start(): the gobj is running whatever mt_start() returns.  It      *)
(* starts nothing while the old connection is closing, nor if the connect  *)
(* event is still there.  A channel keeps its state: it may wait for its   *)
(* peer in ST_STOPPED.                                                     *)
(***************************************************************************)
MtStart ==
    LET s == [tcp EXCEPT !.running = TRUE]
        new == [s EXCEPT !.yev["open"] = "IDLE"]
        client == [new EXCEPT !.state = "DISCONNECTED", !.timer = s.msec]
        refused == \/ s.state \notin {"STOPPED", "DISCONNECTED"}
                   \/ ~conf.clisrv /\ s.yev["open"] # "none"
    IN  /\ ~tcp.running
        /\ NoneOldInRing \/ refused
        /\ \/ refused /\ tcp' = s /\ UNCHANGED faults
           \/ ~refused /\ conf.clisrv
              /\ tcp' = YevStart(new, "open")
              /\ UNCHANGED faults
           \/ ~refused /\ ~conf.clisrv /\ (~conf.idle \/ ~s.everConnected)
              /\ \E ok \in BOOLEAN : ConnectDoes(ok) /\ tcp' = Connect(client, ok)
           \/ ~refused /\ ~conf.clisrv /\ conf.idle /\ s.everConnected
              /\ tcp' = client
              /\ UNCHANGED faults
        /\ IF ~refused /\ conf.clisrv THEN LosesAccept
           ELSE UNCHANGED <<strays, strayed>>
        /\ UNCHANGED <<conf, sends>>

\* gobj_stop(): the timer stops, its period stays.
MtStop ==
    LET s == TryToStop([tcp EXCEPT !.running = FALSE, !.timer = FALSE])
    IN  /\ tcp.running
        /\ Fault
        /\ StopBetween \/ conf.clisrv \/ tcp.state # "DISCONNECTED"
        /\ tcp' = [s EXCEPT !.txing = FALSE, !.queue = 0]
        /\ UNCHANGED <<conf, strays, strayed, sends>>

-----------------------------------------------------------------------------
(* Events from above and the timer. *)

\* EV_TX_DATA in ST_DISCONNECTED: ac_tx_data_disconnected()
SendDisconnected ==
    /\ tcp.state = "DISCONNECTED"
    /\ IF conf.idle
       THEN /\ NoneOldInRing
            /\ \E ok \in BOOLEAN :
                 /\ ConnectDoes(ok)
                 /\ tcp' = Connect(ClearTimeout(Enqueue(tcp)), ok)
       ELSE UNCHANGED <<tcp, faults>>

\* EV_TX_DATA in ST_WAIT_CONNECTED and ST_WAIT_HANDSHAKE: ac_tx_data_queued()
SendQueued ==
    /\ tcp.state \in {"WAIT_CONNECTED", "WAIT_HANDSHAKE"}
    /\ tcp' = IF conf.idle THEN Enqueue(tcp) ELSE tcp
    /\ UNCHANGED faults

\* EV_TX_DATA in ST_CONNECTED: ac_tx_data()
SendConnected ==
    /\ tcp.state = "CONNECTED"
    /\ IF tcp.txing THEN tcp' = Enqueue(tcp) /\ UNCHANGED faults
       ELSE \E ok \in BOOLEAN :
              /\ TlsDoes(ok)
              /\ tcp' = WriteData([tcp EXCEPT !.txing = TRUE], ok)

\* EV_CONNECT from another gobj, while the retry may be waiting
ConnectNow ==
    /\ tcp.state = "DISCONNECTED" /\ ~conf.clisrv
    /\ NoneOldInRing
    /\ \E ok \in BOOLEAN : ConnectDoes(ok) /\ tcp' = Connect(tcp, ok)

\* The events that the gobjs above send, to one never started none.
FromAbove ==
    /\ tcp.running \/ tcp.state # "DISCONNECTED"
    /\ sends < MaxSends
    /\ SendDisconnected \/ SendQueued \/ SendConnected \/ ConnectNow
    /\ sends' = sends + 1
    /\ UNCHANGED <<conf, strays, strayed>>

Droppable == {"WAIT_CONNECTED", "WAIT_HANDSHAKE", "CONNECTED", "WAIT_STOPPED"}

\* EV_DROP: ac_drop()
Drop ==
    /\ Fault
    /\ tcp.state \in Droppable
    /\ tcp' = TryToStop(tcp)
    /\ UNCHANGED <<conf, strays, strayed, sends>>

\* EV_TIMEOUT, which retries a connection or ends an inactive one.
Timeout ==
    LET s == [tcp EXCEPT !.timer = FALSE]
    IN  /\ tcp.timer
        /\ SlowWrites \/ tcp.state # "CONNECTED" \/ tcp.writes = 0
        /\ CASE tcp.state = "DISCONNECTED" ->
                  /\ NoneOldInRing
                  /\ \E ok \in BOOLEAN : ConnectDoes(ok) /\ tcp' = Connect(s, ok)
             [] tcp.state = "CONNECTED" ->
                  /\ tcp' = TryToStop([s EXCEPT !.idleClosed = TRUE])
                  /\ UNCHANGED faults
             [] OTHER -> tcp' = s /\ UNCHANGED faults
        /\ UNCHANGED <<conf, strays, strayed, sends>>

-----------------------------------------------------------------------------
(* The kernel and the callback, yev_callback(). *)

\* An operation completes; whatever is not a success is a fault.
Completes(e, res) ==
    /\ e \in tcp.armed
    /\ res = "some" \/ Fault
    /\ res = "some" => UNCHANGED faults
    /\ res = "zero" => e = "read"
    /\ e = "open" /\ conf.clisrv /\ res = "error" => AcceptMayFail
    /\ tcp' = [tcp EXCEPT !.armed = @ \ {e},
                          !.cq = Append(@, [ev |-> e, res |-> res])]
    /\ UNCHANGED <<conf, strays, strayed, sends>>

\* YEV_CONNECT_TYPE and YEV_ACCEPT_TYPE
OpenCallback(s) ==
    IF s.yev["open"] = "IDLE"
    THEN \E ok \in BOOLEAN : TlsDoes(ok) /\ tcp' = SetConnected(s, ok)
    ELSE tcp' = TryToStop(s) /\ UNCHANGED faults

\* A peer comes to an accept that was lost, and its callback is the same: it
\* looks neither at the state nor at whether the gobj runs.
StrayAccepts ==
    /\ strays > 0
    /\ strays' = strays - 1
    /\ \/ \E ok \in BOOLEAN : TlsDoes(ok) /\ tcp' = SetConnected(tcp, ok)
       \/ AcceptMayFail /\ Fault /\ tcp' = TryToStop(tcp)
    /\ UNCHANGED <<conf, strayed, sends>>

\* The read starts again, unless it was stopped under the callback.
Rearm(s) == IF s.yev["read"] = "IDLE" THEN YevStart(s, "read") ELSE s

\* EV_RX_DATA goes up.
Receive(s) == [s EXCEPT !.disorder = @ \/ s.told # "up"]

(***************************************************************************)
(* YEV_READ_TYPE with data.  In the handshake: it goes on, perhaps with an *)
(* answer, or is done; else data for the subscriber, which may drop the    *)
(* connection inside EV_RX_DATA, or return an error, and then nothing more *)
(* is read.  TLS may fail in both.                                         *)
(***************************************************************************)
ReadCallback(s) ==
    LET t == SetInactivityTimeout(s)
    IN  IF s.yev["read"] # "IDLE" THEN tcp' = TryToStop(s) /\ UNCHANGED faults
        ELSE \/ /\ s.state = "WAIT_HANDSHAKE"
                /\ \E answers \in 0..1 :
                     /\ answers = 1 => t.writes < MaxAnswers
                     /\ tcp' = Rearm([t EXCEPT !.writes = @ + answers])
                /\ UNCHANGED faults
             \/ /\ s.state = "WAIT_HANDSHAKE"
                /\ \E ok \in BOOLEAN :
                     TlsDoes(ok) /\ tcp' = Rearm(Established(t, ok))
             \/ /\ s.state # "WAIT_HANDSHAKE"
                /\ tcp' = Rearm(Receive(t))
                /\ UNCHANGED faults
             \/ /\ s.state # "WAIT_HANDSHAKE" /\ ReaderRefuses
                /\ tcp' = Receive(t)
                /\ UNCHANGED faults
             \/ /\ s.state # "WAIT_HANDSHAKE"
                /\ Fault
                /\ tcp' = Rearm(TryToStop(Receive(t)))
             \/ conf.tls /\ Fault /\ tcp' = TryToStop(t)

\* callback_cqe() of the oldest completion
Reap ==
    LET c == Head(tcp.cq)
        s == [tcp EXCEPT !.cq = Tail(@),
                         !.yev[c.ev] = Reaped(tcp.yev[c.ev], c.ev, c.res)]
    IN  /\ tcp.cq # <<>>
        /\ CASE ~CallsBack(tcp.yev[c.ev], c.res) ->
                  tcp' = s /\ UNCHANGED faults
             [] CallsBack(tcp.yev[c.ev], c.res) /\ c.ev = "open" ->
                  OpenCallback(s)
             [] OTHER -> ReadCallback(s)
        /\ UNCHANGED <<conf, strays, strayed, sends>>

\* YEV_WRITE_TYPE: a write ends.
WriteDone ==
    LET s == [tcp EXCEPT !.writes = @ - 1]
        t == SetInactivityTimeout(s)
    IN  /\ tcp.writes > 0
        /\ CASE ~s.running -> tcp' = TryToStop(s) /\ UNCHANGED faults
             [] s.running /\ s.state = "CONNECTED" ->
                  \E ok \in BOOLEAN : TlsDoes(ok) /\ tcp' = TryMoreWrites(t, ok)
             [] s.running /\ s.state = "WAIT_STOPPED" ->
                  tcp' = TryToStop(t) /\ UNCHANGED faults
             [] OTHER -> tcp' = t /\ UNCHANGED faults
        /\ UNCHANGED <<conf, strays, strayed, sends>>

\* A write fails.
WriteFails ==
    /\ tcp.writes > 0
    /\ Fault
    /\ tcp' = TryToStop([tcp EXCEPT !.writes = @ - 1])
    /\ UNCHANGED <<conf, strays, strayed, sends>>

\* A part is written and the same event goes on with the rest.
WritePart ==
    /\ tcp.writes > 0
    /\ tcp.running
    /\ tcp' = SetInactivityTimeout(tcp)
    /\ UNCHANGED <<conf, strays, strayed, sends, faults>>

-----------------------------------------------------------------------------

Next ==
    \/ MtStart \/ MtStop
    \/ FromAbove \/ Drop \/ Timeout
    \/ \E e \in Events, res \in Results : Completes(e, res)
    \/ Reap \/ StrayAccepts \/ WriteDone \/ WriteFails \/ WritePart

Spec == Init /\ [][Next]_vars

(***************************************************************************)
(* The loop reaps every completion and the timer fires; writes end, and a  *)
(* connect that the network does not refuse (a fault) succeeds.  Nothing   *)
(* is asked of a peer that may come to an accept or send data, nor of who  *)
(* starts and stops the gobj, but that a handshake ends.                   *)
(***************************************************************************)
HandshakeEnds ==
    /\ tcp.cq # <<>> /\ Head(tcp.cq).ev = "read"
    /\ tcp.state = "WAIT_HANDSHAKE"
    /\ Reap
    /\ tcp'.state # "WAIT_HANDSHAKE"

Fairness ==
    /\ WF_vars(Reap) /\ WF_vars(Timeout) /\ WF_vars(WriteDone)
    /\ WF_vars(~conf.clisrv /\ Completes("open", "some"))
    /\ WF_vars(tcp.state = "WAIT_HANDSHAKE" /\ Completes("read", "some"))
    /\ SF_vars(HandshakeEnds)

FairSpec == Spec /\ Fairness

-----------------------------------------------------------------------------

States == {"STOPPED", "DISCONNECTED", "WAIT_STOPPED", "WAIT_CONNECTED",
           "WAIT_HANDSHAKE", "CONNECTED"}

TypeOK ==
    /\ conf \in Models
    /\ tcp \in [running : BOOLEAN, state : States,
                yev : [Events -> YevStates], armed : SUBSET Events,
                cq : Seq([ev : Events, res : Results]),
                writes : Nat, txing : BOOLEAN, queue : Nat,
                timer : BOOLEAN, msec : BOOLEAN, idleClosed : BOOLEAN,
                inform : BOOLEAN, everConnected : BOOLEAN,
                told : {"up", "down"}, disorder : BOOLEAN]
    /\ strays \in Nat
    /\ strayed \in BOOLEAN
    /\ sends \in 0..MaxSends
    /\ faults \in 0..MaxFaults

(***************************************************************************)
(* The gobjs above hear EV_CONNECTED and EV_DISCONNECTED in turn, and      *)
(* EV_RX_DATA only between them, whatever fails, drops, stops or starts    *)
(* the connection and however a cancel crosses a completion.  One thing    *)
(* alone undoes it: a channel started while an earlier accept of it still  *)
(* waits (`strayed'), as then two peers may come to the one gobj and       *)
(* EV_CONNECTED goes up twice.                                             *)
(***************************************************************************)
InTurn == tcp.disorder => strayed

\* An event has an operation in the kernel or a completion to be reaped.
Busy(e) == e \in tcp.armed \/ \E i \in DOMAIN tcp.cq : tcp.cq[i].ev = e

(***************************************************************************)
(* "Set disconnected when all yevents has stopped": in ST_DISCONNECTED and *)
(* ST_STOPPED no read, write or connect of the connection that ended is in *)
(* progress, so nothing of it can disturb the next one, and the end has    *)
(* been announced, unless an accept was lost before (try_to_stop_yevents,  *)
(* set_disconnected).                                                      *)
(***************************************************************************)
DownIsQuiet ==
    ~strayed /\ tcp.state \in {"DISCONNECTED", "STOPPED"} =>
        /\ tcp.writes = 0 /\ ~tcp.txing
        /\ tcp.told = "down"
        /\ "read" \notin tcp.armed /\ tcp.yev["read"] \in {"none", "STOPPED"}
        /\ "open" \in tcp.armed => conf.clisrv

\* What each state waits for.
WakeUp ==
    CASE tcp.state = "DISCONNECTED" ->
           \/ conf.clisrv /\ tcp.yev["open"] = "RUNNING" /\ Busy("open")
           \/ ~conf.clisrv /\ tcp.timer
           \/ conf.idle /\ tcp.queue = 0
      [] tcp.state = "WAIT_CONNECTED" ->
           tcp.yev["open"] = "RUNNING" /\ Busy("open")
      [] tcp.state = "WAIT_HANDSHAKE" ->
           tcp.yev["read"] = "RUNNING" /\ Busy("read")
      [] tcp.state = "CONNECTED" ->
           /\ tcp.yev["read"] = "RUNNING" /\ Busy("read")
           /\ tcp.txing => tcp.writes > 0
           /\ tcp.queue > 0 => tcp.txing
      [] tcp.state = "WAIT_STOPPED" ->
           tcp.writes > 0 \/ \E e \in Events : tcp.yev[e] = "CANCELING" /\ Busy(e)
      [] OTHER -> conf.clisrv /\ Busy("open")

(***************************************************************************)
(* A running connection always has something to wake it up: a retry, an    *)
(* operation or a completion, or, in the inactivity model with nothing to  *)
(* send, the next data; what is queued has a write before it, unless an    *)
(* accept was lost before (set_disconnected, yev_callback,                 *)
(* try_to_stop_yevents, mt_start).                                         *)
(***************************************************************************)
NeverStalled == tcp.running /\ ~strayed => WakeUp

\* The refinement mapping of the abstract connection
link ==
    CASE tcp.told = "down" -> "closed"
      [] tcp.told = "up" /\ tcp.state = "CONNECTED" -> "open"
      [] OTHER -> "dying"

Conn == INSTANCE Connection WITH void <- strayed

(***************************************************************************)
(* For the gobjs above it is the connection of Connection.tla: it opens,   *)
(* perhaps dies, closes, never revives, and closes in the end.  Only the   *)
(* start that loses an accept makes that void (mt_start).                  *)
(***************************************************************************)
IsConnection == Conn!Spec

(***************************************************************************)
(* ST_WAIT_STOPPED always ends: every event that was cancelled is seen to  *)
(* stop, whether the cancel finds its operation going on or done           *)
(* (try_to_stop_yevents, callback_cqe).                                    *)
(***************************************************************************)
StopCompletes == tcp.state = "WAIT_STOPPED" ~> tcp.state # "WAIT_STOPPED"

(***************************************************************************)
(* A running client that wants a connection has one in the end: always     *)
(* without the inactivity model, and with data queued in it, also after    *)
(* failed attempts and drops (set_disconnected, ac_tx_data_disconnected).  *)
(***************************************************************************)
Wants == ~conf.clisrv /\ tcp.running /\ (~conf.idle \/ tcp.queue > 0)

Reconnects == Wants ~> ~tcp.running \/ tcp.state = "CONNECTED"
=============================================================================
