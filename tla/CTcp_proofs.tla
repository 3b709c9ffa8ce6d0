----------------------------- MODULE CTcp_proofs -----------------------------
(***************************************************************************)
(* Proofs about CTcp: whatever fails, drops or stops the connection, and   *)
(* however a cancel crosses a completion, the gobjs above see a connection *)
(* that opens and closes in turn, nothing of it is left in progress when   *)
(* the next begins, and something always wakes it up.  All of it is said   *)
(* of a gobj that has not lost an accept (~strayed): a channel stopped in  *)
(* ST_STOPPED and started again arms a second one (mt_start).              *)
(*                                                                         *)
(* Each handler is a function of the gobj's record, and so are the lemmas: *)
(* each says what a function makes of a sound record.                      *)
(***************************************************************************)
EXTENDS CTcp, SequenceTheorems, TLAPS

-----------------------------------------------------------------------------
(* The types. *)

Done == [ev : Events, res : Results]

Tcp == [running : BOOLEAN, state : States,
        yev : [Events -> YevStates], armed : SUBSET Events,
        cq : Seq(Done),
        writes : Nat, txing : BOOLEAN, queue : Nat,
        timer : BOOLEAN, msec : BOOLEAN, idleClosed : BOOLEAN,
        inform : BOOLEAN, everConnected : BOOLEAN,
        told : {"up", "down"}, disorder : BOOLEAN]

\* A start or a stop of an event touches nothing but the events.
SameButEvents(r, s) ==
    /\ r.running = s.running /\ r.state = s.state
    /\ r.writes = s.writes /\ r.txing = s.txing /\ r.queue = s.queue
    /\ r.timer = s.timer /\ r.msec = s.msec
    /\ r.idleClosed = s.idleClosed /\ r.inform = s.inform
    /\ r.everConnected = s.everConnected
    /\ r.told = s.told /\ r.disorder = s.disorder

SameEvents(r, s) == r.yev = s.yev /\ r.armed = s.armed /\ r.cq = s.cq

\* yev_start_event()
LEMMA StartDoes ==
  ASSUME NEW s \in Tcp, NEW e \in Events
  PROVE  LET r == YevStart(s, e)
             starts == s.yev[e] \in {"IDLE", "STOPPED"}
         IN  /\ r \in Tcp
             /\ SameButEvents(r, s)
             /\ r.cq = s.cq
             /\ starts => /\ r.yev = [s.yev EXCEPT ![e] = "RUNNING"]
                          /\ r.armed = s.armed \cup {e}
             /\ ~starts => r = s
<1>1. CASE s.yev[e] \in {"IDLE", "STOPPED"}
  <2>1. [s.yev EXCEPT ![e] = "RUNNING"] \in [Events -> YevStates]
    BY DEF Tcp, YevStates
  <2>2. s.armed \cup {e} \in SUBSET Events
    BY DEF Tcp
  <2> QED
    BY <1>1, <2>1, <2>2 DEF YevStart, Tcp, SameButEvents
<1>2. CASE s.yev[e] \notin {"IDLE", "STOPPED"}
  BY <1>2 DEF YevStart, SameButEvents
<1> QED
  BY <1>1, <1>2

LEMMA StartTouches ==
  ASSUME NEW s \in Tcp, NEW e \in Events
  PROVE  LET r == YevStart(s, e)
         IN  /\ \A f \in Events \ {e} : r.yev[f] = s.yev[f]
             /\ s.yev[e] \in {"IDLE", "STOPPED"} => r.yev[e] = "RUNNING"
             /\ s.yev[e] \notin {"IDLE", "STOPPED"} => r.yev[e] = s.yev[e]
<1> DEFINE r == YevStart(s, e)
<1>1. CASE s.yev[e] \in {"IDLE", "STOPPED"}
  <2>1. r.yev = [s.yev EXCEPT ![e] = "RUNNING"]
    BY <1>1, StartDoes
  <2>2. s.yev \in [Events -> YevStates]
    BY DEF Tcp
  <2> HIDE DEF r
  <2>3. r.yev[e] = "RUNNING" /\ \A f \in Events \ {e} : r.yev[f] = s.yev[f]
    BY <2>1, <2>2
  <2> QED
    BY <1>1, <2>3 DEF r
<1>2. CASE s.yev[e] \notin {"IDLE", "STOPPED"}
  BY <1>2, StartDoes
<1> QED
  BY <1>1, <1>2

\* What a stop adds to the ring: the end of the cancel, before it the cancel's
\* own result if the operation was still in the kernel.
Cancelled(e) == [ev |-> e, res |-> "zero"]
Failed(e) == [ev |-> e, res |-> "error"]

LEMMA DoneWith ==
  ASSUME NEW e \in Events
  PROVE  Cancelled(e) \in Done /\ Failed(e) \in Done
BY DEF Done, Results, Cancelled, Failed

\* A concatenation with one completion is an Append.
LEMMA ConcatOne ==
  ASSUME NEW cq \in Seq(Done), NEW c \in Done
  PROVE  cq \o <<c>> = Append(cq, c)
<1>1. <<c>> \in Seq(Done) /\ Len(<<c>>) = 1 /\ <<c>>[1] = c
  OBVIOUS
<1>2. /\ cq \o <<c>> \in Seq(Done)
      /\ Len(cq \o <<c>>) = Len(cq) + 1
      /\ \A i \in 1..(Len(cq) + 1) :
           (cq \o <<c>>)[i] = IF i <= Len(cq) THEN cq[i] ELSE <<c>>[i - Len(cq)]
  BY <1>1, ConcatProperties
<1>3. /\ Append(cq, c) \in Seq(Done)
      /\ Len(Append(cq, c)) = Len(cq) + 1
      /\ \A i \in 1..Len(cq) : Append(cq, c)[i] = cq[i]
      /\ Append(cq, c)[Len(cq) + 1] = c
  BY AppendProperties
<1>4. Len(cq) \in Nat
  BY LenProperties
<1>5. \A i \in 1..(Len(cq) + 1) : (cq \o <<c>>)[i] = Append(cq, c)[i]
  BY <1>1, <1>2, <1>3, <1>4
<1>6. Len(cq \o <<c>>) = Len(Append(cq, c))
  BY <1>2, <1>3
<1>7. \A i \in 1..Len(cq \o <<c>>) : (cq \o <<c>>)[i] = Append(cq, c)[i]
  BY <1>2, <1>5
<1> QED
  BY <1>2, <1>3, <1>6, <1>7, SeqEqual

\* yev_stop_event()
LEMMA StopDoes ==
  ASSUME NEW s \in Tcp, NEW e \in Events
  PROVE  LET r == YevStop(s, e)
         IN  /\ r \in Tcp
             /\ SameButEvents(r, s)
             /\ s.yev[e] = "RUNNING" =>
                  /\ r.yev = [s.yev EXCEPT ![e] = "CANCELING"]
                  /\ r.armed = s.armed \ {e}
                  /\ r.cq = Append(IF e \in s.armed
                                   THEN Append(s.cq, Cancelled(e)) ELSE s.cq,
                                   Failed(e))
             /\ s.yev[e] = "IDLE" =>
                  /\ r.yev = [s.yev EXCEPT ![e] = "STOPPED"]
                  /\ r.armed = s.armed /\ r.cq = s.cq
             /\ s.yev[e] \notin {"RUNNING", "IDLE"} => r = s
<1>1. CASE s.yev[e] = "RUNNING"
  <2> DEFINE own == IF e \in s.armed THEN <<Cancelled(e)>> ELSE <<>>
             first == IF e \in s.armed THEN Append(s.cq, Cancelled(e))
                      ELSE s.cq
             after == s.cq \o own \o <<Failed(e)>>
  <2>1. s.cq \in Seq(Done) /\ Cancelled(e) \in Done /\ Failed(e) \in Done
    BY DoneWith DEF Tcp
  <2>2. first \in Seq(Done) /\ s.cq \o own = first
    BY <2>1, ConcatOne, ConcatEmptySeq, AppendProperties
  <2>3. after = Append(first, Failed(e)) /\ after \in Seq(Done)
    <3> HIDE DEF first
    <3>1. first \o <<Failed(e)>> = Append(first, Failed(e))
      BY <2>1, <2>2, ConcatOne
    <3>2. Append(first, Failed(e)) \in Seq(Done)
      BY <2>1, <2>2, AppendProperties
    <3> QED
      BY <2>2, <3>1, <3>2
  <2>4. YevStop(s, e) = [s EXCEPT !.yev[e] = "CANCELING",
                                  !.armed = @ \ {e}, !.cq = after]
    BY <1>1 DEF YevStop, Cancelled, Failed
  <2>5. [s.yev EXCEPT ![e] = "CANCELING"] \in [Events -> YevStates]
    BY DEF Tcp, YevStates
  <2>6. s.armed \ {e} \in SUBSET Events
    BY DEF Tcp
  <2> HIDE DEF after, first, own
  <2>7. /\ YevStop(s, e) \in Tcp
        /\ SameButEvents(YevStop(s, e), s)
        /\ YevStop(s, e).yev = [s.yev EXCEPT ![e] = "CANCELING"]
        /\ YevStop(s, e).armed = s.armed \ {e}
        /\ YevStop(s, e).cq = after
    BY <2>3, <2>4, <2>5, <2>6 DEF Tcp, SameButEvents
  <2> QED
    BY <1>1, <2>3, <2>7 DEF first
<1>2. CASE s.yev[e] = "IDLE"
  <2>1. [s.yev EXCEPT ![e] = "STOPPED"] \in [Events -> YevStates]
    BY DEF Tcp, YevStates
  <2> QED
    BY <1>2, <2>1 DEF YevStop, Tcp, SameButEvents
<1>3. CASE s.yev[e] \notin {"RUNNING", "IDLE"}
  BY <1>3 DEF YevStop, SameButEvents
<1> QED
  BY <1>1, <1>2, <1>3

LEMMA SetDisconnectedTypes ==
  ASSUME NEW s \in Tcp
  PROVE  SetDisconnected(s) \in Tcp
<1> DEFINE told == IF Informs(s) THEN Tell(s, "down") ELSE s
           t == [told EXCEPT !.inform = FALSE, !.txing = FALSE,
                             !.queue = IF KeepsQueue(s) THEN @ ELSE 0]
           again == [t EXCEPT !.state = "DISCONNECTED"]
<1>1. told \in Tcp
  <2> DEFINE disorder == s.disorder \/ s.told = "down"
             first == [s EXCEPT !.told = "down"]
  <2>1. disorder \in BOOLEAN
    BY DEF Tcp
  <2>2. Tell(s, "down") = [first EXCEPT !.disorder = disorder]
    BY DEF Tell
  <2> HIDE DEF disorder
  <2>3. first \in Tcp
    BY DEF Tcp
  <2> HIDE DEF first
  <2>4. Tell(s, "down") \in Tcp
    BY ONLY <2>1, <2>2, <2>3 DEF Tcp
  <2> QED
    BY <2>4
<1>2. t \in Tcp
  <2> DEFINE queue == IF KeepsQueue(s) THEN told.queue ELSE 0
             quiet == [told EXCEPT !.inform = FALSE]
             idle == [quiet EXCEPT !.txing = FALSE]
  <2>1. t = [idle EXCEPT !.queue = queue]
    OBVIOUS
  <2> HIDE DEF told
  <2>2. queue \in Nat
    BY ONLY <1>1 DEF Tcp
  <2>3. quiet \in Tcp
    BY ONLY <1>1 DEF Tcp
  <2> HIDE DEF quiet
  <2>4. idle \in Tcp
    BY ONLY <2>3 DEF Tcp
  <2> HIDE DEF idle, queue, t
  <2> QED
    BY ONLY <2>1, <2>2, <2>4 DEF Tcp
<1>3. again \in Tcp
  <2> HIDE DEF t
  <2> QED
    BY <1>2 DEF Tcp, States
<1> HIDE DEF again, t
<1>4. YevStart(again, "open") \in Tcp
  BY <1>3, StartDoes DEF Events
<1>5. [RetryLater(again) EXCEPT !.idleClosed = FALSE] \in Tcp
  <2> DEFINE later == RetryLater(again)
             on == [again EXCEPT !.timer = TRUE]
             off == [again EXCEPT !.timer = FALSE]
  <2>1. on \in Tcp /\ off \in Tcp
    BY ONLY <1>3 DEF Tcp
  <2>2. /\ SetTimeout(again) = [on EXCEPT !.msec = TRUE]
        /\ ClearTimeout(again) = [off EXCEPT !.msec = FALSE]
    BY ONLY DEF ClearTimeout, SetTimeout
  <2>3. later = SetTimeout(again) \/ later = ClearTimeout(again)
    BY ONLY DEF RetryLater
  <2> HIDE DEF on, off, later
  <2>4. SetTimeout(again) \in Tcp
    BY ONLY <2>1, <2>2 DEF Tcp
  <2>5. ClearTimeout(again) \in Tcp
    BY ONLY <2>1, <2>2 DEF Tcp
  <2>6. later \in Tcp
    BY ONLY <2>3, <2>4, <2>5
  <2>7. [later EXCEPT !.idleClosed = FALSE] \in Tcp
    BY ONLY <2>6 DEF Tcp
  <2> QED
    BY ONLY <2>7 DEF later
<1>6. [t EXCEPT !.yev["open"] = "none", !.idleClosed = FALSE] \in Tcp
  <2>1. [t.yev EXCEPT !["open"] = "none"] \in [Events -> YevStates]
    BY <1>2 DEF Tcp, YevStates, Events
  <2> QED
    BY <1>2, <2>1 DEF Tcp
<1> QED
  BY <1>2, <1>4, <1>5, <1>6 DEF SetDisconnected, t, again

LEMMA StopBothTypes ==
  ASSUME NEW s \in Tcp
  PROVE  YevStop(YevStop(s, "open"), "read") \in Tcp
BY StopDoes DEF Events

\* try_to_stop_yevents()
LEMMA TryToStopTypes ==
  ASSUME NEW s \in Tcp
  PROVE  TryToStop(s) \in Tcp
<1> DEFINE t == YevStop(YevStop(s, "open"), "read")
<1>1. t \in Tcp
  BY StopBothTypes
<1> HIDE DEF t
<1>2. \A state \in States : [t EXCEPT !.state = state] \in Tcp
  BY <1>1 DEF Tcp
<1>3. /\ [t EXCEPT !.state = "WAIT_STOPPED"] \in Tcp
      /\ [t EXCEPT !.state = IF s.running THEN @ ELSE "STOPPED"] \in Tcp
      /\ SetDisconnected([t EXCEPT !.state = "STOPPED"]) \in Tcp
  <2>1. t.state \in States /\ {"WAIT_STOPPED", "STOPPED"} \subseteq States
    BY <1>1 DEF Tcp, States
  <2> QED
    BY <1>2, <2>1, SetDisconnectedTypes
<1> QED
  BY <1>3 DEF TryToStop, t

LEMMA WriteDataTypes ==
  ASSUME NEW s \in Tcp, NEW ok
  PROVE  WriteData(s, ok) \in Tcp
<1>1. [s EXCEPT !.writes = @ + 1] \in Tcp
  BY DEF Tcp
<1> QED
  BY <1>1, TryToStopTypes DEF WriteData

LEMMA EnqueueTypes ==
  ASSUME NEW s \in Tcp
  PROVE  Enqueue(s) \in Tcp
BY DEF Enqueue, Tcp

LEMMA WriteNextTypes ==
  ASSUME NEW s \in Tcp, NEW ok, s.queue # 0
  PROVE  WriteNext(s, ok) \in Tcp
<1>1. [s EXCEPT !.txing = TRUE, !.queue = @ - 1] \in Tcp
  <2>1. s.queue \in Nat /\ s.queue - 1 \in Nat
    BY DEF Tcp
  <2> QED
    BY <2>1 DEF Tcp
<1> QED
  BY <1>1, WriteDataTypes DEF WriteNext

LEMMA TryMoreWritesTypes ==
  ASSUME NEW s \in Tcp, NEW ok
  PROVE  TryMoreWrites(s, ok) \in Tcp
<1>1. [s EXCEPT !.txing = FALSE] \in Tcp
  BY DEF Tcp
<1> QED
  BY <1>1, WriteNextTypes DEF TryMoreWrites

LEMMA StartPendingTypes ==
  ASSUME NEW s \in Tcp, NEW ok
  PROVE  StartPending(s, ok) \in Tcp
BY WriteNextTypes DEF StartPending

\* Timers are fields of their own.
LEMMA TimersTypes ==
  ASSUME NEW s \in Tcp
  PROVE  /\ SetTimeout(s) \in Tcp /\ ClearTimeout(s) \in Tcp
         /\ SetInactivityTimeout(s) \in Tcp
         /\ \A b \in BOOLEAN : [s EXCEPT !.timer = b] \in Tcp
<1>1. \A b \in BOOLEAN : [s EXCEPT !.timer = b] \in Tcp
  BY DEF Tcp
<1>2. ClearTimeout(s) \in Tcp
  BY DEF ClearTimeout, Tcp
<1>3. SetTimeout(s) \in Tcp
  BY DEF SetTimeout, Tcp
<1>4. SetInactivityTimeout(s) \in Tcp
  BY <1>3 DEF SetInactivityTimeout, SetTimeout, Tcp
<1> QED
  BY ONLY <1>1, <1>2, <1>3, <1>4

LEMMA EstablishedTypes ==
  ASSUME NEW s \in Tcp, NEW ok
  PROVE  Established(s, ok) \in Tcp
<1> DEFINE up == Tell([s EXCEPT !.state = "CONNECTED", !.inform = TRUE], "up")
<1>1. up \in Tcp
  BY DEF Tell, Tcp, States
<1> HIDE DEF up
<1>2. StartPending(up, ok) \in Tcp
  BY <1>1, StartPendingTypes
<1> QED
  BY <1>2, TimersTypes DEF Established, up
\* What set_connected() makes of the record before TLS is asked: the read event
\* is there, and runs.
Reading(s) ==
    LET read == IF s.yev["read"] = "none" THEN "IDLE" ELSE s.yev["read"]
    IN  YevStart([ClearTimeout(s) EXCEPT !.yev["read"] = read,
                                         !.everConnected = TRUE], "read")

Hello(s) ==
    [Reading(s) EXCEPT !.state = "WAIT_HANDSHAKE", !.inform = FALSE,
                       !.writes = IF conf.clisrv THEN @ ELSE @ + 1]

LEMMA SetConnectedIs ==
  ASSUME NEW s, NEW ok
  PROVE  /\ ~conf.tls => SetConnected(s, ok) = Established(Reading(s), ok)
         /\ conf.tls /\ ok => SetConnected(s, ok) = Hello(s)
         /\ conf.tls /\ ~ok =>
              SetConnected(s, ok) = TryToStop([Hello(s) EXCEPT !.writes = s.writes])
BY DEF SetConnected, Reading, Hello

LEMMA ReadingTypes ==
  ASSUME NEW s \in Tcp
  PROVE  Reading(s) \in Tcp /\ Hello(s) \in Tcp
<1> DEFINE read == IF s.yev["read"] = "none" THEN "IDLE" ELSE s.yev["read"]
           new == [ClearTimeout(s) EXCEPT !.yev["read"] = read,
                                          !.everConnected = TRUE]
<1>1. [s.yev EXCEPT !["read"] = read] \in [Events -> YevStates]
  BY DEF Tcp, YevStates, Events
<1>2. new \in Tcp
  BY <1>1 DEF ClearTimeout, Tcp
<1>3. Reading(s) \in Tcp
  BY <1>2, StartDoes DEF Reading, Events
<1>4. Hello(s) \in Tcp
  <2> DEFINE t == Reading(s)
             writes == IF conf.clisrv THEN t.writes ELSE t.writes + 1
             wait == [t EXCEPT !.state = "WAIT_HANDSHAKE"]
             quiet == [wait EXCEPT !.inform = FALSE]
  <2>1. Hello(s) = [quiet EXCEPT !.writes = writes]
    BY DEF Hello
  <2>2. t \in Tcp /\ writes \in Nat
    BY <1>3 DEF Tcp
  <2> HIDE DEF t, writes
  <2>3. wait \in Tcp
    BY ONLY <2>2 DEF Tcp, States
  <2> HIDE DEF wait
  <2>4. quiet \in Tcp
    BY ONLY <2>3 DEF Tcp
  <2> HIDE DEF quiet
  <2> QED
    BY ONLY <2>1, <2>2, <2>4 DEF Tcp
<1> QED
  BY <1>3, <1>4

LEMMA SetConnectedTypes ==
  ASSUME NEW s \in Tcp, NEW ok
  PROVE  SetConnected(s, ok) \in Tcp
<1>1. [Hello(s) EXCEPT !.writes = s.writes] \in Tcp
  <2> DEFINE h == Hello(s)
             writes == s.writes
  <2>1. h \in Tcp
    BY ReadingTypes
  <2>2. writes \in Nat
    BY DEF Tcp
  <2> HIDE DEF h, writes
  <2>3. [h EXCEPT !.writes = writes] \in Tcp
    BY ONLY <2>1, <2>2 DEF Tcp
  <2> QED
    BY ONLY <2>3 DEF h, writes
<1>2. TryToStop([Hello(s) EXCEPT !.writes = s.writes]) \in Tcp
  BY <1>1, TryToStopTypes
<1>3. Established(Reading(s), ok) \in Tcp
  BY ReadingTypes, EstablishedTypes
<1> QED
  BY <1>2, <1>3, ReadingTypes, SetConnectedIs

\* ac_connect()
LEMMA ConnectTypes ==
  ASSUME NEW s \in Tcp, NEW ok
  PROVE  Connect(s, ok) \in Tcp
<1>1. [s EXCEPT !.state = "WAIT_CONNECTED"] \in Tcp
  BY DEF Tcp, States
<1> QED
  BY <1>1, TryToStopTypes, StartDoes DEF Connect, Events

LEMMA ReceiveTypes ==
  ASSUME NEW s \in Tcp
  PROVE  Receive(s) \in Tcp /\ Rearm(s) \in Tcp
<1>1. Receive(s) \in Tcp
  BY DEF Receive, Tcp
<1> QED
  BY <1>1, StartDoes DEF Rearm, Events

\* callback_cqe(): what is left of the record once the completion is taken.
Taken(s) ==
    LET c == Head(s.cq)
    IN  [s EXCEPT !.cq = Tail(@), !.yev[c.ev] = Reaped(s.yev[c.ev], c.ev, c.res)]

LEMMA TakenTypes ==
  ASSUME NEW s \in Tcp, s.cq # <<>>
  PROVE  Taken(s) \in Tcp /\ Head(s.cq) \in Done
<1> DEFINE c == Head(s.cq)
<1>1. c \in Done /\ Tail(s.cq) \in Seq(Done)
  BY HeadTailProperties DEF Tcp
<1>2. c.ev \in Events /\ s.yev[c.ev] \in YevStates
  BY <1>1 DEF Done, Tcp
<1>3. Reaped(s.yev[c.ev], c.ev, c.res) \in YevStates
  BY <1>2 DEF Reaped, YevStates
<1> HIDE DEF c
<1>4. [s.yev EXCEPT ![c.ev] = Reaped(s.yev[c.ev], c.ev, c.res)]
        \in [Events -> YevStates]
  BY <1>3 DEF Tcp
<1>5. [s EXCEPT !.cq = Tail(@), !.yev[c.ev] = Reaped(s.yev[c.ev], c.ev, c.res)]
        \in Tcp
  BY <1>1, <1>4 DEF Tcp
<1> QED
  BY <1>1, <1>5 DEF Taken, c

\* What becomes of the completion at the head of the ring.
LEMMA ReapIs ==
  ASSUME Reap
  PROVE  /\ tcp.cq # <<>>
         /\ \/ tcp' = Taken(tcp) /\ UNCHANGED faults
               /\ ~CallsBack(tcp.yev[Head(tcp.cq).ev], Head(tcp.cq).res)
            \/ /\ CallsBack(tcp.yev[Head(tcp.cq).ev], Head(tcp.cq).res)
               /\ Head(tcp.cq).ev = "open"
               /\ OpenCallback(Taken(tcp))
            \/ /\ CallsBack(tcp.yev[Head(tcp.cq).ev], Head(tcp.cq).res)
               /\ Head(tcp.cq).ev # "open"
               /\ ReadCallback(Taken(tcp))
         /\ UNCHANGED <<conf, sends>>
BY DEF Reap, Taken

LEMMA OpenCallbackTypes ==
  ASSUME NEW s \in Tcp, OpenCallback(s)
  PROVE  tcp' \in Tcp
BY SetConnectedTypes, TryToStopTypes DEF OpenCallback

LEMMA ReadCallbackTypes ==
  ASSUME NEW s \in Tcp, ReadCallback(s)
  PROVE  tcp' \in Tcp
<1> DEFINE t == SetInactivityTimeout(s)
<1>1. t \in Tcp
  BY TimersTypes
<1> HIDE DEF t
<1>2. ASSUME NEW n \in 0..1
      PROVE  Rearm([t EXCEPT !.writes = @ + n]) \in Tcp
  <2>1. t.writes + n \in Nat
    BY <1>1 DEF Tcp
  <2>2. [t EXCEPT !.writes = @ + n] \in Tcp
    BY <1>1, <2>1 DEF Tcp
  <2> QED
    BY <2>2, ReceiveTypes
<1>3. /\ TryToStop(s) \in Tcp /\ TryToStop(t) \in Tcp
      /\ Receive(t) \in Tcp /\ Rearm(Receive(t)) \in Tcp
      /\ Rearm(TryToStop(Receive(t))) \in Tcp
  BY <1>1, TryToStopTypes, ReceiveTypes
<1>4. \A ok : Rearm(Established(t, ok)) \in Tcp
  BY <1>1, EstablishedTypes, ReceiveTypes
<1> QED
  BY <1>2, <1>3, <1>4 DEF ReadCallback, t
-----------------------------------------------------------------------------
(* Every state has its type. *)

LEMMA ConfTypes ==
  ASSUME conf \in Models
  PROVE  /\ conf.clisrv \in BOOLEAN /\ conf.idle \in BOOLEAN
         /\ conf.tls \in BOOLEAN
         /\ ~(conf.clisrv /\ conf.idle)
         /\ conf.clisrv \in Channels
BY TcpAssumption DEF Models

\* A fault is one of those that the bound allows.
LEMMA FaultTypes ==
  ASSUME faults \in 0..MaxFaults, Fault \/ UNCHANGED faults
  PROVE  faults' \in 0..MaxFaults
BY TcpAssumption DEF Fault

LEMMA ChoiceIsFault ==
  ASSUME NEW ok, TlsDoes(ok) \/ ConnectDoes(ok)
  PROVE  Fault \/ UNCHANGED faults
BY DEF TlsDoes, ConnectDoes

\* What mt_start() makes of a client's record before it connects, and of a
\* channel's before it accepts.
LEMMA MtStartTypes ==
  ASSUME tcp \in Tcp, MtStart
  PROVE  tcp' \in Tcp /\ (Fault \/ UNCHANGED faults)
<1> DEFINE s == [tcp EXCEPT !.running = TRUE]
           new == [s EXCEPT !.yev["open"] = "IDLE"]
           client == [new EXCEPT !.state = "DISCONNECTED", !.timer = s.msec]
<1>1. s \in Tcp
  BY DEF Tcp
<1> HIDE DEF s
<1>2. new \in Tcp
  <2>1. [s.yev EXCEPT !["open"] = "IDLE"] \in [Events -> YevStates]
    BY <1>1 DEF Tcp, YevStates, Events
  <2> QED
    BY <1>1, <2>1 DEF Tcp
<1> HIDE DEF new
<1>3. client \in Tcp
  BY <1>1, <1>2 DEF Tcp, States
<1> HIDE DEF client
<1>4. /\ YevStart(new, "open") \in Tcp
      /\ \A ok : Connect(client, ok) \in Tcp
  BY <1>2, <1>3, StartDoes, ConnectTypes DEF Events
<1>5. \/ tcp' = s \/ tcp' = YevStart(new, "open") \/ tcp' = client
      \/ \E ok \in BOOLEAN : tcp' = Connect(client, ok)
  BY DEF MtStart, s, new, client
<1>6. Fault \/ UNCHANGED faults
  BY ChoiceIsFault DEF MtStart
<1> QED
  BY <1>1, <1>3, <1>4, <1>5, <1>6

LEMMA FromAboveTypes ==
  ASSUME tcp \in Tcp, FromAbove
  PROVE  tcp' \in Tcp /\ (Fault \/ UNCHANGED faults)
<1>1. CASE SendDisconnected
  <2>1. ClearTimeout(Enqueue(tcp)) \in Tcp
    BY EnqueueTypes, TimersTypes
  <2> QED
    BY <1>1, <2>1, ConnectTypes, ChoiceIsFault DEF SendDisconnected
<1>2. CASE SendQueued
  BY <1>2, EnqueueTypes DEF SendQueued
<1>3. CASE SendConnected
  <2>1. [tcp EXCEPT !.txing = TRUE] \in Tcp
    BY DEF Tcp
  <2> QED
    BY <1>3, <2>1, EnqueueTypes, WriteDataTypes, ChoiceIsFault
       DEF SendConnected
<1>4. CASE ConnectNow
  BY <1>4, ConnectTypes, ChoiceIsFault DEF ConnectNow
<1> QED
  BY <1>1, <1>2, <1>3, <1>4 DEF FromAbove

LEMMA TimeoutTypes ==
  ASSUME tcp \in Tcp, Timeout
  PROVE  tcp' \in Tcp /\ (Fault \/ UNCHANGED faults)
<1> DEFINE s == [tcp EXCEPT !.timer = FALSE]
<1>1. s \in Tcp /\ [s EXCEPT !.idleClosed = TRUE] \in Tcp
  BY DEF Tcp
<1>2. /\ \/ tcp' = s \/ tcp' = TryToStop([s EXCEPT !.idleClosed = TRUE])
         \/ \E ok \in BOOLEAN : tcp' = Connect(s, ok)
      /\ Fault \/ UNCHANGED faults
  BY ChoiceIsFault DEF Timeout
<1> QED
  BY <1>1, <1>2, ConnectTypes, TryToStopTypes

LEMMA CompletesTypes ==
  ASSUME tcp \in Tcp, NEW e \in Events, NEW res \in Results, Completes(e, res)
  PROVE  tcp' \in Tcp /\ (Fault \/ UNCHANGED faults)
<1>1. [ev |-> e, res |-> res] \in Done
  BY DEF Done
<1>2. Append(tcp.cq, [ev |-> e, res |-> res]) \in Seq(Done)
  BY <1>1, AppendProperties DEF Tcp
<1>3. tcp.armed \ {e} \in SUBSET Events
  BY DEF Tcp
<1>4. [tcp EXCEPT !.armed = @ \ {e},
                  !.cq = Append(@, [ev |-> e, res |-> res])] \in Tcp
  BY <1>2, <1>3 DEF Tcp
<1> QED
  BY <1>4 DEF Completes

LEMMA ReapTypes ==
  ASSUME tcp \in Tcp, Reap
  PROVE  tcp' \in Tcp /\ (Fault \/ UNCHANGED faults)
<1>1. Taken(tcp) \in Tcp
  BY ReapIs, TakenTypes
<1>2. CASE OpenCallback(Taken(tcp))
  BY <1>1, <1>2, OpenCallbackTypes, ChoiceIsFault DEF OpenCallback
<1>3. CASE ReadCallback(Taken(tcp))
  BY <1>1, <1>3, ReadCallbackTypes, ChoiceIsFault DEF ReadCallback
<1> QED
  BY <1>1, <1>2, <1>3, ReapIs

LEMMA WriteEndsTypes ==
  ASSUME tcp \in Tcp, WriteDone \/ WriteFails
  PROVE  tcp' \in Tcp /\ (Fault \/ UNCHANGED faults)
<1> DEFINE s == [tcp EXCEPT !.writes = @ - 1]
           t == SetInactivityTimeout(s)
<1>1. s \in Tcp
  <2>1. tcp.writes - 1 \in Nat
    BY DEF WriteDone, WriteFails, Tcp
  <2> QED
    BY <2>1 DEF Tcp
<1>2. t \in Tcp
  BY <1>1, TimersTypes
<1>3. /\ \/ tcp' = TryToStop(s) \/ tcp' = TryToStop(t) \/ tcp' = t
         \/ \E ok \in BOOLEAN : tcp' = TryMoreWrites(t, ok)
      /\ Fault \/ UNCHANGED faults
  BY ChoiceIsFault DEF WriteDone, WriteFails
<1> QED
  BY <1>1, <1>2, <1>3, TryToStopTypes, TryMoreWritesTypes

LEMMA StrayTypes ==
  ASSUME tcp \in Tcp, StrayAccepts
  PROVE  tcp' \in Tcp /\ (Fault \/ UNCHANGED faults)
BY SetConnectedTypes, TryToStopTypes, ChoiceIsFault DEF StrayAccepts

LEMMA MtStopTypes ==
  ASSUME tcp \in Tcp, MtStop
  PROVE  tcp' \in Tcp
<1> DEFINE s == TryToStop([tcp EXCEPT !.running = FALSE, !.timer = FALSE])
<1>1. [tcp EXCEPT !.running = FALSE, !.timer = FALSE] \in Tcp
  BY DEF Tcp
<1>2. s \in Tcp
  BY <1>1, TryToStopTypes
<1>3. tcp' = [s EXCEPT !.txing = FALSE, !.queue = 0]
  BY DEF MtStop
<1> HIDE DEF s
<1> QED
  BY <1>2, <1>3 DEF Tcp

\* Only a channel's start loses an accept, and a stray one is lost for good.
LEMMA StraysChange ==
  ASSUME [Next]_vars
  PROVE  /\ \/ UNCHANGED strays /\ UNCHANGED strayed
            \/ strays' = strays + 1 /\ strayed' = TRUE
            \/ strays > 0 /\ strays' = strays - 1 /\ UNCHANGED strayed
         /\ UNCHANGED conf
BY DEF Next, vars, MtStart, LosesAccept, MtStop, FromAbove, Drop, Timeout,
       Completes, Reap, StrayAccepts, WriteDone, WriteFails, WritePart

(***************************************************************************)
(* Type correctness, for every setting and fault (c_tcp.c, the whole FSM): *)
(* no count of writes or of queued messages goes below zero.               *)
(***************************************************************************)
THEOREM TcpTyping == Spec => []TypeOK
<1>1. Init => TypeOK
  <2> SUFFICES ASSUME Init PROVE TypeOK
    OBVIOUS
  <2>1. [e \in Events |-> "none"] \in [Events -> YevStates]
    BY DEF YevStates
  <2>2. <<>> \in Seq(Done)
    OBVIOUS
  <2>3. tcp \in Tcp
    BY <2>1, <2>2 DEF Init, Tcp, States
  <2>4. sends \in 0..MaxSends /\ faults \in 0..MaxFaults
    BY TcpAssumption DEF Init
  <2>5. conf \in Models /\ strays \in Nat /\ strayed \in BOOLEAN
    BY DEF Init
  <2> QED
    BY ONLY <2>3, <2>4, <2>5 DEF TypeOK, Tcp, Done
<1>2. TypeOK /\ [Next]_vars => TypeOK'
  <2> SUFFICES ASSUME TypeOK, [Next]_vars PROVE TypeOK'
    OBVIOUS
  <2>1. tcp \in Tcp /\ faults \in 0..MaxFaults /\ sends \in 0..MaxSends
    BY DEF TypeOK, Tcp, Done
  <2>2. tcp' \in Tcp /\ faults' \in 0..MaxFaults
    <3>1. CASE MtStart
      BY <2>1, <3>1, MtStartTypes, FaultTypes
    <3>2. CASE MtStop
      BY <2>1, <3>2, MtStopTypes, FaultTypes DEF MtStop
    <3>3. CASE FromAbove
      BY <2>1, <3>3, FromAboveTypes, FaultTypes
    <3>4. CASE Drop
      BY <2>1, <3>4, TryToStopTypes, FaultTypes DEF Drop
    <3>5. CASE Timeout
      BY <2>1, <3>5, TimeoutTypes, FaultTypes
    <3>6. CASE \E e \in Events, res \in Results : Completes(e, res)
      BY <2>1, <3>6, CompletesTypes, FaultTypes
    <3>7. CASE Reap
      BY <2>1, <3>7, ReapTypes, FaultTypes
    <3>8. CASE WriteDone \/ WriteFails
      BY <2>1, <3>8, WriteEndsTypes, FaultTypes
    <3>9. CASE WritePart
      BY <2>1, <3>9, TimersTypes DEF WritePart
    <3>10. CASE StrayAccepts
      BY <2>1, <3>10, StrayTypes, FaultTypes
    <3>11. CASE UNCHANGED vars
      BY <2>1, <3>11 DEF vars
    <3> QED
      BY <3>1, <3>2, <3>3, <3>4, <3>5, <3>6, <3>7, <3>8, <3>9, <3>10, <3>11
         DEF Next
  <2>3. conf' = conf /\ sends' \in 0..MaxSends
    <3>1. conf' = conf /\ (FromAbove \/ sends' = sends)
      BY DEF Next, vars, MtStart, MtStop, FromAbove, Drop, Timeout, Completes,
             Reap, StrayAccepts, WriteDone, WriteFails, WritePart
    <3>2. FromAbove => sends < MaxSends /\ sends' = sends + 1
      BY DEF FromAbove
    <3>3. MaxSends \in Nat
      BY TcpAssumption
    <3> QED
      BY <2>1, <3>1, <3>2, <3>3
  <2>4. conf' \in Models
    BY <2>3 DEF TypeOK
  <2>5. strays' \in Nat /\ strayed' \in BOOLEAN
    <3>1. strays \in Nat /\ strayed \in BOOLEAN
      BY DEF TypeOK
    <3>2. \/ UNCHANGED strays \/ strays' = strays + 1
          \/ strays > 0 /\ strays' = strays - 1
      BY StraysChange
    <3>3. strayed' = strayed \/ strayed' = TRUE
      BY StraysChange
    <3>4. strays' \in Nat
      BY ONLY <3>1, <3>2
    <3>5. strayed' \in BOOLEAN
      BY ONLY <3>1, <3>3
    <3> QED
      BY <3>4, <3>5
  <2> QED
    BY <2>2, <2>3, <2>4, <2>5 DEF TypeOK, Tcp, Done
<1> QED
  BY <1>1, <1>2, PTL DEF Spec
-----------------------------------------------------------------------------
(* The ring.  A completion that is not reaped yet belongs to the operation *)
(* of now or to one that was cancelled before, and an event that starts    *)
(* again must not take the second for the first.                           *)

Places(cq, e) == {i \in DOMAIN cq : cq[i].ev = e}

\* An event in the kernel runs and has nothing in the ring; one that runs has
\* at most one completion there; one that is idle has none.
OneEach(s, e) ==
    /\ e \in s.armed => s.yev[e] = "RUNNING" /\ Places(s.cq, e) = {}
    /\ s.yev[e] = "RUNNING" => \A i, j \in Places(s.cq, e) : i = j
    /\ s.yev[e] = "IDLE" => Places(s.cq, e) = {}

\* What a read of a former connection left in the ring comes before the
\* completion of the connect or the accept that goes on.
ReadsFirst(s) ==
    s.yev["open"] = "RUNNING" =>
        \A i \in Places(s.cq, "open"), j \in Places(s.cq, "read") : j < i

\* An accept ends by a peer that came or by its cancel: its error is the last
\* of its completions, and with it the event is stopped.
AcceptEnds(s) ==
    \A i \in Places(s.cq, "open") :
        /\ s.yev["open"] \in {"RUNNING", "CANCELING"}
        /\ s.cq[i].res = "error" =>
              /\ s.yev["open"] = "CANCELING"
              /\ \A j \in Places(s.cq, "open") : j <= i

RingInd(s) ==
    /\ \A e \in Events : OneEach(s, e)
    /\ ReadsFirst(s)
    /\ conf.clisrv => AcceptEnds(s)

LEMMA PlacesAppend ==
  ASSUME NEW cq \in Seq(Done), NEW c \in Done, NEW e \in Events
  PROVE  LET r == Append(cq, c)
         IN  /\ r \in Seq(Done) /\ Len(cq) \in Nat
             /\ Places(cq, e) \subseteq 1..Len(cq)
             /\ Places(r, e) = IF c.ev = e THEN Places(cq, e) \cup {Len(cq) + 1}
                               ELSE Places(cq, e)
             /\ \A i \in 1..Len(cq) : r[i] = cq[i]
             /\ r[Len(cq) + 1] = c
<1> DEFINE r == Append(cq, c)
<1>1. /\ r \in Seq(Done) /\ Len(r) = Len(cq) + 1
      /\ \A i \in 1..Len(cq) : r[i] = cq[i]
      /\ r[Len(cq) + 1] = c
  BY AppendProperties
<1>2. Len(cq) \in Nat /\ DOMAIN cq = 1..Len(cq) /\ DOMAIN r = 1..Len(r)
  BY <1>1, LenProperties
<1> HIDE DEF r
<1>3. Places(r, e) = IF c.ev = e THEN Places(cq, e) \cup {Len(cq) + 1}
                     ELSE Places(cq, e)
  BY <1>1, <1>2 DEF Places
<1> QED
  BY <1>1, <1>2, <1>3 DEF Places, r

LEMMA PlacesTail ==
  ASSUME NEW cq \in Seq(Done), cq # <<>>, NEW e \in Events
  PROVE  /\ 1 \in Places(cq, Head(cq).ev) /\ cq[1] = Head(cq)
         /\ Places(cq, e) \subseteq Nat \ {0}
         /\ \A i \in Places(Tail(cq), e) :
              i \in Nat \ {0} /\ i + 1 \in Places(cq, e) /\ Tail(cq)[i] = cq[i + 1]
         /\ \A j \in Places(cq, e) :
              j = 1 \/ (j - 1 \in Places(Tail(cq), e) /\ Tail(cq)[j - 1] = cq[j])
<1>1. /\ Tail(cq) \in Seq(Done) /\ Len(Tail(cq)) = Len(cq) - 1
      /\ \A i \in 1..Len(Tail(cq)) : Tail(cq)[i] = cq[i + 1]
  BY HeadTailProperties
<1>2. Len(cq) \in Nat \ {0} /\ DOMAIN cq = 1..Len(cq)
  BY EmptySeq, LenProperties
<1>3. DOMAIN Tail(cq) = 1..(Len(cq) - 1)
  BY <1>1, LenProperties
<1>4. cq[1] = Head(cq)
  OBVIOUS
<1>5. \A i \in 1..(Len(cq) - 1) : i + 1 \in 1..Len(cq) /\ Tail(cq)[i] = cq[i + 1]
  BY <1>1, <1>2
<1>6. \A j \in 1..Len(cq) : j = 1 \/ (/\ j - 1 \in 1..(Len(cq) - 1)
                                      /\ Tail(cq)[j - 1] = cq[j])
  <2> TAKE j \in 1..Len(cq)
  <2>1. CASE j # 1
    <3>1. j - 1 \in 1..(Len(cq) - 1) /\ (j - 1) + 1 = j
      BY <1>2, <2>1
    <3> QED
      BY <1>5, <3>1
  <2> QED
    BY <2>1
<1> QED
  BY <1>2, <1>3, <1>4, <1>5, <1>6 DEF Places

\* Only the events matter to the ring.
LEMMA RingSame ==
  ASSUME NEW s, NEW r, SameEvents(r, s), RingInd(s)
  PROVE  RingInd(r)
BY DEF SameEvents, RingInd, OneEach, ReadsFirst, AcceptEnds

\* An event of which nothing is left in the ring may start.
LEMMA RingStarts ==
  ASSUME NEW s \in Tcp, NEW e \in Events, RingInd(s), Places(s.cq, e) = {}
  PROVE  RingInd(YevStart(s, e))
<1> DEFINE r == YevStart(s, e)
<1>1. CASE s.yev[e] \in {"IDLE", "STOPPED"}
  <2>1. /\ r.yev = [s.yev EXCEPT ![e] = "RUNNING"]
        /\ r.armed = s.armed \cup {e} /\ r.cq = s.cq
    BY <1>1, StartDoes
  <2> HIDE DEF r
  <2>2. r.yev[e] = "RUNNING" /\ \A f \in Events \ {e} : r.yev[f] = s.yev[f]
    BY <2>1 DEF Tcp
  <2>3. \A f \in Events : OneEach(r, f)
    BY <2>1, <2>2 DEF RingInd, OneEach
  <2>4. ReadsFirst(r)
    BY <2>1, <2>2 DEF RingInd, ReadsFirst, Events
  <2>5. conf.clisrv => AcceptEnds(r)
    BY <2>1, <2>2 DEF RingInd, AcceptEnds, Events
  <2> QED
    BY <2>3, <2>4, <2>5 DEF RingInd, r
<1>2. CASE s.yev[e] \notin {"IDLE", "STOPPED"}
  BY <1>2, StartDoes
<1> QED
  BY <1>1, <1>2

\* An event that has no operation may be created, or forgotten by a client.
LEMMA RingChanges ==
  ASSUME NEW s \in Tcp, NEW r, NEW e \in Events, NEW state,
         RingInd(s), e \notin s.armed, state # "RUNNING",
         Places(s.cq, e) = {} \/ (state # "IDLE" /\ ~conf.clisrv),
         r.yev = [s.yev EXCEPT ![e] = state],
         r.armed = s.armed, r.cq = s.cq
  PROVE  RingInd(r)
<1>1. r.yev[e] = state /\ \A f \in Events \ {e} : r.yev[f] = s.yev[f]
  BY DEF Tcp
<1>2. \A f \in Events : OneEach(r, f)
  BY <1>1 DEF RingInd, OneEach
<1>3. ReadsFirst(r)
  BY <1>1 DEF RingInd, ReadsFirst, Events
<1>4. conf.clisrv => AcceptEnds(r)
  BY <1>1 DEF RingInd, AcceptEnds, Events
<1> QED
  BY <1>2, <1>3, <1>4 DEF RingInd
\* A stopped event is neither running nor idle, and its cancel comes last.
LEMMA RingStops ==
  ASSUME NEW s \in Tcp, NEW e \in Events, RingInd(s),
         e = "read" => s.yev["open"] # "RUNNING"
  PROVE  LET r == YevStop(s, e)
         IN  /\ RingInd(r)
             /\ r.yev[e] \notin {"RUNNING", "IDLE"}
             /\ \A f \in Events \ {e} : r.yev[f] = s.yev[f]
<1> DEFINE r == YevStop(s, e)
<1>1. CASE s.yev[e] = "RUNNING"
  <2> DEFINE first == IF e \in s.armed THEN Append(s.cq, Cancelled(e)) ELSE s.cq
  <2>1. /\ r.yev = [s.yev EXCEPT ![e] = "CANCELING"]
        /\ r.armed = s.armed \ {e} /\ r.cq = Append(first, Failed(e))
    BY <1>1, StopDoes
  <2> HIDE DEF r
  <2>2. r.yev[e] = "CANCELING" /\ \A f \in Events \ {e} : r.yev[f] = s.yev[f]
    BY <2>1 DEF Tcp
  <2>3. s.cq \in Seq(Done) /\ Cancelled(e) \in Done /\ Failed(e) \in Done
    BY DoneWith DEF Tcp
  <2>4. first \in Seq(Done)
    BY <2>3, AppendProperties
  <2>5. /\ \A f \in Events \ {e} : Places(first, f) = Places(s.cq, f)
        /\ \A f \in Events : Places(first, f) \subseteq 1..Len(first)
        /\ Len(first) \in Nat
    BY <2>3, <2>4, PlacesAppend, LenProperties DEF Cancelled, Places
  <2>6. conf.clisrv /\ e = "open" =>
          \A i \in Places(first, e) : first[i].res # "error"
    <3>1. CASE e \in s.armed
      <4>1. Places(s.cq, e) = {}
        BY <3>1 DEF RingInd, OneEach
      <4>2. /\ Places(first, e) = {Len(s.cq) + 1}
            /\ first[Len(s.cq) + 1] = Cancelled(e)
        BY <2>3, <3>1, <4>1, PlacesAppend DEF Cancelled
      <4> QED
        BY <4>2 DEF Cancelled
    <3>2. CASE e \notin s.armed
      BY <1>1, <3>2 DEF RingInd, AcceptEnds
    <3> QED
      BY <3>1, <3>2
  <2> HIDE DEF first
  <2>7. /\ \A f \in Events \ {e} : Places(r.cq, f) = Places(s.cq, f)
        /\ Places(r.cq, e) = Places(first, e) \cup {Len(first) + 1}
        /\ \A i \in 1..Len(first) : r.cq[i] = first[i]
        /\ r.cq[Len(first) + 1] = Failed(e)
    BY <2>1, <2>3, <2>4, <2>5, PlacesAppend DEF Failed
  <2>8. \A f \in Events : OneEach(r, f)
    BY <2>1, <2>2, <2>7 DEF RingInd, OneEach
  <2>9. ReadsFirst(r)
    BY <2>2 DEF ReadsFirst, Events
  <2>10. ASSUME conf.clisrv PROVE AcceptEnds(r)
    <3>1. CASE e = "open"
      BY <2>2, <2>5, <2>6, <2>7, <2>10, <3>1 DEF AcceptEnds
    <3>2. CASE e = "read"
      <4>1. /\ r.yev["open"] = s.yev["open"]
            /\ Places(r.cq, "open") = Places(s.cq, "open")
        BY <2>2, <2>7, <3>2 DEF Events
      <4>2. \A i \in Places(s.cq, "open") : r.cq[i] = s.cq[i]
        <5>1. \A i \in 1..Len(s.cq) : first[i] = s.cq[i] /\ i \in 1..Len(first)
          BY <2>3, AppendProperties, LenProperties DEF first
        <5>2. Places(s.cq, "open") \subseteq 1..Len(s.cq)
          BY <2>3, PlacesAppend DEF Events
        <5> QED
          BY <2>7, <5>1, <5>2
      <4> QED
        BY <2>10, <4>1, <4>2 DEF RingInd, AcceptEnds
    <3> QED
      BY <3>1, <3>2 DEF Events
  <2> QED
    BY <2>2, <2>8, <2>9, <2>10 DEF RingInd, r
<1>2. CASE s.yev[e] = "IDLE"
  <2>1. /\ r.yev = [s.yev EXCEPT ![e] = "STOPPED"]
        /\ r.armed = s.armed /\ r.cq = s.cq
    BY <1>2, StopDoes
  <2>2. e \notin s.armed /\ Places(s.cq, e) = {}
    BY <1>2 DEF RingInd, OneEach
  <2> HIDE DEF r
  <2>3. RingInd(r)
    BY <2>1, <2>2, RingChanges
  <2> QED
    BY <2>1, <2>3 DEF Tcp, r
<1>3. CASE s.yev[e] \notin {"RUNNING", "IDLE"}
  BY <1>3, StopDoes
<1> QED
  BY <1>1, <1>2, <1>3

\* The kernel ends an operation.
LEMMA RingCompletes ==
  ASSUME NEW s \in Tcp, NEW r, NEW e \in Events, NEW res \in Results,
         RingInd(s), e \in s.armed,
         e = "open" /\ conf.clisrv => res # "error",
         e = "read" => s.yev["open"] # "RUNNING",
         r.yev = s.yev, r.armed = s.armed \ {e},
         r.cq = Append(s.cq, [ev |-> e, res |-> res])
  PROVE  RingInd(r)
<1> DEFINE c == [ev |-> e, res |-> res]
<1>1. c \in Done /\ s.cq \in Seq(Done)
  BY DEF Done, Tcp
<1>2. s.yev[e] = "RUNNING" /\ Places(s.cq, e) = {}
  BY DEF RingInd, OneEach
<1>3. /\ \A f \in Events \ {e} : Places(r.cq, f) = Places(s.cq, f)
      /\ Places(r.cq, e) = {Len(s.cq) + 1}
      /\ Len(s.cq) \in Nat
      /\ \A f \in Events : Places(s.cq, f) \subseteq 1..Len(s.cq)
      /\ \A i \in 1..Len(s.cq) : r.cq[i] = s.cq[i]
      /\ r.cq[Len(s.cq) + 1] = c
  BY <1>1, <1>2, PlacesAppend
<1>4. \A f \in Events : OneEach(r, f)
  BY <1>2, <1>3 DEF RingInd, OneEach
<1>5. ReadsFirst(r)
  <2>1. CASE e = "open"
    <3>1. Places(r.cq, "read") = Places(s.cq, "read")
      BY <1>3, <2>1 DEF Events
    <3>2. Places(s.cq, "read") \subseteq 1..Len(s.cq)
      BY <1>3 DEF Events
    <3>3. \A j \in 1..Len(s.cq) : j < Len(s.cq) + 1
      BY <1>3
    <3> QED
      BY <1>3, <2>1, <3>1, <3>2, <3>3 DEF ReadsFirst
  <2>2. CASE e = "read"
    BY <2>2 DEF ReadsFirst
  <2> QED
    BY <2>1, <2>2 DEF Events
<1>6. ASSUME conf.clisrv PROVE AcceptEnds(r)
  <2>1. CASE e = "open"
    BY <1>2, <1>3, <1>6, <2>1 DEF AcceptEnds
  <2>2. CASE e = "read"
    <3>1. Places(r.cq, "open") = Places(s.cq, "open")
      BY <1>3, <2>2 DEF Events
    <3>2. \A i \in Places(s.cq, "open") : r.cq[i] = s.cq[i]
      BY <1>3 DEF Events
    <3> QED
      BY <1>6, <3>1, <3>2 DEF RingInd, AcceptEnds
  <2> QED
    BY <2>1, <2>2 DEF Events
<1> QED
  BY <1>4, <1>5, <1>6 DEF RingInd

\* The completion at the head is taken: if its event ran, nothing else of the
\* event is left, and of a connect or accept nothing of the reads before it.
LEMMA RingTaken ==
  ASSUME NEW s \in Tcp, s.cq # <<>>, RingInd(s)
  PROVE  LET c == Head(s.cq)
             r == Taken(s)
         IN  /\ RingInd(r)
             /\ SameButEvents(r, s)
             /\ r.armed = s.armed /\ r.cq = Tail(s.cq)
             /\ r.yev[c.ev] = Reaped(s.yev[c.ev], c.ev, c.res)
             /\ \A f \in Events \ {c.ev} : r.yev[f] = s.yev[f]
             /\ s.yev[c.ev] = "RUNNING" =>
                  /\ c.ev \notin r.armed /\ Places(r.cq, c.ev) = {}
                  /\ c.ev = "open" => Places(r.cq, "read") = {}
<1> DEFINE c == Head(s.cq)
           r == Taken(s)
<1>1. c \in Done /\ s.cq \in Seq(Done) /\ c.ev \in Events /\ c.res \in Results
  BY TakenTypes DEF Tcp, Done
<1>2. /\ r.cq = Tail(s.cq) /\ r.armed = s.armed /\ SameButEvents(r, s)
      /\ r.yev = [s.yev EXCEPT ![c.ev] = Reaped(s.yev[c.ev], c.ev, c.res)]
  BY DEF Taken, Tcp, SameButEvents
<1>3. /\ r.yev[c.ev] = Reaped(s.yev[c.ev], c.ev, c.res)
      /\ \A f \in Events \ {c.ev} : r.yev[f] = s.yev[f]
  BY <1>1, <1>2 DEF Tcp
<1>4. /\ 1 \in Places(s.cq, c.ev) /\ s.cq[1] = c
      /\ \A f \in Events : Places(s.cq, f) \subseteq Nat \ {0}
      /\ \A f \in Events : \A i \in Places(r.cq, f) :
           i \in Nat \ {0} /\ i + 1 \in Places(s.cq, f) /\ r.cq[i] = s.cq[i + 1]
  <2> HIDE DEF r
  <2>1. \A f \in Events :
          /\ 1 \in Places(s.cq, c.ev) /\ s.cq[1] = c
          /\ Places(s.cq, f) \subseteq Nat \ {0}
          /\ \A i \in Places(Tail(s.cq), f) :
               /\ i \in Nat \ {0} /\ i + 1 \in Places(s.cq, f)
               /\ Tail(s.cq)[i] = s.cq[i + 1]
    BY <1>1, PlacesTail
  <2> HIDE DEF c
  <2> QED
    BY <1>1, <1>2, <2>1
<1> HIDE DEF c, r
<1>5. c.ev \notin r.armed
  BY <1>1, <1>2, <1>4 DEF RingInd, OneEach
<1>6. s.yev[c.ev] = "RUNNING" => Places(r.cq, c.ev) = {}
  <2> SUFFICES ASSUME s.yev[c.ev] = "RUNNING", NEW i \in Places(r.cq, c.ev)
               PROVE  FALSE
    OBVIOUS
  <2>1. i \in Nat \ {0} /\ i + 1 \in Places(s.cq, c.ev)
    BY <1>1, <1>4
  <2>2. i + 1 = 1
    BY <1>1, <1>4, <2>1 DEF RingInd, OneEach
  <2> QED
    BY <2>1, <2>2
<1>7. s.yev[c.ev] = "RUNNING" /\ c.ev = "open" => Places(r.cq, "read") = {}
  <2> SUFFICES ASSUME s.yev["open"] = "RUNNING", c.ev = "open",
                      NEW i \in Places(r.cq, "read")
               PROVE  FALSE
    OBVIOUS
  <2>1. i \in Nat \ {0} /\ i + 1 \in Places(s.cq, "read")
    BY <1>4 DEF Events
  <2>2. i + 1 < 1
    BY <1>4, <2>1 DEF RingInd, ReadsFirst
  <2> QED
    BY <2>1, <2>2
<1>8. \A f \in Events : OneEach(r, f)
  <2> TAKE f \in Events
  <2>1. CASE f = c.ev
    <3>1. r.yev[f] \in {"RUNNING", "IDLE"} => s.yev[f] \in {"RUNNING", "IDLE"}
      BY <1>3, <2>1 DEF Reaped
    <3>2. s.yev[f] # "IDLE"
      BY <1>4, <2>1 DEF RingInd, OneEach
    <3> QED
      BY <1>5, <1>6, <2>1, <3>1, <3>2 DEF OneEach
  <2>2. CASE f # c.ev
    <3>1. /\ r.yev[f] = s.yev[f] /\ r.armed = s.armed
          /\ Places(s.cq, f) = {} => Places(r.cq, f) = {}
      BY <1>2, <1>3, <1>4, <2>2
    <3>2. ASSUME s.yev[f] = "RUNNING", NEW i \in Places(r.cq, f),
                 NEW j \in Places(r.cq, f)
          PROVE  i = j
      <4>1. /\ i \in Nat /\ j \in Nat
            /\ i + 1 \in Places(s.cq, f) /\ j + 1 \in Places(s.cq, f)
        BY <1>4, <3>2
      <4>2. i + 1 = j + 1
        BY <3>2, <4>1 DEF RingInd, OneEach
      <4> QED
        BY <4>1, <4>2
    <3> QED
      BY <3>1, <3>2 DEF RingInd, OneEach
  <2> QED
    BY <2>1, <2>2
<1>9. ReadsFirst(r)
  <2> SUFFICES ASSUME r.yev["open"] = "RUNNING", NEW i \in Places(r.cq, "open"),
                      NEW j \in Places(r.cq, "read")
               PROVE  j < i
    BY DEF ReadsFirst
  <2>1. s.yev["open"] = "RUNNING"
    BY <1>1, <1>3 DEF Events, Reaped
  <2>2. /\ i \in Nat /\ j \in Nat
        /\ i + 1 \in Places(s.cq, "open") /\ j + 1 \in Places(s.cq, "read")
    BY <1>4 DEF Events
  <2>3. j + 1 < i + 1
    BY <2>1, <2>2 DEF RingInd, ReadsFirst
  <2> QED
    BY <2>2, <2>3
<1>10. ASSUME conf.clisrv PROVE AcceptEnds(r)
  <2>1. SUFFICES ASSUME NEW i \in Places(r.cq, "open")
                 PROVE  /\ r.yev["open"] \in {"RUNNING", "CANCELING"}
                        /\ r.cq[i].res = "error" =>
                             /\ r.yev["open"] = "CANCELING"
                             /\ \A j \in Places(r.cq, "open") : j <= i
    BY DEF AcceptEnds
  <2>2. /\ i \in Nat \ {0} /\ i + 1 \in Places(s.cq, "open")
        /\ r.cq[i] = s.cq[i + 1]
    BY <1>4 DEF Events
  <2>3. AcceptEnds(s)
    BY <1>10 DEF RingInd
  <2>4. r.yev["open"] = s.yev["open"]
    <3>1. CASE c.ev = "open"
      <4>1. s.yev["open"] = "CANCELING"
        BY <1>6, <2>2, <2>3, <3>1 DEF AcceptEnds
      <4>2. ASSUME c.res = "error" PROVE FALSE
        <5>1. i + 1 <= 1
          BY <1>4, <2>2, <2>3, <3>1, <4>2 DEF AcceptEnds
        <5> QED
          BY <2>2, <5>1
      <4> QED
        BY <1>3, <3>1, <4>1, <4>2 DEF Reaped
    <3>2. CASE c.ev # "open"
      BY <1>3, <3>2 DEF Events
    <3> QED
      BY <3>1, <3>2
  <2>5. ASSUME r.cq[i].res = "error", NEW j \in Places(r.cq, "open")
        PROVE  j <= i
    <3>1. j \in Nat /\ j + 1 \in Places(s.cq, "open")
      BY <1>4 DEF Events
    <3>2. j + 1 <= i + 1
      BY <2>2, <2>3, <2>5, <3>1 DEF AcceptEnds
    <3> QED
      BY <2>2, <3>1, <3>2
  <2> QED
    BY <2>2, <2>3, <2>4, <2>5 DEF AcceptEnds
<1> QED
  BY <1>1, <1>2, <1>3, <1>5, <1>6, <1>7, <1>8, <1>9, <1>10
     DEF RingInd, c, r
-----------------------------------------------------------------------------
(* The phases of a connection: what each state says of what was announced, *)
(* of the writes and of the two events.                                    *)

Told(s) ==
    /\ ~s.disorder
    /\ s.told = IF s.inform THEN "up" ELSE "down"

Quiet(s) ==
    s.told = "down" /\ s.writes = 0 /\ ~s.txing /\ YevStopped(s, "read")

PhaseInd(s) ==
    /\ Told(s)
    /\ s.state \in {"DISCONNECTED", "STOPPED", "WAIT_CONNECTED"} => Quiet(s)
    /\ s.state = "WAIT_HANDSHAKE" => s.told = "down" /\ ~s.txing
    /\ s.state = "CONNECTED" => s.told = "up"
    /\ s.yev["read"] \in {"RUNNING", "IDLE"} =>
          s.state \in {"WAIT_HANDSHAKE", "CONNECTED"}
    /\ s.yev["open"] = "RUNNING" =>
          s.state \in IF conf.clisrv THEN {"DISCONNECTED", "STOPPED"}
                      ELSE {"WAIT_CONNECTED"}

Sound(s) == s \in Tcp /\ RingInd(s) /\ PhaseInd(s)

\* What try_to_stop_yevents() needs: less than Sound, since it is called in
\* the middle of handlers, but in the states without a connection the same.
Stoppable(s) ==
    /\ s \in Tcp /\ RingInd(s) /\ Told(s)
    /\ s.state \in {"DISCONNECTED", "STOPPED"} => PhaseInd(s)

LEMMA SoundIsStoppable ==
  ASSUME NEW s, Sound(s)
  PROVE  Stoppable(s)
BY DEF Sound, Stoppable, PhaseInd

\* Timers, counts of queued messages and the like are nothing to it.
LEMMA SoundSame ==
  ASSUME NEW s, NEW r \in Tcp, Sound(s), SameEvents(r, s),
         r.state = s.state, r.told = s.told, r.inform = s.inform,
         r.disorder = s.disorder, r.writes = s.writes, r.txing = s.txing
  PROVE  Sound(r)
BY RingSame DEF Sound, PhaseInd, Told, Quiet, YevStopped, SameEvents

LEMMA StopBoth ==
  ASSUME NEW s \in Tcp, RingInd(s)
  PROVE  LET t == YevStop(YevStop(s, "open"), "read")
         IN  /\ t \in Tcp /\ RingInd(t) /\ SameButEvents(t, s)
             /\ \A e \in Events : t.yev[e] \notin {"RUNNING", "IDLE"}
<1> DEFINE u == YevStop(s, "open")
           t == YevStop(u, "read")
<1>1. u \in Tcp /\ SameButEvents(u, s) /\ t \in Tcp /\ SameButEvents(t, u)
  BY StopDoes DEF Events
<1>2. RingInd(u) /\ u.yev["open"] \notin {"RUNNING", "IDLE"}
  BY RingStops DEF Events
<1> HIDE DEF u
<1>3. /\ RingInd(t) /\ t.yev["read"] \notin {"RUNNING", "IDLE"}
      /\ t.yev["open"] = u.yev["open"]
  BY <1>1, <1>2, RingStops DEF Events
<1>4. SameButEvents(t, s)
  BY <1>1 DEF SameButEvents
<1> QED
  BY <1>1, <1>2, <1>3, <1>4 DEF Events, u

\* set_disconnected(), called with everything stopped.
LEMMA SetDisconnectedSound ==
  ASSUME conf \in Models, NEW s \in Tcp, RingInd(s), Told(s),
         s.state = "STOPPED", ~InProgress(s)
  PROVE  LET r == SetDisconnected(s)
         IN  /\ Sound(r)
             /\ r.state \in {"STOPPED", "DISCONNECTED"}
<1> DEFINE told == IF Informs(s) THEN Tell(s, "down") ELSE s
           t == [told EXCEPT !.inform = FALSE, !.txing = FALSE,
                             !.queue = IF KeepsQueue(s) THEN @ ELSE 0]
           again == [t EXCEPT !.state = "DISCONNECTED"]
           r == SetDisconnected(s)
<1>1. /\ told \in Tcp /\ told.told = "down" /\ ~told.disorder
      /\ SameEvents(told, s)
      /\ told.state = "STOPPED" /\ told.writes = s.writes
  BY DEF Informs, Tell, Told, Tcp, SameEvents
<1>2. /\ s.writes = 0
      /\ \A e \in Events : s.yev[e] \in {"none", "STOPPED"}
  BY DEF InProgress, YevStopped, Tcp
<1>3. /\ t.told = "down" /\ ~t.disorder /\ ~t.inform /\ ~t.txing
      /\ SameEvents(t, s) /\ t.state = "STOPPED" /\ t.writes = 0
  <2> HIDE DEF told
  <2> QED
    BY <1>1, <1>2 DEF SameEvents, Tcp
<1>4. t \in Tcp
  <2> HIDE DEF told
  <2> QED
    BY <1>1 DEF Tcp
<1> HIDE DEF t, told
<1>5. /\ again \in Tcp
      /\ again.told = "down" /\ ~again.disorder /\ ~again.inform
      /\ ~again.txing /\ again.writes = 0 /\ again.state = "DISCONNECTED"
      /\ SameEvents(again, s)
  BY <1>3, <1>4 DEF Tcp, States, SameEvents
<1>6. RingInd(t) /\ RingInd(again)
  BY <1>3, <1>5, RingSame
<1> HIDE DEF again
<1>7. r \in Tcp
  BY SetDisconnectedTypes
<1>8. conf.clisrv \in BOOLEAN
  BY ConfTypes
<1>9. s.running \in BOOLEAN
  BY DEF Tcp
<1>10. CASE conf.clisrv /\ s.running
  <2>1. r = YevStart(again, "open")
    BY <1>10 DEF SetDisconnected, again, t, told
  <2>2. Places(again.cq, "open") = {}
    BY <1>2, <1>5, <1>6, <1>10
       DEF SameEvents, RingInd, AcceptEnds, Events
  <2>3. RingInd(r)
    BY <1>5, <1>6, <2>1, <2>2, RingStarts DEF Events
  <2>4. SameButEvents(r, again)
    BY <1>5, <2>1, StartDoes DEF Events
  <2>6. r.yev["read"] = s.yev["read"]
    BY <1>5, <2>1, StartTouches DEF Events, SameEvents
  <2>5. PhaseInd(r)
    BY <1>2, <1>5, <1>10, <2>4, <2>6
       DEF PhaseInd, Told, Quiet, YevStopped, SameButEvents, Events
  <2> QED
    BY <1>5, <1>7, <2>3, <2>4, <2>5 DEF Sound, SameButEvents
<1>11. CASE conf.clisrv /\ ~s.running
  <2>1. r = t
    BY <1>11 DEF SetDisconnected, t, told
  <2>2. PhaseInd(t)
    BY <1>2, <1>3
       DEF PhaseInd, Told, Quiet, YevStopped, SameEvents, Events
  <2> QED
    BY <1>3, <1>4, <1>6, <2>1, <2>2 DEF Sound
<1>12. CASE ~conf.clisrv /\ s.running
  <2>1. r = [RetryLater(again) EXCEPT !.idleClosed = FALSE]
    BY <1>12 DEF SetDisconnected, again, t, told
  <2>2. /\ SameEvents(r, again) /\ r.state = again.state
        /\ r.told = again.told /\ r.inform = again.inform
        /\ r.disorder = again.disorder /\ r.writes = again.writes
        /\ r.txing = again.txing
    BY <1>5, <2>1 DEF RetryLater, SetTimeout, ClearTimeout, Tcp, SameEvents
  <2>3. PhaseInd(again)
    BY <1>2, <1>5
       DEF PhaseInd, Told, Quiet, YevStopped, SameEvents, Events
  <2>4. Sound(again)
    BY <1>5, <1>6, <2>3 DEF Sound
  <2> QED
    BY <1>5, <1>7, <2>2, <2>4, SoundSame
<1>13. CASE ~conf.clisrv /\ ~s.running
  <2>1. r = [t EXCEPT !.yev["open"] = "none", !.idleClosed = FALSE]
    BY <1>13 DEF SetDisconnected, t, told
  <2>2. /\ r.yev = [t.yev EXCEPT !["open"] = "none"]
        /\ r.armed = t.armed /\ r.cq = t.cq /\ r.state = t.state
        /\ r.told = t.told /\ r.inform = t.inform
        /\ r.disorder = t.disorder /\ r.writes = t.writes
        /\ r.txing = t.txing
    BY <1>4, <2>1 DEF Tcp
  <2>3. "open" \notin t.armed
    BY <1>2, <1>3 DEF RingInd, OneEach, Events, SameEvents
  <2>4. RingInd(r)
    BY <1>4, <1>6, <1>13, <2>2, <2>3, RingChanges DEF Events
  <2>5. r.yev["open"] = "none" /\ r.yev["read"] = s.yev["read"]
    BY <1>3, <1>4, <2>2 DEF Tcp, Events, SameEvents
  <2>6. PhaseInd(r)
    BY <1>2, <1>3, <2>2, <2>5
       DEF PhaseInd, Told, Quiet, YevStopped, Events
  <2> QED
    BY <1>3, <1>7, <2>2, <2>4, <2>6 DEF Sound
<1> QED
  BY <1>8, <1>9, <1>10, <1>11, <1>12, <1>13
\* try_to_stop_yevents() leaves a sound record, whatever it finds; what it
\* finds open it leaves closing or closed.
LEMMA TryToStopSound ==
  ASSUME conf \in Models, NEW s, Stoppable(s)
  PROVE  LET r == TryToStop(s)
         IN  /\ Sound(r)
             /\ r.state \in {"STOPPED", "DISCONNECTED", "WAIT_STOPPED"}
             /\ s.told = "down" => r.told = "down"
<1> DEFINE t == YevStop(YevStop(s, "open"), "read")
           r == TryToStop(s)
<1>1. s \in Tcp /\ RingInd(s) /\ Told(s)
  BY DEF Stoppable
<1>2. /\ t \in Tcp /\ RingInd(t) /\ SameButEvents(t, s)
      /\ \A e \in Events : t.yev[e] \notin {"RUNNING", "IDLE"}
  BY <1>1, StopBoth
<1> HIDE DEF t
<1>3. CASE s.state = "STOPPED"
  <2>1. r = s
    BY <1>3 DEF TryToStop
  <2> QED
    BY <1>3, <2>1 DEF Stoppable, Sound
<1>4. CASE s.state # "STOPPED" /\ InProgress(t)
  <2>1. r = [t EXCEPT !.state = "WAIT_STOPPED"]
    BY <1>4 DEF TryToStop, t
  <2>2. /\ r \in Tcp /\ SameEvents(r, t) /\ r.state = "WAIT_STOPPED"
        /\ r.told = s.told /\ r.inform = s.inform /\ r.disorder = s.disorder
    BY <1>2, <2>1 DEF Tcp, States, SameEvents, SameButEvents
  <2>3. RingInd(r)
    BY <1>2, <2>2, RingSame
  <2>4. PhaseInd(r)
    BY <1>1, <1>2, <2>2 DEF PhaseInd, Told, SameEvents, Events
  <2> QED
    BY <2>2, <2>3, <2>4 DEF Sound
<1>5. CASE s.state = "DISCONNECTED" /\ ~InProgress(t)
  <2>1. r = [t EXCEPT !.state = IF s.running THEN @ ELSE "STOPPED"]
    BY <1>5 DEF TryToStop, t
  <2>2. /\ r \in Tcp /\ SameEvents(r, t)
        /\ r.state \in {"DISCONNECTED", "STOPPED"}
        /\ r.told = s.told /\ r.inform = s.inform /\ r.disorder = s.disorder
        /\ r.writes = s.writes /\ r.txing = s.txing
    BY <1>2, <1>5, <2>1 DEF Tcp, States, SameEvents, SameButEvents
  <2>3. RingInd(r)
    BY <1>2, <2>2, RingSame
  <2>4. /\ \A e \in Events : YevStopped(t, e)
        /\ PhaseInd(s)
    BY <1>5 DEF InProgress, Stoppable
  <2>5. PhaseInd(r)
    BY <1>2, <1>5, <2>2, <2>4
       DEF PhaseInd, Told, Quiet, YevStopped, SameEvents, Events
  <2>6. s.told = "down"
    BY <1>5, <2>4 DEF PhaseInd, Quiet
  <2> QED
    BY <2>2, <2>3, <2>5, <2>6 DEF Sound
<1>6. CASE s.state \notin {"STOPPED", "DISCONNECTED"} /\ ~InProgress(t)
  <2> DEFINE u == [t EXCEPT !.state = "STOPPED"]
  <2>1. r = SetDisconnected(u)
    BY <1>6 DEF TryToStop, t
  <2>2. /\ u \in Tcp /\ SameEvents(u, t) /\ u.state = "STOPPED"
        /\ u.told = s.told /\ u.inform = s.inform /\ u.disorder = s.disorder
        /\ u.writes = t.writes
    BY <1>2 DEF Tcp, States, SameEvents, SameButEvents
  <2> HIDE DEF u
  <2>3. RingInd(u) /\ Told(u) /\ ~InProgress(u)
    BY <1>1, <1>2, <1>6, <2>2, RingSame
       DEF Told, InProgress, YevStopped, SameEvents
  <2>4. Sound(r) /\ r.state \in {"STOPPED", "DISCONNECTED"}
    BY <2>1, <2>2, <2>3, SetDisconnectedSound
  <2>5. r.told = "down"
    BY <2>4 DEF Sound, PhaseInd, Quiet
  <2> QED
    BY <2>4, <2>5
<1> QED
  BY <1>3, <1>4, <1>5, <1>6
-----------------------------------------------------------------------------
(* What the other functions make of a sound record. *)

LEMMA WriteDataSound ==
  ASSUME conf \in Models, NEW s, Sound(s), NEW ok, s.state = "CONNECTED"
  PROVE  Sound(WriteData(s, ok))
<1>1. CASE ok
  <2> DEFINE r == [s EXCEPT !.writes = @ + 1]
  <2>1. WriteData(s, ok) = r
    BY <1>1 DEF WriteData
  <2>2. /\ r \in Tcp /\ SameEvents(r, s) /\ r.state = "CONNECTED"
        /\ r.told = s.told /\ r.inform = s.inform /\ r.disorder = s.disorder
    BY DEF Sound, Tcp, SameEvents
  <2> HIDE DEF r
  <2>3. RingInd(r) /\ PhaseInd(r)
    BY <2>2, RingSame DEF Sound, PhaseInd, Told, SameEvents
  <2> QED
    BY <2>1, <2>2, <2>3 DEF Sound
<1>2. CASE ~ok
  BY <1>2, SoundIsStoppable, TryToStopSound DEF WriteData
<1> QED
  BY <1>1, <1>2

\* In ST_CONNECTED the transmission and its queue are free to change.
LEMMA ConnectedSame ==
  ASSUME NEW s, NEW r \in Tcp, Sound(s), SameEvents(r, s),
         s.state = "CONNECTED", r.state = "CONNECTED",
         r.told = s.told, r.inform = s.inform, r.disorder = s.disorder
  PROVE  Sound(r)
BY RingSame DEF Sound, PhaseInd, Told, SameEvents

LEMMA WriteNextSound ==
  ASSUME conf \in Models, NEW s, Sound(s), NEW ok, s.state = "CONNECTED",
         s.queue # 0
  PROVE  Sound(WriteNext(s, ok))
<1> DEFINE r == [s EXCEPT !.txing = TRUE, !.queue = @ - 1]
<1>1. s.queue - 1 \in Nat
  BY DEF Sound, Tcp
<1>2. /\ r \in Tcp /\ SameEvents(r, s) /\ r.state = "CONNECTED"
      /\ r.told = s.told /\ r.inform = s.inform /\ r.disorder = s.disorder
  BY <1>1 DEF Sound, Tcp, SameEvents
<1>3. WriteNext(s, ok) = WriteData(r, ok)
  BY DEF WriteNext
<1> HIDE DEF r
<1> QED
  BY <1>2, <1>3, ConnectedSame, WriteDataSound

LEMMA MoreWritesSound ==
  ASSUME conf \in Models, NEW s, Sound(s), NEW ok, s.state = "CONNECTED"
  PROVE  Sound(TryMoreWrites(s, ok)) /\ Sound(StartPending(s, ok))
<1> DEFINE r == [s EXCEPT !.txing = FALSE]
<1>1. /\ r \in Tcp /\ SameEvents(r, s) /\ r.state = "CONNECTED"
      /\ r.told = s.told /\ r.inform = s.inform /\ r.disorder = s.disorder
  BY DEF Sound, Tcp, SameEvents
<1>2. Sound(r)
  BY <1>1, ConnectedSame
<1> HIDE DEF r
<1>3. Sound(TryMoreWrites(s, ok))
  BY <1>2, WriteNextSound DEF TryMoreWrites, r
<1>4. Sound(StartPending(s, ok))
  BY WriteNextSound DEF StartPending
<1> QED
  BY <1>3, <1>4

LEMMA TimersSound ==
  ASSUME NEW s, Sound(s)
  PROVE  /\ Sound(SetTimeout(s)) /\ Sound(ClearTimeout(s))
         /\ Sound(SetInactivityTimeout(s))
         /\ Sound([s EXCEPT !.timer = FALSE])
<1>1. s \in Tcp
  BY DEF Sound
<1>2. ASSUME NEW r, r \in {SetTimeout(s), ClearTimeout(s),
                           [s EXCEPT !.timer = FALSE]}
      PROVE  Sound(r)
  <2>1. /\ r \in Tcp /\ SameEvents(r, s)
        /\ r.state = s.state /\ r.told = s.told /\ r.inform = s.inform
        /\ r.disorder = s.disorder /\ r.writes = s.writes /\ r.txing = s.txing
    BY <1>1, <1>2 DEF SetTimeout, ClearTimeout, Tcp, SameEvents
  <2> QED
    BY <2>1, SoundSame
<1> QED
  BY <1>2 DEF SetInactivityTimeout

\* set_connected() in the clear, set_secure_connected(): told "down", and now
\* "up"; nothing connects or accepts any more.
LEMMA EstablishedSound ==
  ASSUME conf \in Models, NEW s \in Tcp, NEW ok, RingInd(s), Told(s),
         s.told = "down", s.yev["open"] # "RUNNING"
  PROVE  Sound(Established(s, ok))
<1> DEFINE up == Tell([s EXCEPT !.state = "CONNECTED", !.inform = TRUE], "up")
<1>1. /\ up \in Tcp /\ SameEvents(up, s) /\ up.state = "CONNECTED"
      /\ up.told = "up" /\ up.inform /\ ~up.disorder
  BY DEF Tell, Told, Tcp, States, SameEvents
<1> HIDE DEF up
<1>2. RingInd(up) /\ PhaseInd(up)
  BY <1>1, RingSame DEF PhaseInd, Told, SameEvents
<1>3. Sound(StartPending(up, ok))
  BY <1>1, <1>2, MoreWritesSound DEF Sound
<1> QED
  BY <1>3, TimersSound DEF Established, up

LEMMA ReadingDoes ==
  ASSUME NEW s \in Tcp, RingInd(s), Places(s.cq, "read") = {},
         s.yev["read"] \in {"none", "STOPPED"}
  PROVE  LET r == Reading(s)
         IN  /\ r \in Tcp /\ RingInd(r)
             /\ r.yev["read"] = "RUNNING" /\ r.yev["open"] = s.yev["open"]
             /\ r.state = s.state /\ r.told = s.told /\ r.inform = s.inform
             /\ r.disorder = s.disorder /\ r.writes = s.writes
             /\ r.txing = s.txing /\ r.queue = s.queue /\ ~r.timer /\ ~r.msec
             /\ r.running = s.running /\ r.idleClosed = s.idleClosed
<1> DEFINE read == IF s.yev["read"] = "none" THEN "IDLE" ELSE s.yev["read"]
           new == [ClearTimeout(s) EXCEPT !.yev["read"] = read,
                                          !.everConnected = TRUE]
           r == Reading(s)
<1>1. [s.yev EXCEPT !["read"] = read] \in [Events -> YevStates]
  BY DEF Tcp, YevStates, Events
<1>2. /\ new \in Tcp
      /\ new.yev = [s.yev EXCEPT !["read"] = read]
      /\ new.armed = s.armed /\ new.cq = s.cq
      /\ new.state = s.state /\ new.told = s.told /\ new.inform = s.inform
      /\ new.disorder = s.disorder /\ new.writes = s.writes
      /\ new.txing = s.txing /\ new.queue = s.queue
      /\ ~new.timer /\ ~new.msec
      /\ new.running = s.running /\ new.idleClosed = s.idleClosed
  BY <1>1 DEF ClearTimeout, Tcp
<1> HIDE DEF new
<1>3. "read" \notin s.armed /\ read # "RUNNING"
  BY DEF RingInd, OneEach, Events
<1>4. /\ new.yev["read"] = read /\ read \in {"IDLE", "STOPPED"}
      /\ new.yev["open"] = s.yev["open"]
  BY <1>2 DEF Tcp, Events
<1> HIDE DEF read
<1>5. RingInd(new)
  BY <1>2, <1>3, RingChanges DEF Events
<1>6. r = YevStart(new, "read")
  BY DEF Reading, new, read
<1> HIDE DEF r
<1>7. RingInd(r) /\ r \in Tcp /\ SameButEvents(r, new)
  <2>1. new \in Tcp /\ "read" \in Events /\ "open" \in Events
    BY <1>2 DEF Events
  <2>2. r \in Tcp /\ SameButEvents(r, new)
    BY ONLY <1>6, <2>1, StartDoes
  <2>3. RingInd(r)
    BY <1>2, <1>5, <1>6, RingStarts DEF Events
  <2> QED
    BY ONLY <2>2, <2>3
<1>8. r.yev["read"] = "RUNNING" /\ r.yev["open"] = s.yev["open"]
  BY <1>2, <1>4, <1>6, StartTouches DEF Events
<1> QED
  BY <1>2, <1>7, <1>8 DEF SameButEvents, r

\* set_connected(), from the completion of a connect or an accept
LEMMA SetConnectedSound ==
  ASSUME conf \in Models, NEW s, Sound(s), NEW ok \in BOOLEAN,
         s.state \in {"DISCONNECTED", "STOPPED", "WAIT_CONNECTED"},
         s.yev["open"] = "IDLE", Places(s.cq, "read") = {}
  PROVE  Sound(SetConnected(s, ok))
<1>1. s \in Tcp /\ RingInd(s) /\ Told(s) /\ Quiet(s)
  BY DEF Sound, PhaseInd
<1>2. s.yev["read"] \in {"none", "STOPPED"}
  BY <1>1 DEF Quiet, YevStopped
<1> DEFINE t == Reading(s)
<1>3. /\ t \in Tcp /\ RingInd(t)
      /\ t.yev["read"] = "RUNNING" /\ t.yev["open"] = "IDLE"
      /\ t.told = "down" /\ t.inform = s.inform /\ t.disorder = s.disorder
      /\ ~t.txing
  BY <1>1, <1>2, ReadingDoes DEF Quiet
<1>4. Told(t) /\ ~t.inform /\ ~t.disorder
  <2>1. ~s.inform /\ ~s.disorder
    BY <1>1 DEF Told, Quiet
  <2> HIDE DEF t
  <2> QED
    BY <1>3, <2>1 DEF Told
<1>5. CASE ~conf.tls
  BY <1>3, <1>4, <1>5, EstablishedSound, SetConnectedIs
<1>6. CASE conf.tls
  <2> DEFINE h == Hello(s)
             f == [h EXCEPT !.writes = s.writes]
  <2>1. h \in Tcp
    BY <1>1, ReadingTypes
  <2>2. /\ SameEvents(h, t) /\ h.state = "WAIT_HANDSHAKE"
        /\ h.told = "down" /\ ~h.inform /\ ~h.disorder /\ ~h.txing
    <3> HIDE DEF t
    <3>1. h = [t EXCEPT !.state = "WAIT_HANDSHAKE", !.inform = FALSE,
                        !.writes = IF conf.clisrv THEN @ ELSE @ + 1]
      BY DEF Hello, t
    <3> HIDE DEF h
    <3> QED
      BY <1>3, <1>4, <3>1 DEF Tcp, SameEvents
  <2> HIDE DEF h, t
  <2>3. RingInd(h) /\ Told(h)
    BY <1>3, <2>2, RingSame DEF Told
  <2>4. PhaseInd(h)
    BY <1>3, <2>2, <2>3 DEF PhaseInd, SameEvents
  <2>5. CASE ok
    BY <1>6, <2>1, <2>3, <2>4, <2>5, SetConnectedIs DEF Sound, h
  <2>6. CASE ~ok
    <3>1. /\ f \in Tcp /\ SameEvents(f, h) /\ f.state = "WAIT_HANDSHAKE"
          /\ f.told = h.told /\ f.inform = h.inform
          /\ f.disorder = h.disorder
      BY <1>1, <2>1, <2>2 DEF Tcp, SameEvents
    <3> HIDE DEF f
    <3>2. Stoppable(f)
      BY <2>3, <3>1, RingSame DEF Stoppable, Told
    <3>3. SetConnected(s, ok) = TryToStop(f)
      BY <1>6, <2>6, SetConnectedIs DEF f, h
    <3> QED
      BY <3>2, <3>3, TryToStopSound
  <2> QED
    BY <2>5, <2>6
<1> QED
  BY <1>5, <1>6
\* ac_connect(), when nothing of a former connect is left in the ring
LEMMA ConnectSound ==
  ASSUME conf \in Models, ~conf.clisrv, NEW s, Sound(s), NEW ok,
         s.state = "DISCONNECTED", Places(s.cq, "open") = {}
  PROVE  Sound(Connect(s, ok))
<1> DEFINE t == [s EXCEPT !.state = "WAIT_CONNECTED"]
<1>1. /\ t \in Tcp /\ SameEvents(t, s) /\ t.state = "WAIT_CONNECTED"
      /\ t.told = s.told /\ t.inform = s.inform /\ t.disorder = s.disorder
      /\ t.writes = s.writes /\ t.txing = s.txing
  BY DEF Sound, Tcp, States, SameEvents
<1>2. Connect(s, ok) =
        IF ok /\ s.yev["open"] \in {"IDLE", "STOPPED"} THEN YevStart(t, "open")
        ELSE TryToStop(t)
  BY DEF Connect
<1> HIDE DEF t
<1>3. RingInd(t) /\ Told(t) /\ Quiet(t)
  BY <1>1, RingSame
     DEF Sound, PhaseInd, Told, Quiet, YevStopped, SameEvents
<1>4. Sound(YevStart(t, "open"))
  <2> DEFINE r == YevStart(t, "open")
  <2>1. r \in Tcp /\ SameButEvents(r, t) /\ RingInd(r)
    BY <1>1, <1>3, StartDoes, RingStarts DEF Events, SameEvents
  <2>2. r.yev["read"] = t.yev["read"]
    BY <1>1, StartTouches DEF Events
  <2> HIDE DEF r
  <2>3. PhaseInd(r)
    BY <1>1, <1>3, <2>1, <2>2
       DEF PhaseInd, Told, Quiet, YevStopped, SameButEvents
  <2> QED
    BY <2>1, <2>3 DEF Sound, r
<1>5. Sound(TryToStop(t))
  BY <1>1, <1>3, TryToStopSound DEF Stoppable
<1> QED
  BY <1>2, <1>4, <1>5

\* A read that starts again in the callback, unless it was stopped under it
LEMMA RearmSound ==
  ASSUME NEW s, Sound(s)
  PROVE  Sound(Rearm(s))
<1>1. CASE s.yev["read"] = "IDLE"
  <2> DEFINE r == YevStart(s, "read")
  <2>1. s \in Tcp /\ RingInd(s) /\ PhaseInd(s) /\ Places(s.cq, "read") = {}
    BY <1>1 DEF Sound, RingInd, OneEach, Events
  <2>2. r \in Tcp /\ RingInd(r) /\ SameButEvents(r, s)
    BY <2>1, StartDoes, RingStarts DEF Events
  <2>3. r.yev["open"] = s.yev["open"]
    BY <2>1, StartTouches DEF Events
  <2> HIDE DEF r
  <2>4. PhaseInd(r)
    BY <1>1, <2>1, <2>2, <2>3 DEF PhaseInd, Told, Quiet, SameButEvents
  <2> QED
    BY <1>1, <2>2, <2>4 DEF Rearm, Sound, r
<1>2. CASE s.yev["read"] # "IDLE"
  BY <1>2 DEF Rearm
<1> QED
  BY <1>1, <1>2

\* EV_RX_DATA goes up in ST_CONNECTED: it was announced.
LEMMA ReceiveSound ==
  ASSUME NEW s, Sound(s), s.state = "CONNECTED"
  PROVE  Sound(Receive(s)) /\ Receive(s).state = "CONNECTED"
<1> DEFINE r == Receive(s)
<1>1. s \in Tcp /\ s.told = "up" /\ ~s.disorder
  BY DEF Sound, PhaseInd, Told
<1>2. /\ r \in Tcp /\ SameEvents(r, s) /\ r.state = "CONNECTED"
      /\ r.told = s.told /\ r.inform = s.inform /\ r.disorder = s.disorder
  BY <1>1 DEF Receive, Tcp, SameEvents
<1> HIDE DEF r
<1> QED
  BY <1>2, ConnectedSame DEF r

\* callback_cqe() leaves a sound record.
LEMMA TakenSound ==
  ASSUME NEW s, Sound(s), s.cq # <<>>
  PROVE  LET c == Head(s.cq)
             r == Taken(s)
         IN  /\ Sound(r) /\ c \in Done
             /\ r.state = s.state /\ r.told = s.told
             /\ s.yev[c.ev] = "RUNNING" /\ c.ev = "open" =>
                  /\ s.state \in {"DISCONNECTED", "STOPPED", "WAIT_CONNECTED"}
                  /\ Places(r.cq, "read") = {}
             /\ r.yev[c.ev] = "IDLE" /\ CallsBack(s.yev[c.ev], c.res) =>
                  s.yev[c.ev] = "RUNNING"
<1> DEFINE c == Head(s.cq)
           r == Taken(s)
<1>1. s \in Tcp /\ RingInd(s) /\ PhaseInd(s)
  BY DEF Sound
<1>2. r \in Tcp /\ c \in Done /\ c.ev \in Events
  BY <1>1, TakenTypes DEF Done
<1>3. /\ RingInd(r) /\ SameButEvents(r, s)
      /\ r.yev[c.ev] = Reaped(s.yev[c.ev], c.ev, c.res)
      /\ \A f \in Events \ {c.ev} : r.yev[f] = s.yev[f]
      /\ s.yev[c.ev] = "RUNNING" /\ c.ev = "open" => Places(r.cq, "read") = {}
  BY <1>1, RingTaken
<1> HIDE DEF c, r
<1>4. \A e \in Events :
        /\ r.yev[e] = "RUNNING" => s.yev[e] = "RUNNING"
        /\ r.yev[e] = "IDLE" => s.yev[e] \in {"RUNNING", "IDLE"}
        /\ YevStopped(s, e) => YevStopped(r, e)
  <2> TAKE e \in Events
  <2>1. CASE e = c.ev
    BY <1>3, <2>1 DEF Reaped, YevStopped
  <2>2. CASE e # c.ev
    BY <1>3, <2>2 DEF YevStopped
  <2> QED
    BY <2>1, <2>2
<1>5. PhaseInd(r)
  BY <1>1, <1>3, <1>4 DEF PhaseInd, Told, Quiet, SameButEvents, Events
<1>6. s.yev[c.ev] = "RUNNING" /\ c.ev = "open" =>
        s.state \in {"DISCONNECTED", "STOPPED", "WAIT_CONNECTED"}
  BY <1>1 DEF PhaseInd
<1>7. r.yev[c.ev] = "IDLE" /\ CallsBack(s.yev[c.ev], c.res) =>
        s.yev[c.ev] = "RUNNING"
  BY <1>3 DEF Reaped, CallsBack
<1> QED
  BY <1>2, <1>3, <1>5, <1>6, <1>7 DEF Sound, SameButEvents, c, r
-----------------------------------------------------------------------------
(* The handlers. *)

LEMMA NoneOldMeans ==
  ASSUME NoneOldInRing
  PROVE  Places(tcp.cq, "open") = {}
BY DEF NoneOldInRing, Places

LEMMA OpenCallbackSound ==
  ASSUME conf \in Models, Sound(tcp), tcp.cq # <<>>, Head(tcp.cq).ev = "open",
         CallsBack(tcp.yev["open"], Head(tcp.cq).res),
         OpenCallback(Taken(tcp))
  PROVE  Sound(tcp')
<1> DEFINE s == Taken(tcp)
<1>1. /\ Sound(s) /\ s.state = tcp.state
      /\ s.yev["open"] = "IDLE" =>
           /\ s.state \in {"DISCONNECTED", "STOPPED", "WAIT_CONNECTED"}
           /\ Places(s.cq, "read") = {}
  BY TakenSound
<1> HIDE DEF s
<1>2. CASE s.yev["open"] = "IDLE"
  BY <1>1, <1>2, SetConnectedSound DEF OpenCallback, s
<1>3. CASE s.yev["open"] # "IDLE"
  BY <1>1, <1>3, SoundIsStoppable, TryToStopSound DEF OpenCallback, s
<1> QED
  BY <1>2, <1>3

LEMMA ReadCallbackSound ==
  ASSUME conf \in Models, NEW s, Sound(s), ReadCallback(s)
  PROVE  Sound(tcp')
<1> DEFINE t == SetInactivityTimeout(s)
<1>1. Sound(t)
  BY TimersSound
<1>2. CASE s.yev["read"] # "IDLE"
  BY <1>2, SoundIsStoppable, TryToStopSound DEF ReadCallback
<1>3. CASE s.yev["read"] = "IDLE"
  <2>1. /\ t.state = s.state /\ SameEvents(t, s) /\ t.told = s.told
        /\ t.inform = s.inform /\ t.disorder = s.disorder
        /\ t.txing = s.txing
    BY DEF Sound, Tcp, SetInactivityTimeout, SetTimeout, SameEvents
  <2>2. /\ t \in Tcp /\ RingInd(t) /\ Told(t) /\ PhaseInd(t)
        /\ t.yev["read"] = "IDLE"
        /\ s.state \in {"WAIT_HANDSHAKE", "CONNECTED"}
    BY <1>1, <1>3, <2>1 DEF Sound, PhaseInd, SameEvents
  <2> HIDE DEF t
  <2>3. CASE s.state = "WAIT_HANDSHAKE"
    <3>1. t.told = "down" /\ t.yev["open"] # "RUNNING"
      BY <2>1, <2>2, <2>3 DEF PhaseInd
    <3>2. \A ok : Sound(Rearm(Established(t, ok)))
      BY <2>2, <3>1, EstablishedSound, RearmSound
    <3>3. ASSUME NEW n \in 0..1
          PROVE  Sound(Rearm([t EXCEPT !.writes = @ + n]))
      <4> DEFINE u == [t EXCEPT !.writes = @ + n]
      <4>1. t.writes + n \in Nat
        BY <2>2 DEF Tcp
      <4>2. /\ u \in Tcp /\ SameEvents(u, t) /\ u.state = t.state
            /\ u.told = t.told /\ u.inform = t.inform
            /\ u.disorder = t.disorder /\ u.txing = t.txing
        BY <2>2, <4>1 DEF Tcp, SameEvents
      <4> HIDE DEF u
      <4>3. RingInd(u) /\ PhaseInd(u)
        BY <2>1, <2>2, <2>3, <4>2, RingSame DEF PhaseInd, Told, SameEvents
      <4>4. Sound(Rearm(u))
        BY <4>2, <4>3, RearmSound DEF Sound
      <4> QED
        BY <4>4 DEF u
    <3>4. Sound(TryToStop(t))
      BY <1>1, SoundIsStoppable, TryToStopSound
    <3> QED
      BY <1>3, <2>3, <3>2, <3>3, <3>4 DEF ReadCallback, t
  <2>4. CASE s.state = "CONNECTED"
    <3>1. Sound(Receive(t)) /\ Sound(Rearm(Receive(t)))
      BY <1>1, <2>1, <2>4, ReceiveSound, RearmSound
    <3>2. Sound(Rearm(TryToStop(Receive(t)))) /\ Sound(TryToStop(t))
      BY <1>1, <3>1, SoundIsStoppable, TryToStopSound, RearmSound
    <3> QED
      BY <1>3, <2>4, <3>1, <3>2 DEF ReadCallback, t
  <2> QED
    BY <2>2, <2>3, <2>4
<1> QED
  BY <1>2, <1>3

LEMMA ReapSound ==
  ASSUME conf \in Models, Sound(tcp), Reap
  PROVE  Sound(tcp')
<1>1. tcp.cq # <<>> /\ Sound(Taken(tcp))
  BY ReapIs, TakenSound
<1> QED
  BY <1>1, ReapIs, OpenCallbackSound, ReadCallbackSound

\* gobj_start(): the only record that starts an event that may have run.
LEMMA MtStartSound ==
  ASSUME conf \in Models, Sound(tcp), MtStart
  PROVE  Sound(tcp')
<1> DEFINE s == [tcp EXCEPT !.running = TRUE]
           new == [s EXCEPT !.yev["open"] = "IDLE"]
           client == [new EXCEPT !.state = "DISCONNECTED", !.timer = s.msec]
           refused == \/ s.state \notin {"STOPPED", "DISCONNECTED"}
                      \/ ~conf.clisrv /\ s.yev["open"] # "none"
<1>1. s \in Tcp /\ SameEvents(s, tcp) /\ s.state = tcp.state
      /\ s.told = tcp.told /\ s.inform = tcp.inform
      /\ s.disorder = tcp.disorder /\ s.writes = tcp.writes
      /\ s.txing = tcp.txing
  BY DEF Sound, Tcp, SameEvents
<1> HIDE DEF s
<1>2. Sound(s)
  BY <1>1, SoundSame
<1>3. CASE refused
  BY <1>2, <1>3 DEF MtStart, s
<1>4. CASE ~refused
  <2>1. /\ Places(s.cq, "open") = {}
        /\ s.state \in {"STOPPED", "DISCONNECTED"}
        /\ s \in Tcp /\ RingInd(s) /\ PhaseInd(s) /\ Quiet(s)
    <3>1. s.state \in {"STOPPED", "DISCONNECTED"}
      BY <1>4
    <3>2. NoneOldInRing
      BY <1>4 DEF MtStart, s
    <3> QED
      BY <1>1, <1>2, <3>1, <3>2, NoneOldMeans
         DEF Sound, PhaseInd, SameEvents
  <2>2. /\ new \in Tcp
        /\ new.yev = [s.yev EXCEPT !["open"] = "IDLE"]
        /\ new.armed = s.armed /\ new.cq = s.cq
        /\ new.state = s.state /\ new.told = s.told
        /\ new.inform = s.inform /\ new.disorder = s.disorder
        /\ new.writes = s.writes /\ new.txing = s.txing
    <3>1. [s.yev EXCEPT !["open"] = "IDLE"] \in [Events -> YevStates]
      BY <1>1 DEF Tcp, YevStates, Events
    <3> QED
      BY <1>1, <3>1 DEF Tcp
  <2>3. /\ new.yev["open"] = "IDLE" /\ new.yev["read"] = s.yev["read"]
    BY <1>1, <2>2 DEF Tcp, Events
  <2> HIDE DEF new
  <2>4. CASE conf.clisrv
    <3> DEFINE r == YevStart(new, "open")
    <3>1. /\ r.yev = [new.yev EXCEPT !["open"] = "RUNNING"]
          /\ r.armed = new.armed \cup {"open"} /\ r.cq = new.cq
          /\ r \in Tcp /\ SameButEvents(r, new)
      BY <2>2, <2>3, StartDoes DEF Events
    <3>y. new.yev \in [Events -> YevStates]
      BY ONLY <2>2 DEF Tcp
    <3> HIDE DEF r
    <3>2. r.yev["open"] = "RUNNING" /\ r.yev["read"] = s.yev["read"]
      <4>1. r.yev = [new.yev EXCEPT !["open"] = "RUNNING"]
        BY ONLY <3>1
      <4>2. "open" \in Events /\ "read" \in Events /\ "read" # "open"
        BY DEF Events
      <4>3. r.yev["open"] = "RUNNING" /\ r.yev["read"] = new.yev["read"]
        BY ONLY <3>y, <4>1, <4>2
      <4> QED
        BY ONLY <2>3, <4>3
    <3>3. tcp' = r
      BY <1>4, <2>4 DEF MtStart, s, new, r
    <3>4. \A f \in Events : OneEach(r, f)
      <4>1. OneEach(r, "open")
        BY <2>1, <2>2, <3>1, <3>2 DEF OneEach
      <4>2. OneEach(r, "read")
        BY <2>1, <2>2, <3>1, <3>2 DEF RingInd, OneEach, Events
      <4> QED
        BY <4>1, <4>2 DEF Events
    <3>5. ReadsFirst(r) /\ AcceptEnds(r)
      BY <2>1, <2>2, <3>1 DEF ReadsFirst, AcceptEnds
    <3>6. PhaseInd(r)
      BY <2>1, <2>2, <2>4, <3>1, <3>2
         DEF PhaseInd, Told, Quiet, YevStopped, SameButEvents
    <3> QED
      BY <3>1, <3>3, <3>4, <3>5, <3>6 DEF Sound, RingInd
  <2>5. CASE ~conf.clisrv
    <3>1. s.yev["open"] = "none"
      BY <1>4, <2>5
    <3>2. "open" \notin s.armed
      BY <2>1, <3>1 DEF RingInd, OneEach, Events
    <3>3. RingInd(new)
      BY <2>1, <2>2, <3>2, RingChanges DEF Events
    <3>4. /\ client \in Tcp /\ SameEvents(client, new)
          /\ client.state = "DISCONNECTED" /\ client.told = new.told
          /\ client.inform = new.inform /\ client.disorder = new.disorder
          /\ client.writes = new.writes /\ client.txing = new.txing
      BY <1>1, <2>2 DEF Tcp, States, SameEvents
    <3> HIDE DEF client
    <3>5. RingInd(client)
      BY <3>3, <3>4, RingSame
    <3>6. PhaseInd(client)
      BY <2>1, <2>2, <2>3, <3>4
         DEF PhaseInd, Told, Quiet, YevStopped, SameEvents
    <3>7. Sound(client) /\ Places(client.cq, "open") = {}
      BY <2>1, <2>2, <3>4, <3>5, <3>6 DEF Sound, SameEvents
    <3>8. \/ tcp' = client \/ \E ok \in BOOLEAN : tcp' = Connect(client, ok)
      BY <1>4, <2>5 DEF MtStart, client, new, s
    <3> QED
      BY <2>5, <3>4, <3>7, <3>8, ConnectSound
  <2> QED
    BY <2>4, <2>5
<1> QED
  BY <1>3, <1>4
LEMMA MtStopSound ==
  ASSUME conf \in Models, Sound(tcp), MtStop
  PROVE  Sound(tcp')
<1> DEFINE u == [tcp EXCEPT !.running = FALSE, !.timer = FALSE]
           r == TryToStop(u)
<1>1. /\ u \in Tcp /\ SameEvents(u, tcp) /\ u.state = tcp.state
      /\ u.told = tcp.told /\ u.inform = tcp.inform
      /\ u.disorder = tcp.disorder /\ u.writes = tcp.writes
      /\ u.txing = tcp.txing
  BY DEF Sound, Tcp, SameEvents
<1>2. tcp' = [r EXCEPT !.txing = FALSE, !.queue = 0]
  BY DEF MtStop
<1> HIDE DEF u
<1>3. Sound(u)
  BY <1>1, SoundSame
<1>4. /\ Sound(r)
      /\ r.state \in {"STOPPED", "DISCONNECTED", "WAIT_STOPPED"}
  BY <1>3, SoundIsStoppable, TryToStopSound
<1> HIDE DEF r
<1>5. /\ tcp' \in Tcp /\ SameEvents(tcp', r) /\ tcp'.state = r.state
      /\ tcp'.told = r.told /\ tcp'.inform = r.inform
      /\ tcp'.disorder = r.disorder /\ tcp'.writes = r.writes /\ ~tcp'.txing
  BY <1>2, <1>4 DEF Sound, Tcp, SameEvents
<1>6. RingInd(tcp')
  BY <1>4, <1>5, RingSame DEF Sound
<1>7. PhaseInd(tcp')
  BY <1>4, <1>5
     DEF Sound, PhaseInd, Told, Quiet, YevStopped, SameEvents
<1> QED
  BY <1>5, <1>6, <1>7 DEF Sound

LEMMA EnqueueSound ==
  ASSUME NEW s, Sound(s)
  PROVE  Sound(Enqueue(s)) /\ Enqueue(s).state = s.state
                           /\ Enqueue(s).cq = s.cq
<1>1. s \in Tcp /\ Enqueue(s) \in Tcp
  BY EnqueueTypes DEF Sound
<1> DEFINE r == Enqueue(s)
<1>2. /\ SameEvents(r, s)
      /\ r.state = s.state /\ r.told = s.told /\ r.inform = s.inform
      /\ r.disorder = s.disorder /\ r.writes = s.writes /\ r.txing = s.txing
  BY <1>1 DEF Enqueue, Tcp, SameEvents
<1> HIDE DEF r
<1>3. Sound(r)
  BY <1>1, <1>2, SoundSame DEF r
<1> QED
  BY <1>2, <1>3 DEF r, SameEvents

LEMMA FromAboveSound ==
  ASSUME conf \in Models, Sound(tcp), FromAbove
  PROVE  Sound(tcp')
<1>1. CASE SendDisconnected
  <2>1. CASE conf.idle
    <3> DEFINE t == ClearTimeout(Enqueue(tcp))
    <3>1. /\ Sound(Enqueue(tcp)) /\ Enqueue(tcp).state = tcp.state
          /\ Enqueue(tcp).cq = tcp.cq
      BY EnqueueSound
    <3>2. Sound(t)
      BY <3>1, TimersSound
    <3>3. t.state = "DISCONNECTED" /\ t.cq = tcp.cq
      BY <1>1, <3>1 DEF SendDisconnected, ClearTimeout, Sound, Tcp
    <3>4. Places(t.cq, "open") = {} /\ ~conf.clisrv
      BY <1>1, <2>1, <3>3, NoneOldMeans, ConfTypes DEF SendDisconnected
    <3>5. \E ok \in BOOLEAN : tcp' = Connect(t, ok)
      BY <1>1, <2>1 DEF SendDisconnected
    <3> HIDE DEF t
    <3> QED
      BY <3>2, <3>3, <3>4, <3>5, ConnectSound
  <2>2. CASE ~conf.idle
    BY <1>1, <2>2 DEF SendDisconnected
  <2> QED
    BY <2>1, <2>2
<1>2. CASE SendQueued
  BY <1>2, EnqueueSound DEF SendQueued
<1>3. CASE SendConnected
  <2> DEFINE t == [tcp EXCEPT !.txing = TRUE]
  <2>1. /\ t \in Tcp /\ SameEvents(t, tcp) /\ t.state = "CONNECTED"
        /\ t.told = tcp.told /\ t.inform = tcp.inform
        /\ t.disorder = tcp.disorder
        /\ tcp.state = "CONNECTED"
    BY <1>3 DEF SendConnected, Sound, Tcp, SameEvents
  <2>2. tcp' = Enqueue(tcp) \/ \E ok \in BOOLEAN : tcp' = WriteData(t, ok)
    BY <1>3 DEF SendConnected
  <2> HIDE DEF t
  <2>3. Sound(t)
    BY <2>1, ConnectedSame
  <2> QED
    BY <2>1, <2>2, <2>3, EnqueueSound, WriteDataSound
<1>4. CASE ConnectNow
  BY <1>4, NoneOldMeans, ConnectSound DEF ConnectNow
<1> QED
  BY <1>1, <1>2, <1>3, <1>4 DEF FromAbove

\* In ST_DISCONNECTED the timer is a client's: a channel has none.
LEMMA TimeoutSound ==
  ASSUME conf \in Models, Sound(tcp), conf.clisrv => ~tcp.timer, Timeout
  PROVE  Sound(tcp')
<1> DEFINE s == [tcp EXCEPT !.timer = FALSE]
           t == [s EXCEPT !.idleClosed = TRUE]
<1>1. /\ s \in Tcp /\ SameEvents(s, tcp) /\ s.state = tcp.state
      /\ s.told = tcp.told /\ s.inform = tcp.inform
      /\ s.disorder = tcp.disorder /\ s.writes = tcp.writes
      /\ s.txing = tcp.txing
  BY DEF Sound, Tcp, SameEvents
<1>2. /\ t \in Tcp /\ SameEvents(t, tcp) /\ t.state = tcp.state
      /\ t.told = tcp.told /\ t.inform = tcp.inform
      /\ t.disorder = tcp.disorder /\ t.writes = tcp.writes
      /\ t.txing = tcp.txing
  BY DEF Sound, Tcp, SameEvents
<1>3. /\ ~conf.clisrv
      /\ \/ /\ tcp.state = "DISCONNECTED" /\ NoneOldInRing
            /\ \E ok \in BOOLEAN : tcp' = Connect(s, ok)
         \/ tcp' = TryToStop(t)
         \/ tcp' = s
  BY DEF Timeout
<1> HIDE DEF s, t
<1>4. Sound(s) /\ Sound(t)
  BY <1>1, <1>2, SoundSame
<1>5. NoneOldInRing => Places(s.cq, "open") = {}
  BY <1>1, NoneOldMeans DEF SameEvents
<1> QED
  BY <1>1, <1>3, <1>4, <1>5, ConnectSound, SoundIsStoppable, TryToStopSound

LEMMA CompletesSound ==
  ASSUME conf \in Models, Sound(tcp), ~AcceptMayFail \/ TRUE \notin Channels,
         NEW e \in Events, NEW res \in Results, Completes(e, res)
  PROVE  Sound(tcp')
<1> DEFINE r == [tcp EXCEPT !.armed = @ \ {e},
                            !.cq = Append(@, [ev |-> e, res |-> res])]
<1>1. tcp' = r /\ e \in tcp.armed
  BY DEF Completes
<1>2. e = "open" /\ conf.clisrv => res # "error"
  BY ConfTypes DEF Completes
<1>3. tcp \in Tcp /\ tcp' \in Tcp /\ RingInd(tcp)
  BY CompletesTypes DEF Sound
<1>4. /\ r.yev = tcp.yev /\ r.armed = tcp.armed \ {e}
      /\ r.cq = Append(tcp.cq, [ev |-> e, res |-> res])
      /\ r.state = tcp.state /\ r.told = tcp.told
      /\ r.inform = tcp.inform /\ r.disorder = tcp.disorder
      /\ r.writes = tcp.writes /\ r.txing = tcp.txing
  BY <1>3 DEF Tcp
<1> HIDE DEF r
<1>5. e = "read" => tcp.yev["open"] # "RUNNING"
  BY <1>1, ConfTypes DEF Sound, RingInd, OneEach, PhaseInd, Events
<1>6. RingInd(r)
  BY <1>1, <1>2, <1>3, <1>4, <1>5, RingCompletes
<1>7. PhaseInd(r)
  BY <1>4 DEF Sound, PhaseInd, Told, Quiet, YevStopped
<1> QED
  BY <1>1, <1>3, <1>6, <1>7 DEF Sound

LEMMA WriteEndsSound ==
  ASSUME conf \in Models, Sound(tcp), WriteDone \/ WriteFails
  PROVE  Sound(tcp')
<1> DEFINE s == [tcp EXCEPT !.writes = @ - 1]
           t == SetInactivityTimeout(s)
<1>1. tcp.writes \in Nat \ {0} /\ tcp.writes - 1 \in Nat
  BY DEF WriteDone, WriteFails, Sound, Tcp
<1>2. /\ s \in Tcp /\ SameEvents(s, tcp) /\ s.state = tcp.state
      /\ s.told = tcp.told /\ s.inform = tcp.inform
      /\ s.disorder = tcp.disorder /\ s.txing = tcp.txing
  BY <1>1 DEF Sound, Tcp, SameEvents
<1>3. /\ \/ tcp' = TryToStop(s) \/ tcp' = TryToStop(t) \/ tcp' = t
         \/ /\ tcp.state = "CONNECTED"
            /\ \E ok \in BOOLEAN : tcp' = TryMoreWrites(t, ok)
  BY <1>2 DEF WriteDone, WriteFails
<1> HIDE DEF s
<1>4. Sound(s)
  <2>1. RingInd(s)
    BY <1>2, RingSame DEF Sound
  <2>2. PhaseInd(s)
    BY <1>1, <1>2 DEF Sound, PhaseInd, Told, Quiet, SameEvents
  <2> QED
    BY <1>2, <2>1, <2>2 DEF Sound
<1>5. Sound(t) /\ t.state = tcp.state
  BY <1>2, <1>4, TimersSound DEF SetInactivityTimeout, SetTimeout, Tcp
<1> HIDE DEF t
<1> QED
  BY <1>3, <1>4, <1>5, SoundIsStoppable, TryToStopSound, MoreWritesSound

-----------------------------------------------------------------------------
(* A channel has no timer: only a client retries or heeds inactivity. *)

Untimed(s) == conf.clisrv => ~s.timer

LEMMA EventsUntimed ==
  ASSUME NEW s \in Tcp, Untimed(s), NEW e \in Events
  PROVE  Untimed(YevStart(s, e)) /\ Untimed(YevStop(s, e))
<1>1. SameButEvents(YevStart(s, e), s) /\ SameButEvents(YevStop(s, e), s)
  BY StartDoes, StopDoes
<1> QED
  BY <1>1 DEF Untimed, SameButEvents

LEMMA TryToStopUntimed ==
  ASSUME conf \in Models, NEW s \in Tcp, Untimed(s)
  PROVE  Untimed(TryToStop(s))
<1> SUFFICES ASSUME conf.clisrv, ~s.timer
             PROVE  ~TryToStop(s).timer
  BY DEF Untimed
<1> DEFINE t == YevStop(YevStop(s, "open"), "read")
           u == [t EXCEPT !.state = "STOPPED"]
<1>1. t \in Tcp /\ ~t.timer
  <2>1. {"open", "read"} \subseteq Events
    BY DEF Events
  <2>2. YevStop(s, "open") \in Tcp /\ t \in Tcp
    BY <2>1, StopDoes
  <2>3. Untimed(t)
    BY <2>1, <2>2, EventsUntimed
  <2> QED
    BY <2>2, <2>3 DEF Untimed
<1> HIDE DEF t
<1>2. /\ u \in Tcp /\ ~u.timer
      /\ ~[t EXCEPT !.state = "WAIT_STOPPED"].timer
      /\ ~[t EXCEPT !.state = IF s.running THEN @ ELSE "STOPPED"].timer
  BY <1>1 DEF Tcp, States
<1> HIDE DEF u
<1>3. ~SetDisconnected(u).timer
  <2> DEFINE told == IF Informs(u) THEN Tell(u, "down") ELSE u
             v == [told EXCEPT !.inform = FALSE, !.txing = FALSE,
                               !.queue = IF KeepsQueue(u) THEN @ ELSE 0]
             again == [v EXCEPT !.state = "DISCONNECTED"]
  <2>1. told \in Tcp /\ ~told.timer
    BY <1>2 DEF Tell, Tcp
  <2>2. v \in Tcp /\ ~v.timer
    <3> HIDE DEF told
    <3> QED
      BY <2>1 DEF Tcp
  <2>3. again \in Tcp /\ ~again.timer
    <3> HIDE DEF v
    <3> QED
      BY <2>2 DEF Tcp, States
  <2>4. SetDisconnected(u) = v \/ SetDisconnected(u) = YevStart(again, "open")
    BY <1>2 DEF SetDisconnected, Tcp
  <2> HIDE DEF again, v
  <2>5. Untimed(YevStart(again, "open"))
    BY <2>3, EventsUntimed DEF Untimed, Events
  <2> QED
    BY <2>2, <2>4, <2>5 DEF Untimed
<1> QED
  BY <1>2, <1>3 DEF TryToStop, t, u

LEMMA WritesUntimed ==
  ASSUME conf \in Models, NEW s \in Tcp, NEW ok, Untimed(s)
  PROVE  /\ Untimed(WriteData(s, ok)) /\ Untimed(Enqueue(s))
         /\ Untimed(TryMoreWrites(s, ok)) /\ Untimed(StartPending(s, ok))
         /\ Untimed(SetInactivityTimeout(s))
<1>1. ASSUME NEW r \in Tcp, Untimed(r)
      PROVE  Untimed(WriteData(r, ok))
  <2>1. CASE ok
    BY <1>1, <2>1 DEF WriteData, Untimed, Tcp
  <2>2. CASE ~ok
    BY <1>1, <2>2, TryToStopUntimed DEF WriteData
  <2> QED
    BY <2>1, <2>2
<1>2. ASSUME NEW r \in Tcp, Untimed(r), r.queue # 0
      PROVE  Untimed(WriteNext(r, ok))
  <2> DEFINE u == [r EXCEPT !.txing = TRUE, !.queue = @ - 1]
  <2>1. r.queue - 1 \in Nat
    BY <1>2 DEF Tcp
  <2>2. u \in Tcp /\ Untimed(u)
    BY <1>2, <2>1 DEF Tcp, Untimed
  <2> HIDE DEF u
  <2> QED
    BY <1>1, <2>2 DEF WriteNext, u
<1>3. Untimed(Enqueue(s)) /\ Untimed([s EXCEPT !.txing = FALSE])
  BY DEF Enqueue, Untimed, Tcp
<1>4. Untimed(SetInactivityTimeout(s))
  BY ConfTypes DEF SetInactivityTimeout, Untimed
<1>5. Untimed(TryMoreWrites(s, ok)) /\ Untimed(StartPending(s, ok))
  BY <1>2, <1>3 DEF TryMoreWrites, StartPending
<1> QED
  BY <1>1, <1>3, <1>4, <1>5

LEMMA EstablishedUntimed ==
  ASSUME conf \in Models, NEW s \in Tcp, NEW ok, Untimed(s)
  PROVE  Untimed(Established(s, ok))
<1> DEFINE up == Tell([s EXCEPT !.state = "CONNECTED", !.inform = TRUE], "up")
<1>1. up \in Tcp /\ Untimed(up)
  BY DEF Tell, Tcp, States, Untimed
<1> HIDE DEF up
<1>2. StartPending(up, ok) \in Tcp /\ Untimed(StartPending(up, ok))
  BY <1>1, StartPendingTypes, WritesUntimed
<1> QED
  BY <1>2, WritesUntimed DEF Established, up

LEMMA SetConnectedUntimed ==
  ASSUME conf \in Models, NEW s \in Tcp, NEW ok
  PROVE  Untimed(SetConnected(s, ok))
<1> DEFINE read == IF s.yev["read"] = "none" THEN "IDLE" ELSE s.yev["read"]
           new == [ClearTimeout(s) EXCEPT !.yev["read"] = read,
                                          !.everConnected = TRUE]
           t == Reading(s)
           h == Hello(s)
           f == [h EXCEPT !.writes = s.writes]
<1>1. [s.yev EXCEPT !["read"] = read] \in [Events -> YevStates]
  BY DEF Tcp, YevStates, Events
<1>2. new \in Tcp /\ ~new.timer
  BY <1>1 DEF ClearTimeout, Tcp
<1> HIDE DEF new
<1>3. t \in Tcp /\ Untimed(t)
  BY <1>2, ReadingTypes, EventsUntimed DEF Reading, new, Events, Untimed
<1>4. h = [t EXCEPT !.state = "WAIT_HANDSHAKE", !.inform = FALSE,
                    !.writes = IF conf.clisrv THEN @ ELSE @ + 1]
  BY DEF Hello
<1>5. h \in Tcp
  BY ReadingTypes
<1> HIDE DEF h, t
<1>6. Untimed(h)
  BY <1>3, <1>4 DEF Untimed, Tcp
<1>7. f \in Tcp /\ Untimed(f)
  BY <1>5, <1>6 DEF Untimed, Tcp
<1> HIDE DEF f
<1>8. Untimed(Established(t, ok)) /\ Untimed(TryToStop(f))
  BY <1>3, <1>7, EstablishedUntimed, TryToStopUntimed
<1> QED
  BY <1>6, <1>8, SetConnectedIs DEF f, h, t

LEMMA ReadUntimed ==
  ASSUME NEW s \in Tcp, Untimed(s)
  PROVE  Untimed(Receive(s)) /\ Untimed(Rearm(s))
<1>1. Untimed(Receive(s))
  BY DEF Receive, Untimed, Tcp
<1> QED
  BY <1>1, EventsUntimed DEF Rearm, Events

LEMMA ReapUntimed ==
  ASSUME conf \in Models, tcp \in Tcp, Untimed(tcp), Reap
  PROVE  Untimed(tcp')
<1> DEFINE s == Taken(tcp)
           t == SetInactivityTimeout(s)
<1>1. s \in Tcp
  BY ReapIs, TakenTypes
<1>2. Untimed(s)
  BY <1>1 DEF Taken, Untimed, Tcp
<1> HIDE DEF s
<1>3. t \in Tcp /\ Untimed(t)
  BY <1>1, <1>2, TimersTypes, WritesUntimed
<1> HIDE DEF t
<1>4. ASSUME NEW n \in 0..1
      PROVE  Untimed(Rearm([t EXCEPT !.writes = @ + n]))
  <2> DEFINE u == [t EXCEPT !.writes = @ + n]
  <2>1. t.writes + n \in Nat
    BY <1>3 DEF Tcp
  <2>2. u \in Tcp /\ Untimed(u)
    BY <1>3, <2>1 DEF Tcp, Untimed
  <2> QED
    BY <2>2, ReadUntimed
<1>5. CASE OpenCallback(s)
  BY <1>1, <1>2, <1>5, SetConnectedUntimed, TryToStopUntimed
     DEF OpenCallback
<1>6. CASE ReadCallback(s)
  <2>1. Untimed(TryToStop(s)) /\ Untimed(TryToStop(t))
    BY <1>1, <1>2, <1>3, TryToStopUntimed
  <2>2. \A ok : Untimed(Rearm(Established(t, ok)))
    BY <1>3, EstablishedTypes, EstablishedUntimed, ReadUntimed
  <2>3. Receive(t) \in Tcp /\ Untimed(Receive(t)) /\ Untimed(Rearm(Receive(t)))
    BY <1>3, ReceiveTypes, ReadUntimed
  <2>4. Untimed(Rearm(TryToStop(Receive(t))))
    BY <2>3, TryToStopTypes, TryToStopUntimed, ReadUntimed
  <2> QED
    BY <1>4, <1>6, <2>1, <2>2, <2>3, <2>4 DEF ReadCallback, t
<1> QED
  BY <1>2, <1>5, <1>6, ReapIs DEF s

LEMMA FromAboveUntimed ==
  ASSUME conf \in Models, tcp \in Tcp, Untimed(tcp), FromAbove
  PROVE  Untimed(tcp')
<1> DEFINE t == [tcp EXCEPT !.txing = TRUE]
<1>1. t \in Tcp /\ Untimed(t)
  BY DEF Tcp, Untimed
<1> HIDE DEF t
<1>2. \A ok : Untimed(WriteData(t, ok))
  BY <1>1, WritesUntimed
<1>3. Untimed(Enqueue(tcp))
  BY WritesUntimed
<1>4. conf.clisrv => ~conf.idle
  BY ConfTypes
<1>5. CASE SendDisconnected
  BY <1>4, <1>5 DEF SendDisconnected, Untimed
<1>6. CASE SendQueued
  BY <1>3, <1>6 DEF SendQueued
<1>7. CASE SendConnected
  BY <1>2, <1>3, <1>7 DEF SendConnected, t
<1>8. CASE ConnectNow
  BY <1>8 DEF ConnectNow, Untimed
<1> QED
  BY <1>5, <1>6, <1>7, <1>8 DEF FromAbove

LEMMA WriteEndsUntimed ==
  ASSUME conf \in Models, tcp \in Tcp, Untimed(tcp), WriteDone \/ WriteFails
  PROVE  Untimed(tcp')
<1> DEFINE s == [tcp EXCEPT !.writes = @ - 1]
           t == SetInactivityTimeout(s)
<1>1. tcp.writes - 1 \in Nat
  BY DEF WriteDone, WriteFails, Tcp
<1>2. s \in Tcp /\ Untimed(s)
  BY <1>1 DEF Tcp, Untimed
<1>3. /\ \/ tcp' = TryToStop(s) \/ tcp' = TryToStop(t) \/ tcp' = t
         \/ \E ok \in BOOLEAN : tcp' = TryMoreWrites(t, ok)
  BY DEF WriteDone, WriteFails
<1> HIDE DEF s
<1>4. t \in Tcp /\ Untimed(t)
  BY <1>2, TimersTypes, WritesUntimed
<1> HIDE DEF t
<1> QED
  BY <1>2, <1>3, <1>4, TryToStopUntimed, WritesUntimed

LEMMA StartStopUntimed ==
  ASSUME conf \in Models, tcp \in Tcp, Untimed(tcp), MtStart \/ MtStop
  PROVE  Untimed(tcp')
<1>1. CASE MtStart
  <2> SUFFICES ASSUME conf.clisrv
               PROVE  ~tcp'.timer
    BY DEF Untimed
  <2> DEFINE s == [tcp EXCEPT !.running = TRUE]
             new == [s EXCEPT !.yev["open"] = "IDLE"]
  <2>1. s \in Tcp /\ ~s.timer
    BY DEF Tcp, Untimed
  <2>2. new \in Tcp /\ ~new.timer
    <3>1. [s.yev EXCEPT !["open"] = "IDLE"] \in [Events -> YevStates]
      BY <2>1 DEF Tcp, YevStates, Events
    <3> HIDE DEF s
    <3> QED
      BY <2>1, <3>1 DEF Tcp
  <2>3. tcp' = s \/ tcp' = YevStart(new, "open")
    BY <1>1 DEF MtStart
  <2> HIDE DEF new, s
  <2> QED
    BY <2>1, <2>2, <2>3, EventsUntimed DEF Untimed, Events
<1>2. CASE MtStop
  <2> DEFINE u == [tcp EXCEPT !.running = FALSE, !.timer = FALSE]
             r == TryToStop(u)
  <2>1. u \in Tcp /\ Untimed(u)
    BY DEF Tcp, Untimed
  <2>2. tcp' = [r EXCEPT !.txing = FALSE, !.queue = 0]
    BY <1>2 DEF MtStop
  <2> HIDE DEF u
  <2>3. r \in Tcp /\ Untimed(r)
    BY <2>1, TryToStopTypes, TryToStopUntimed
  <2> HIDE DEF r
  <2> QED
    BY <2>2, <2>3 DEF Tcp, Untimed
<1> QED
  BY <1>1, <1>2

-----------------------------------------------------------------------------
(* The invariant of the connection. *)

\* Once an accept was lost nothing is said of a channel any more.
TcpInd ==
    /\ strayed \in BOOLEAN
    /\ ~strayed => conf \in Models /\ strays = 0 /\ Sound(tcp) /\ Untimed(tcp)

\* An accept does not fail while a channel waits for a peer.
AcceptsSucceed == ~AcceptMayFail \/ TRUE \notin Channels

LEMMA TcpStarts ==
  ASSUME Init
  PROVE  TcpInd
<1>1. [e \in Events |-> "none"] \in [Events -> YevStates]
  BY DEF YevStates
<1>2. <<>> \in Seq(Done)
  OBVIOUS
<1>3. tcp \in Tcp
  BY <1>1, <1>2 DEF Init, Tcp, States
<1>4. /\ tcp.yev["open"] = "none" /\ tcp.yev["read"] = "none"
      /\ tcp.armed = {} /\ tcp.cq = <<>>
      /\ tcp.state = "DISCONNECTED" /\ tcp.told = "down" /\ ~tcp.inform
      /\ ~tcp.disorder /\ tcp.writes = 0 /\ ~tcp.txing /\ ~tcp.timer
  BY DEF Init, Events
<1>5. \A e \in Events : Places(tcp.cq, e) = {}
  BY <1>4 DEF Places
<1>6. RingInd(tcp)
  BY <1>4, <1>5 DEF RingInd, OneEach, ReadsFirst, AcceptEnds, Events
<1>7. PhaseInd(tcp)
  BY <1>4 DEF PhaseInd, Told, Quiet, YevStopped
<1> QED
  BY <1>3, <1>4, <1>6, <1>7 DEF Init, TcpInd, Sound, Untimed

\* No accept is in the kernel that was lost, unless one was: it never comes.
LEMMA NoStrays ==
  ASSUME TcpInd, [Next]_vars, ~strayed'
  PROVE  /\ ~strayed /\ strays' = 0 /\ conf' = conf
         /\ conf \in Models /\ Sound(tcp) /\ Untimed(tcp) /\ tcp \in Tcp
         /\ ~StrayAccepts
<1>1. ~strayed
  BY StraysChange DEF TcpInd
<1>2. conf \in Models /\ strays = 0 /\ Sound(tcp) /\ Untimed(tcp)
  BY <1>1 DEF TcpInd
<1>3. strays' = 0 /\ conf' = conf
  <2>1. (strays' = strays \/ strays > 0) /\ conf' = conf
    BY StraysChange
  <2> QED
    BY ONLY <1>2, <2>1
<1>4. ~StrayAccepts
  BY <1>2 DEF StrayAccepts
<1>5. tcp \in Tcp
  BY <1>2 DEF Sound
<1> QED
  BY <1>1, <1>2, <1>3, <1>4, <1>5

LEMMA TcpStep ==
  ASSUME AcceptsSucceed, TcpInd, [Next]_vars
  PROVE  TcpInd'
<1>0. strayed' \in BOOLEAN
  BY StraysChange DEF TcpInd
<1> SUFFICES ASSUME ~strayed'
             PROVE  (conf \in Models /\ strays = 0 /\ Sound(tcp) /\ Untimed(tcp))'
  BY <1>0 DEF TcpInd
<1>1. conf \in Models /\ Sound(tcp) /\ Untimed(tcp) /\ tcp \in Tcp
  BY NoStrays
<1>2. conf' = conf /\ strays' = 0
  BY NoStrays
<1>3. Sound(tcp') /\ Untimed(tcp')
  <2>1. CASE MtStart
    BY <1>1, <2>1, MtStartSound, StartStopUntimed
  <2>2. CASE MtStop
    BY <1>1, <2>2, MtStopSound, StartStopUntimed
  <2>3. CASE FromAbove
    BY <1>1, <2>3, FromAboveSound, FromAboveUntimed
  <2>4. CASE Drop
    BY <1>1, <2>4, SoundIsStoppable, TryToStopSound, TryToStopUntimed DEF Drop
  <2>5. CASE Timeout
    <3>1. ~conf.clisrv
      BY <1>1, <2>5 DEF Timeout, Untimed
    <3> QED
      BY <1>1, <2>5, <3>1, TimeoutSound DEF Untimed
  <2>6. ASSUME NEW e \in Events, NEW res \in Results, Completes(e, res)
        PROVE  Sound(tcp') /\ Untimed(tcp')
    <3>1. Sound(tcp')
      BY <1>1, <2>6, CompletesSound DEF AcceptsSucceed
    <3>2. tcp'.timer = tcp.timer
      BY <1>1, <2>6 DEF Completes, Tcp
    <3> QED
      BY <1>1, <3>1, <3>2 DEF Untimed
  <2>7. CASE Reap
    BY <1>1, <2>7, ReapSound, ReapUntimed
  <2>8. CASE WriteDone \/ WriteFails
    BY <1>1, <2>8, WriteEndsSound, WriteEndsUntimed
  <2>9. CASE WritePart
    BY <1>1, <2>9, TimersSound, WritesUntimed DEF WritePart
  <2>10. CASE UNCHANGED vars
    BY <1>1, <2>10 DEF vars
  <2> QED
    BY <2>1, <2>2, <2>3, <2>4, <2>5, <2>6, <2>7, <2>8, <2>9, <2>10, NoStrays
       DEF Next
<1> QED
  BY <1>1, <1>2, <1>3
     DEF Sound, Untimed, RingInd, PhaseInd, OneEach, ReadsFirst,
         AcceptEnds, Told, Quiet, YevStopped, Places

(***************************************************************************)
(* As long as no accept() fails, or there is no channel to wait for one,   *)
(* the invariant above holds however completions, timeouts, writes, starts *)
(* and stops interleave in c_tcp.c, a stop of a channel that waits in      *)
(* ST_STOPPED included, until a start loses an accept.                     *)
(***************************************************************************)
THEOREM TcpInvariant == ASSUME AcceptsSucceed PROVE Spec => []TcpInd
<1>1. TcpInd /\ [Next]_vars => TcpInd'
  BY TcpStep
<1> QED
  BY <1>1, TcpStarts, PTL DEF Spec

(***************************************************************************)
(* The gobjs above hear EV_CONNECTED and EV_DISCONNECTED in turn, and      *)
(* EV_RX_DATA only between them, whatever fails, drops, stops or starts    *)
(* the connection and however a cancel crosses a completion (yev_callback, *)
(* try_to_stop_yevents, set_disconnected).  Out of turn means that a start *)
(* lost an accept before (mt_start), and never anything else.              *)
(***************************************************************************)
THEOREM TcpInTurn == ASSUME AcceptsSucceed PROVE Spec => []InTurn
<1>1. TcpInd => InTurn
  BY DEF TcpInd, Sound, PhaseInd, Told, InTurn
<1> QED
  BY <1>1, TcpInvariant, PTL

(***************************************************************************)
(* In ST_DISCONNECTED and ST_STOPPED no read, write or connect of the      *)
(* connection that ended is in progress, and its end has been announced    *)
(* (try_to_stop_yevents, set_disconnected), however many the faults, as    *)
(* long as no start lost an accept.                                        *)
(***************************************************************************)
THEOREM TcpDownIsQuiet == ASSUME AcceptsSucceed PROVE Spec => []DownIsQuiet
<1>1. ASSUME TcpInd PROVE DownIsQuiet
  <2> SUFFICES ASSUME ~strayed, tcp.state \in {"DISCONNECTED", "STOPPED"}
               PROVE  /\ tcp.writes = 0 /\ ~tcp.txing
                      /\ tcp.told = "down"
                      /\ "read" \notin tcp.armed
                      /\ tcp.yev["read"] \in {"none", "STOPPED"}
                      /\ "open" \in tcp.armed => conf.clisrv
    BY DEF DownIsQuiet
  <2>1. PhaseInd(tcp) /\ \A e \in Events : OneEach(tcp, e)
    BY <1>1 DEF TcpInd, Sound, RingInd
  <2>2. Quiet(tcp)
    BY <2>1 DEF PhaseInd
  <2>3. \A e \in Events : e \in tcp.armed => tcp.yev[e] = "RUNNING"
    BY <2>1 DEF OneEach
  <2> QED
    BY <2>1, <2>2, <2>3 DEF PhaseInd, Quiet, YevStopped, Events
<1> QED
  BY <1>1, TcpInvariant, PTL

-----------------------------------------------------------------------------
(* The connection refines the abstract one. *)

\* A connection that is announced and not in ST_CONNECTED is being stopped.
LEMMA DyingMeans ==
  ASSUME TcpInd, ~strayed, tcp.told = "up", tcp.state # "CONNECTED"
  PROVE  tcp.state = "WAIT_STOPPED"
<1>1. PhaseInd(tcp) /\ tcp.state \in States
  BY DEF TcpInd, Sound, Tcp
<1> QED
  BY <1>1 DEF PhaseInd, Quiet, States

\* From ST_WAIT_STOPPED nothing leads back to ST_CONNECTED.
LEMMA NeverRevives ==
  ASSUME TcpInd, [Next]_vars, ~strayed', tcp.state = "WAIT_STOPPED"
  PROVE  tcp'.state # "CONNECTED"
<1>1. conf \in Models /\ Sound(tcp) /\ tcp \in Tcp /\ PhaseInd(tcp)
  BY NoStrays DEF Sound
<1>2. ASSUME NEW s, Sound(s) PROVE TryToStop(s).state # "CONNECTED"
  BY <1>1, <1>2, SoundIsStoppable, TryToStopSound
<1>3. CASE MtStart
  <2>1. tcp' = [tcp EXCEPT !.running = TRUE]
    BY <1>1, <1>3 DEF MtStart, Tcp
  <2> QED
    BY <1>1, <2>1 DEF Tcp
<1>4. CASE MtStop
  <2> DEFINE u == [tcp EXCEPT !.running = FALSE, !.timer = FALSE]
             r == TryToStop(u)
  <2>1. /\ u \in Tcp /\ SameEvents(u, tcp) /\ u.state = tcp.state
        /\ u.told = tcp.told /\ u.inform = tcp.inform
        /\ u.disorder = tcp.disorder /\ u.writes = tcp.writes
        /\ u.txing = tcp.txing
    BY <1>1 DEF Tcp, SameEvents
  <2>2. tcp' = [r EXCEPT !.txing = FALSE, !.queue = 0]
    BY <1>4 DEF MtStop
  <2> HIDE DEF u
  <2>3. r.state # "CONNECTED" /\ r \in Tcp
    BY <1>1, <1>2, <2>1, SoundSame, TryToStopTypes
  <2> HIDE DEF r
  <2> QED
    BY <2>2, <2>3 DEF Tcp
<1>5. CASE FromAbove
  BY <1>5 DEF FromAbove, SendDisconnected, SendQueued, SendConnected, ConnectNow
<1>6. CASE Drop
  BY <1>1, <1>2, <1>6 DEF Drop
<1>7. CASE Timeout
  BY <1>1, <1>7 DEF Timeout, Tcp
<1>8. CASE \E e \in Events, res \in Results : Completes(e, res)
  <2>1. tcp'.state = tcp.state
    BY <1>1, <1>8 DEF Completes, Tcp
  <2> QED
    BY <2>1
<1>9. CASE Reap
  <2> DEFINE s == Taken(tcp)
  <2>1. /\ tcp.cq # <<>> /\ Sound(s) /\ s.state = "WAIT_STOPPED"
        /\ ~ /\ s.yev["open"] = "IDLE" /\ Head(tcp.cq).ev = "open"
             /\ CallsBack(tcp.yev["open"], Head(tcp.cq).res)
    BY <1>1, <1>9, ReapIs, TakenSound
  <2>2. s.yev["read"] # "IDLE"
    BY <2>1 DEF Sound, PhaseInd
  <2> HIDE DEF s
  <2>3. tcp' = s \/ tcp' = TryToStop(s)
    BY <1>9, <2>1, <2>2, ReapIs DEF OpenCallback, ReadCallback, s
  <2> QED
    BY <1>2, <2>1, <2>3
<1>10. CASE WriteDone \/ WriteFails
  <2> DEFINE s == [tcp EXCEPT !.writes = @ - 1]
             t == SetInactivityTimeout(s)
  <2>1. tcp' = TryToStop(s) \/ tcp' = TryToStop(t) \/ tcp' = t
    BY <1>1, <1>10 DEF WriteDone, WriteFails, Tcp
  <2>2. s \in Tcp /\ s.state = "WAIT_STOPPED" /\ SameEvents(s, tcp)
        /\ s.told = tcp.told /\ s.inform = tcp.inform
        /\ s.disorder = tcp.disorder
    <3>1. tcp.writes - 1 \in Nat
      BY <1>1, <1>10 DEF WriteDone, WriteFails, Tcp
    <3> QED
      BY <1>1, <3>1 DEF Tcp, SameEvents
  <2> HIDE DEF s
  <2>3. Sound(s)
    BY <1>1, <2>2, RingSame DEF Sound, PhaseInd, Told, SameEvents
  <2>4. Sound(t) /\ t.state = "WAIT_STOPPED"
    BY <2>2, <2>3, TimersSound DEF SetInactivityTimeout, SetTimeout, Tcp
  <2> HIDE DEF t
  <2> QED
    BY <1>2, <2>1, <2>3, <2>4
<1>11. CASE WritePart
  BY <1>1, <1>11 DEF WritePart, SetInactivityTimeout, SetTimeout, Tcp
<1>12. CASE UNCHANGED vars
  BY <1>12 DEF vars
<1> QED
  BY <1>3, <1>4, <1>5, <1>6, <1>7, <1>8, <1>9, <1>10, <1>11, <1>12, NoStrays
     DEF Next

(***************************************************************************)
(* For the gobjs above it is the connection of Connection.tla: what it     *)
(* announces is never taken back without an end, and a connection that is  *)
(* being stopped never comes back to life (try_to_stop_yevents,            *)
(* set_connected, set_disconnected).  Only a start that loses an accept    *)
(* makes it void.  That it closes in the end is in IsConnection, under     *)
(* fairness.                                                               *)
(***************************************************************************)
THEOREM TcpIsConnection == ASSUME AcceptsSucceed PROVE Spec => Conn!SafeSpec
<1>1. Init => Conn!Init
  BY DEF Init, Conn!Init, link
<1>2. ASSUME TcpInd, TcpInd', [Next]_vars
      PROVE  [Conn!Next]_(<<link, strayed>>)
  <2>0. CASE strayed'
    <3>1. strayed' = TRUE
      BY <1>2, <2>0 DEF TcpInd
    <3> QED
      BY <3>1 DEF Conn!Next
  <2> SUFFICES ASSUME ~strayed'
               PROVE  [Conn!Next]_(<<link, strayed>>)
    BY <2>0
  <2>a. strayed = FALSE /\ strayed' = FALSE
    BY <1>2, NoStrays DEF TcpInd
  <2>1. tcp.told \in {"up", "down"} /\ tcp'.told \in {"up", "down"}
    BY <1>2, <2>a DEF TcpInd, Sound, Tcp
  <2>2. link = "dying" => link' # "open"
    <3> SUFFICES ASSUME link = "dying" PROVE link' # "open"
      OBVIOUS
    <3>1. tcp.told = "up" /\ tcp.state # "CONNECTED"
      BY <2>1 DEF link
    <3>2. tcp'.state # "CONNECTED"
      BY <1>2, <2>a, <3>1, DyingMeans, NeverRevives
    <3> QED
      BY <2>1, <3>2 DEF link
  <2>3. link \in {"closed", "open", "dying"} /\ link' \in {"closed", "open", "dying"}
    BY DEF link
  <2> HIDE DEF link
  <2> QED
    BY <2>2, <2>3, <2>a
       DEF Conn!Next, Conn!Keeps, Conn!Open, Conn!Die, Conn!Close
<1> QED
  BY <1>1, <1>2, TcpInvariant, PTL DEF Spec, Conn!SafeSpec

-----------------------------------------------------------------------------
(* What wakes a connection up.  An event that runs has an operation in the *)
(* kernel or a completion in the ring, and one that is cancelled has its   *)
(* error there, which is what callback_cqe() waits for.                    *)

Erring(s, e) == {i \in Places(s.cq, e) : s.cq[i].res = "error"}

Awaits(s, e) ==
    /\ s.yev[e] = "RUNNING" => e \in s.armed \/ Places(s.cq, e) # {}
    /\ s.yev[e] = "CANCELING" => Erring(s, e) # {}

Awaited(s) == \A e \in Events : Awaits(s, e)

LEMMA AwaitedSame ==
  ASSUME NEW s, NEW r, SameEvents(r, s), Awaited(s)
  PROVE  Awaited(r)
BY DEF SameEvents, Awaited, Awaits, Erring

\* A completion more takes none of the others away.
LEMMA ErringAppend ==
  ASSUME NEW s \in Tcp, NEW r, NEW c \in Done, NEW e \in Events,
         r.cq = Append(s.cq, c)
  PROVE  /\ Places(s.cq, e) # {} => Places(r.cq, e) # {}
         /\ Erring(s, e) # {} => Erring(r, e) # {}
         /\ c.ev = e => Places(r.cq, e) # {}
         /\ c.ev = e /\ c.res = "error" => Erring(r, e) # {}
<1> DEFINE cq == s.cq
           more == Append(cq, c)
<1>1. cq \in Seq(Done)
  BY DEF Tcp
<1>2. r.cq = more
  OBVIOUS
<1> HIDE DEF cq
<1>3. /\ Places(cq, e) \subseteq 1..Len(cq)
      /\ Places(more, e) = IF c.ev = e THEN Places(cq, e) \cup {Len(cq) + 1}
                           ELSE Places(cq, e)
      /\ \A i \in 1..Len(cq) : more[i] = cq[i]
      /\ more[Len(cq) + 1] = c
  BY <1>1, PlacesAppend
<1> HIDE DEF more
<1>4. Erring(r, e) = {i \in Places(more, e) : more[i].res = "error"}
  BY <1>2 DEF Erring
<1>5. Erring(s, e) = {i \in Places(cq, e) : cq[i].res = "error"}
  BY DEF Erring, cq
<1> QED
  BY <1>2, <1>3, <1>4, <1>5 DEF cq

\* What a stop makes of the state of an event
Stopping(state) ==
    CASE state = "RUNNING" -> "CANCELING"
      [] state = "IDLE" -> "STOPPED"
      [] OTHER -> state

LEMMA StopTouches ==
  ASSUME NEW s \in Tcp, NEW e \in Events
  PROVE  LET r == YevStop(s, e)
         IN  /\ r.yev[e] = Stopping(s.yev[e])
             /\ \A f \in Events \ {e} : r.yev[f] = s.yev[f]
<1> DEFINE r == YevStop(s, e)
<1>1. s.yev \in [Events -> YevStates]
  BY DEF Tcp
<1>2. CASE s.yev[e] = "RUNNING"
  <2>1. r.yev = [s.yev EXCEPT ![e] = "CANCELING"]
    BY <1>2, StopDoes
  <2> HIDE DEF r
  <2>2. r.yev[e] = "CANCELING" /\ \A f \in Events \ {e} : r.yev[f] = s.yev[f]
    BY <1>1, <2>1
  <2> QED
    BY <1>2, <2>2 DEF Stopping, r
<1>3. CASE s.yev[e] = "IDLE"
  <2>1. r.yev = [s.yev EXCEPT ![e] = "STOPPED"]
    BY <1>3, StopDoes
  <2> HIDE DEF r
  <2>2. r.yev[e] = "STOPPED" /\ \A f \in Events \ {e} : r.yev[f] = s.yev[f]
    BY <1>1, <2>1
  <2> QED
    BY <1>3, <2>2 DEF Stopping, r
<1>4. CASE s.yev[e] \notin {"RUNNING", "IDLE"}
  <2>1. r = s
    BY <1>4, StopDoes
  <2> QED
    BY <1>4, <2>1 DEF Stopping
<1> QED
  BY <1>2, <1>3, <1>4

LEMMA StartAwaited ==
  ASSUME NEW s \in Tcp, NEW e \in Events, Awaited(s)
  PROVE  Awaited(YevStart(s, e))
<1> DEFINE r == YevStart(s, e)
<1>1. CASE s.yev[e] \in {"IDLE", "STOPPED"}
  <2>1. r.cq = s.cq /\ r.armed = s.armed \cup {e}
    BY <1>1, StartDoes
  <2>2. r.yev[e] = "RUNNING" /\ \A f \in Events \ {e} : r.yev[f] = s.yev[f]
    BY <1>1, StartTouches
  <2> HIDE DEF r
  <2>3. Awaited(r)
    BY <2>1, <2>2 DEF Awaited, Awaits, Erring
  <2> QED
    BY <2>3 DEF r
<1>2. CASE s.yev[e] \notin {"IDLE", "STOPPED"}
  BY <1>2, StartDoes
<1> QED
  BY <1>1, <1>2

LEMMA StopAwaited ==
  ASSUME NEW s \in Tcp, NEW e \in Events, Awaited(s)
  PROVE  Awaited(YevStop(s, e))
<1> DEFINE r == YevStop(s, e)
<1>1. CASE s.yev[e] = "RUNNING"
  <2> DEFINE first == IF e \in s.armed THEN Append(s.cq, Cancelled(e)) ELSE s.cq
             u == [s EXCEPT !.cq = first]
  <2>1. r.armed = s.armed \ {e} /\ r.cq = Append(first, Failed(e))
    BY <1>1, StopDoes
  <2>2. r.yev[e] = "CANCELING" /\ \A f \in Events \ {e} : r.yev[f] = s.yev[f]
    BY <1>1, StopTouches DEF Stopping
  <2> HIDE DEF r
  <2>3. s.cq \in Seq(Done) /\ Cancelled(e) \in Done /\ Failed(e) \in Done
    BY DoneWith DEF Tcp
  <2>4. first \in Seq(Done)
    BY <2>3, AppendProperties
  <2>5. u \in Tcp /\ u.cq = first
    <3> HIDE DEF first
    <3> QED
      BY <2>4 DEF Tcp
  <2>6. \A f \in Events : /\ Places(s.cq, f) # {} => Places(u.cq, f) # {}
                          /\ Erring(s, f) # {} => Erring(u, f) # {}
    <3>1. CASE e \in s.armed
      BY <2>3, <2>5, <3>1, ErringAppend
    <3>2. CASE e \notin s.armed
      BY <2>5, <3>2 DEF Erring
    <3> QED
      BY <3>1, <3>2
  <2> HIDE DEF u, first
  <2>7. \A f \in Events : /\ Places(u.cq, f) # {} => Places(r.cq, f) # {}
                          /\ Erring(u, f) # {} => Erring(r, f) # {}
    BY <2>1, <2>3, <2>5, ErringAppend
  <2>8. Erring(r, e) # {}
    BY <2>1, <2>3, <2>5, ErringAppend DEF Failed
  <2>9. Awaited(r)
    <3> SUFFICES ASSUME NEW f \in Events PROVE Awaits(r, f)
      BY DEF Awaited
    <3>1. CASE f = e
      BY <2>2, <2>8, <3>1 DEF Awaits
    <3>2. CASE f # e
      BY <2>1, <2>2, <2>6, <2>7, <3>2 DEF Awaited, Awaits
    <3> QED
      BY <3>1, <3>2
  <2> QED
    BY <2>9 DEF r
<1>2. CASE s.yev[e] # "RUNNING"
  <2>1. r.cq = s.cq /\ r.armed = s.armed
    BY <1>2, StopDoes
  <2>2. /\ r.yev[e] = Stopping(s.yev[e])
        /\ \A f \in Events \ {e} : r.yev[f] = s.yev[f]
    BY StopTouches
  <2> HIDE DEF r
  <2>3. Awaited(r)
    BY <1>2, <2>1, <2>2 DEF Awaited, Awaits, Erring, Stopping
  <2> QED
    BY <2>3 DEF r
<1> QED
  BY <1>1, <1>2

\* callback_cqe(): if the completion does not count, the state is as it was.
LEMMA TakenAwaited ==
  ASSUME NEW s \in Tcp, s.cq # <<>>, RingInd(s), Awaited(s)
  PROVE  LET c == Head(s.cq)
             r == Taken(s)
         IN  /\ Awaited(r)
             /\ ~CallsBack(s.yev[c.ev], c.res) =>
                  \A e \in Events : r.yev[e] = s.yev[e]
<1> DEFINE c == Head(s.cq)
           r == Taken(s)
<1>1. c \in Done /\ s.cq \in Seq(Done) /\ c.ev \in Events /\ c.res \in Results
  BY TakenTypes DEF Tcp, Done
<1>2. /\ r.armed = s.armed /\ r.cq = Tail(s.cq)
      /\ r.yev[c.ev] = Reaped(s.yev[c.ev], c.ev, c.res)
      /\ \A f \in Events \ {c.ev} : r.yev[f] = s.yev[f]
  BY RingTaken
<1>3. /\ s.cq[1] = c
      /\ \A f \in Events : \A j \in Places(s.cq, f) :
           j = 1 \/ (/\ j - 1 \in Places(Tail(s.cq), f)
                     /\ Tail(s.cq)[j - 1] = s.cq[j])
  BY <1>1, PlacesTail
<1> HIDE DEF c, r
<1>4. \A f \in Events \ {c.ev} :
        /\ Places(s.cq, f) # {} => Places(r.cq, f) # {}
        /\ Erring(s, f) # {} => Erring(r, f) # {}
  <2> TAKE f \in Events \ {c.ev}
  <2>1. 1 \notin Places(s.cq, f)
    BY <1>3 DEF Places
  <2>2. \A j \in Places(s.cq, f) :
          j - 1 \in Places(r.cq, f) /\ r.cq[j - 1] = s.cq[j]
    BY <1>2, <1>3, <2>1
  <2> QED
    BY <2>2 DEF Erring
<1>5. c.res # "error" /\ Erring(s, c.ev) # {} => Erring(r, c.ev) # {}
  <2> SUFFICES ASSUME c.res # "error", NEW j \in Erring(s, c.ev)
               PROVE  Erring(r, c.ev) # {}
    OBVIOUS
  <2>1. j \in Places(s.cq, c.ev) /\ s.cq[j].res = "error"
    BY DEF Erring
  <2>2. j # 1
    BY <1>3, <2>1
  <2>3. j - 1 \in Places(r.cq, c.ev) /\ r.cq[j - 1] = s.cq[j]
    BY <1>1, <1>2, <1>3, <2>1, <2>2
  <2> QED
    BY <2>1, <2>3 DEF Erring
<1>6. ASSUME NEW f \in Events PROVE Awaits(r, f)
  <2>1. CASE f = c.ev
    <3>1. r.yev[f] # "RUNNING"
      BY <1>2, <2>1 DEF Reaped
    <3>2. r.yev[f] = "CANCELING" => s.yev[f] = "CANCELING" /\ c.res # "error"
      BY <1>2, <2>1 DEF Reaped
    <3> QED
      BY <1>1, <1>5, <2>1, <3>1, <3>2 DEF Awaited, Awaits
  <2>2. CASE f # c.ev
    BY <1>2, <1>4, <2>2 DEF Awaited, Awaits
  <2> QED
    BY <2>1, <2>2
<1>7. ASSUME ~CallsBack(s.yev[c.ev], c.res), NEW e \in Events
      PROVE  r.yev[e] = s.yev[e]
  BY <1>2, <1>7 DEF CallsBack, Reaped
<1> QED
  BY <1>6, <1>7 DEF Awaited, c, r

-----------------------------------------------------------------------------
(* What each state waits for, and what it must not have forgotten. *)

Cancels(s) == \E e \in Events : s.yev[e] = "CANCELING"

\* The read is idle only inside its own callback.
Waits(s) ==
    /\ s.state \in {"WAIT_HANDSHAKE", "CONNECTED"} =>
          s.yev["read"] \in {"RUNNING", "IDLE"}
    /\ s.state = "WAIT_CONNECTED" => s.yev["open"] = "RUNNING"
    /\ s.state = "WAIT_STOPPED" => s.writes > 0 \/ Cancels(s)
    /\ s.state = "CONNECTED" =>
          /\ s.txing => s.writes > 0
          /\ s.queue > 0 => s.txing
    /\ s.running /\ s.state = "DISCONNECTED" =>
          IF conf.clisrv THEN s.yev["open"] = "RUNNING"
          ELSE s.timer \/ (conf.idle /\ s.queue = 0)
    /\ s.running /\ s.state = "STOPPED" =>
          conf.clisrv /\ s.yev["open"] = "RUNNING"

\* A channel may be given a peer after its stop, by an accept that it left.
Serves(s) == s.running \/ conf.clisrv

\* A client that was stopped has forgotten its connect event, so that it may
\* start again.
Off(s) ==
    ~Serves(s) =>
        /\ s.state \in {"DISCONNECTED", "STOPPED", "WAIT_STOPPED"}
        /\ s.state = "DISCONNECTED" => ~s.timer
        /\ s.yev["open"] # "RUNNING"
        /\ s.state # "WAIT_STOPPED" => s.yev["open"] = "none"

Rests(s) == Off(s) /\ (Serves(s) \/ s.queue = 0)

\* Only the end of a connection that was announced may be of inactivity: a
\* failed attempt that keeps its queue is always tried again.  A channel keeps
\* its accept event from one connection to the next.
Marks(s) ==
    /\ Cancels(s) => s.state = "WAIT_STOPPED"
    /\ s.idleClosed => ~conf.clisrv /\ s.inform /\ s.state = "WAIT_STOPPED"
    /\ conf.clisrv /\ s.state \notin {"STOPPED", "DISCONNECTED"} =>
          s.yev["open"] # "none"

Alive(s) == Sound(s) /\ Awaited(s) /\ Waits(s) /\ Rests(s) /\ Marks(s)

\* set_disconnected() makes ready for the next connection.
LEMMA SetDisconnectedWaits ==
  ASSUME conf \in Models, NEW s \in Tcp, RingInd(s), Awaited(s),
         s.state = "STOPPED", ~InProgress(s),
         s.idleClosed => ~conf.clisrv /\ s.inform,
         conf.clisrv => s.yev["open"] # "none"
  PROVE  LET r == SetDisconnected(s)
         IN  /\ Awaited(r) /\ Waits(r) /\ Marks(r) /\ Off(r)
             /\ r.running = s.running /\ r.queue \in {s.queue, 0}
<1> DEFINE told == IF Informs(s) THEN Tell(s, "down") ELSE s
           t == [told EXCEPT !.inform = FALSE, !.txing = FALSE,
                             !.queue = IF KeepsQueue(s) THEN @ ELSE 0]
           again == [t EXCEPT !.state = "DISCONNECTED"]
           r == SetDisconnected(s)
<1>1. /\ told \in Tcp /\ SameEvents(told, s)
      /\ told.state = "STOPPED" /\ told.writes = s.writes
      /\ told.running = s.running /\ told.queue = s.queue
      /\ told.idleClosed = s.idleClosed
  BY DEF Informs, Tell, Tcp, SameEvents
<1>2. s.writes = 0 /\ \A e \in Events : s.yev[e] \in {"none", "STOPPED"}
  BY DEF InProgress, YevStopped, Tcp
<1> HIDE DEF told
<1>3. /\ t \in Tcp /\ SameEvents(t, s) /\ t.state = "STOPPED"
      /\ ~t.txing /\ t.writes = 0
      /\ t.running = s.running /\ t.idleClosed = s.idleClosed
      /\ t.queue = IF KeepsQueue(s) THEN s.queue ELSE 0
  <2> DEFINE q == IF KeepsQueue(s) THEN told.queue ELSE 0
  <2>1. q \in Nat /\ q = IF KeepsQueue(s) THEN s.queue ELSE 0
    BY <1>1 DEF Tcp
  <2>2. t = [told EXCEPT !.inform = FALSE, !.txing = FALSE, !.queue = q]
    OBVIOUS
  <2> HIDE DEF q, t
  <2> DEFINE v == [told EXCEPT !.inform = FALSE]
  <2>a. v \in Tcp
    BY ONLY <1>1 DEF Tcp
  <2>b. t = [v EXCEPT !.txing = FALSE, !.queue = q]
    BY <2>2
  <2> HIDE DEF v
  <2>3. t \in Tcp
    BY ONLY <2>1, <2>a, <2>b DEF Tcp
  <2>4. /\ t.yev = told.yev /\ t.armed = told.armed /\ t.cq = told.cq
        /\ t.state = told.state /\ t.writes = told.writes
        /\ t.running = told.running /\ t.idleClosed = told.idleClosed
        /\ t.txing = FALSE /\ t.queue = q
    BY ONLY <1>1, <2>2 DEF Tcp
  <2> QED
    BY ONLY <1>1, <1>2, <2>1, <2>3, <2>4 DEF SameEvents
<1> HIDE DEF t
<1>4. /\ again \in Tcp /\ SameEvents(again, s) /\ again.state = "DISCONNECTED"
      /\ again.running = s.running /\ again.idleClosed = s.idleClosed
      /\ again.queue = t.queue
  BY <1>3 DEF Tcp, States, SameEvents
<1> HIDE DEF again
<1>5. Awaited(t) /\ Awaited(again)
  BY <1>3, <1>4, AwaitedSame
<1>6. conf.clisrv \in BOOLEAN /\ conf.idle \in BOOLEAN
  BY ConfTypes
<1>7. s.running \in BOOLEAN /\ s.idleClosed \in BOOLEAN
  BY DEF Tcp
<1>8. CASE conf.clisrv /\ s.running
  <2>1. r = YevStart(again, "open")
    BY <1>8 DEF SetDisconnected, again, t, told
  <2> HIDE DEF r
  <2>2. again.yev["open"] = "STOPPED" /\ again.yev["read"] \in {"none", "STOPPED"}
    BY <1>2, <1>4, <1>8 DEF SameEvents, Events
  <2>3. Awaited(r) /\ SameButEvents(r, again)
    BY <1>4, <1>5, <2>1, StartAwaited, StartDoes DEF Events
  <2>4. r.yev["open"] = "RUNNING" /\ r.yev["read"] \in {"none", "STOPPED"}
    BY <1>4, <2>1, <2>2, StartTouches DEF Events
  <2>5. r.queue \in {s.queue, 0}
    BY <1>3, <1>4, <2>3 DEF SameButEvents
  <2> QED
    BY <1>4, <1>8, <2>3, <2>4, <2>5
       DEF Waits, Marks, Off, Serves, Cancels, SameButEvents, Events, r
<1>9. CASE conf.clisrv /\ ~s.running
  <2>1. r = t
    BY <1>9 DEF SetDisconnected, t, told
  <2>2. Waits(t) /\ Marks(t) /\ Off(t)
    BY <1>2, <1>3, <1>9
       DEF Waits, Marks, Off, Serves, Cancels, SameEvents, Events
  <2>3. t.queue = 0
    BY <1>3, <1>9 DEF KeepsQueue
  <2> QED
    BY <1>3, <1>5, <1>9, <2>1, <2>2, <2>3
<1>10. CASE ~conf.clisrv /\ s.running
  <2>1. r = [RetryLater(again) EXCEPT !.idleClosed = FALSE]
    BY <1>10 DEF SetDisconnected, again, t, told
  <2>2. /\ SameEvents(r, again) /\ r.state = "DISCONNECTED"
        /\ r.running = s.running /\ r.queue = t.queue /\ ~r.idleClosed
        /\ ~(conf.idle /\ s.idleClosed) => r.timer
    BY <1>4, <2>1 DEF RetryLater, SetTimeout, ClearTimeout, Tcp, SameEvents
  <2> HIDE DEF r
  <2>3. Awaited(r)
    BY <1>5, <2>2, AwaitedSame
  <2>4. conf.idle /\ s.idleClosed => r.queue = 0
    BY <1>3, <2>2 DEF KeepsQueue
  <2>5. Waits(r) /\ Marks(r) /\ Off(r)
    BY <1>2, <1>4, <1>6, <1>7, <1>10, <2>2, <2>4
       DEF Waits, Marks, Off, Serves, Cancels, SameEvents, Events
  <2> QED
    BY <1>3, <1>10, <2>2, <2>3, <2>5 DEF r
<1>11. CASE ~conf.clisrv /\ ~s.running
  <2>1. r = [t EXCEPT !.yev["open"] = "none", !.idleClosed = FALSE]
    BY <1>11 DEF SetDisconnected, t, told
  <2>2. /\ r.yev = [t.yev EXCEPT !["open"] = "none"]
        /\ r.armed = t.armed /\ r.cq = t.cq /\ r.state = "STOPPED"
        /\ r.running = s.running /\ r.queue = t.queue /\ ~r.idleClosed
    BY <1>3, <2>1 DEF Tcp
  <2> HIDE DEF r
  <2>3. r.yev["open"] = "none" /\ r.yev["read"] = s.yev["read"]
    BY <1>3, <2>2 DEF Tcp, Events, SameEvents
  <2>4. Awaited(r)
    BY <1>2, <2>3 DEF Awaited, Awaits, Events
  <2>5. r.queue = 0
    BY <1>3, <1>11, <2>2 DEF KeepsQueue
  <2>6. Waits(r) /\ Marks(r) /\ Off(r)
    BY <1>2, <1>11, <2>2, <2>3
       DEF Waits, Marks, Off, Serves, Cancels, Events
  <2> QED
    BY <1>11, <2>2, <2>3, <2>4, <2>5, <2>6 DEF r
<1> QED
  BY <1>6, <1>7, <1>8, <1>9, <1>10, <1>11

\* What try_to_stop_yevents() is called with: a connection, perhaps only
\* attempted, or an accept in progress.
Ending(s) ==
    /\ Stoppable(s) /\ Awaited(s)
    /\ s.state # "STOPPED"
    /\ s.state = "DISCONNECTED" => s.yev["open"] = "RUNNING"
    /\ s.idleClosed => ~conf.clisrv /\ s.inform
    /\ conf.clisrv => s.yev["open"] # "none"

LEMMA TryToStopAlive ==
  ASSUME conf \in Models, NEW s, Ending(s)
  PROVE  LET r == TryToStop(s)
         IN  /\ Sound(r) /\ Awaited(r) /\ Waits(r) /\ Marks(r) /\ Off(r)
             /\ r.running = s.running /\ r.queue \in {s.queue, 0}
             /\ r.state \in {"STOPPED", "DISCONNECTED", "WAIT_STOPPED"}
             /\ r.yev["read"] # "IDLE"
<1> DEFINE v == YevStop(s, "open")
           t == YevStop(v, "read")
           u == [t EXCEPT !.state = "STOPPED"]
           r == TryToStop(s)
<1>1. s \in Tcp /\ RingInd(s) /\ Awaited(s)
  BY DEF Ending, Stoppable
<1>2. /\ Sound(r)
      /\ r.state \in {"STOPPED", "DISCONNECTED", "WAIT_STOPPED"}
  BY TryToStopSound DEF Ending
<1>3. {"open", "read"} \subseteq Events
  BY DEF Events
<1>4. v \in Tcp /\ Awaited(v) /\ v.yev["open"] = Stopping(s.yev["open"])
  BY <1>1, <1>3, StopDoes, StopAwaited, StopTouches
<1>5. /\ t \in Tcp /\ RingInd(t) /\ SameButEvents(t, s)
      /\ \A e \in Events : t.yev[e] \notin {"RUNNING", "IDLE"}
  BY <1>1, StopBoth
<1> HIDE DEF v
<1>6. Awaited(t) /\ t.yev["open"] = Stopping(s.yev["open"])
  BY <1>3, <1>4, StopAwaited, StopTouches DEF Events
<1> HIDE DEF t
<1>7. \A e \in Events : t.yev[e] \in {"none", "CANCELING", "STOPPED"}
  BY <1>5 DEF Tcp, YevStates
<1>8. conf.clisrv => t.yev["open"] # "none"
  BY <1>6 DEF Ending, Stopping
<1>9. r.yev["read"] # "IDLE"
  BY <1>2 DEF Sound, PhaseInd
<1>10. CASE InProgress(t)
  <2>1. r = [t EXCEPT !.state = "WAIT_STOPPED"]
    BY <1>10 DEF TryToStop, Ending, t, v
  <2>2. /\ SameEvents(r, t) /\ r.state = "WAIT_STOPPED"
        /\ r.running = s.running /\ r.queue = s.queue
        /\ r.writes = t.writes /\ r.inform = s.inform
        /\ r.idleClosed = s.idleClosed
    BY <1>5, <2>1 DEF Tcp, SameEvents, SameButEvents
  <2> HIDE DEF r
  <2>3. Awaited(r)
    BY <1>6, <2>2, AwaitedSame
  <2>4. t.writes > 0 \/ Cancels(t)
    BY <1>7, <1>10 DEF InProgress, YevStopped, Cancels
  <2>5. Waits(r) /\ Marks(r)
    BY <1>8, <2>2, <2>4 DEF Waits, Marks, Cancels, SameEvents, Ending
  <2>6. Off(r)
    BY <1>3, <1>7, <2>2 DEF Off, Serves, SameEvents
  <2> QED
    BY <1>2, <1>9, <2>2, <2>3, <2>5, <2>6 DEF r
<1>11. CASE ~InProgress(t)
  <2>1. s.state \notin {"STOPPED", "DISCONNECTED"}
    BY <1>3, <1>6, <1>11 DEF InProgress, YevStopped, Ending, Stopping
  <2>2. r = SetDisconnected(u)
    BY <1>11, <2>1 DEF TryToStop, t, v
  <2>3. /\ u \in Tcp /\ SameEvents(u, t) /\ u.state = "STOPPED"
        /\ u.inform = s.inform /\ u.idleClosed = s.idleClosed
        /\ u.running = s.running /\ u.queue = s.queue /\ u.writes = t.writes
    BY <1>5 DEF Tcp, States, SameEvents, SameButEvents
  <2> HIDE DEF u
  <2>4. /\ RingInd(u) /\ Awaited(u) /\ ~InProgress(u)
        /\ u.idleClosed => ~conf.clisrv /\ u.inform
        /\ conf.clisrv => u.yev["open"] # "none"
    BY <1>5, <1>6, <1>8, <1>11, <2>3, RingSame, AwaitedSame
       DEF InProgress, YevStopped, SameEvents, Ending
  <2>5. /\ Awaited(r) /\ Waits(r) /\ Marks(r) /\ Off(r)
        /\ r.running = u.running /\ r.queue \in {u.queue, 0}
    BY <2>2, <2>3, <2>4, SetDisconnectedWaits
  <2> HIDE DEF r
  <2> QED
    BY <1>2, <1>9, <2>3, <2>5 DEF r
<1> QED
  BY <1>10, <1>11

-----------------------------------------------------------------------------
(* What the other functions leave to wait for. *)

\* A handler goes on as it was, and forgets no read.
Follows(r, s) ==
    /\ r.running = s.running
    /\ r.yev["read"] = "IDLE" => s.yev["read"] = "IDLE"

LEMMA EndsAlive ==
  ASSUME conf \in Models, NEW s, Ending(s), Serves(s) \/ s.queue = 0
  PROVE  LET r == TryToStop(s) IN Alive(r) /\ Follows(r, s)
BY TryToStopAlive DEF Alive, Rests, Serves, Follows

LEMMA AliveEnds ==
  ASSUME conf \in Models, NEW s, Alive(s),
         s.state \notin {"STOPPED", "DISCONNECTED"}
  PROVE  /\ Ending(s)
         /\ LET r == TryToStop(s) IN Alive(r) /\ Follows(r, s)
<1>1. Ending(s)
  BY SoundIsStoppable DEF Alive, Marks, Ending
<1> QED
  BY <1>1, EndsAlive DEF Alive, Rests

\* Only the state of the events, the transmission and the timer of a client
\* that waits to connect matter.
LEMMA AliveSame ==
  ASSUME NEW s, NEW r, Alive(s), Sound(r), Awaited(r),
         \A e \in Events : r.yev[e] = s.yev[e],
         r.state = s.state, r.writes = s.writes, r.txing = s.txing,
         r.queue = s.queue, r.running = s.running,
         r.idleClosed = s.idleClosed, r.inform = s.inform,
         s.timer => r.timer, Serves(s) \/ r.timer = s.timer
  PROVE  Alive(r)
<1>1. r.yev["open"] = s.yev["open"] /\ r.yev["read"] = s.yev["read"]
      /\ (Cancels(r) <=> Cancels(s))
  BY DEF Events, Cancels
<1> QED
  BY <1>1 DEF Alive, Waits, Rests, Off, Serves, Marks

\* A connection in ST_CONNECTED, whatever its transmission is
Linked(s) ==
    /\ Sound(s) /\ Awaited(s) /\ Marks(s)
    /\ Serves(s) /\ s.state = "CONNECTED"
    /\ s.yev["read"] \in {"RUNNING", "IDLE"}

LEMMA AliveLinked ==
  ASSUME NEW s, Alive(s), s.state = "CONNECTED"
  PROVE  Linked(s)
BY DEF Alive, Rests, Off, Serves, Waits, Linked

LEMMA LinkedAlive ==
  ASSUME NEW s, Linked(s), s.txing => s.writes > 0, s.queue > 0 => s.txing
  PROVE  Alive(s)
BY DEF Linked, Alive, Rests, Off, Serves, Waits

LEMMA LinkedSame ==
  ASSUME NEW s, NEW r \in Tcp, Linked(s), SameEvents(r, s),
         r.state = s.state, r.running = s.running,
         r.told = s.told, r.inform = s.inform, r.disorder = s.disorder,
         r.idleClosed = s.idleClosed
  PROVE  Linked(r)
<1>1. Sound(r)
  BY ConnectedSame DEF Linked
<1>2. Awaited(r)
  BY AwaitedSame DEF Linked
<1> QED
  BY <1>1, <1>2 DEF Linked, Serves, Marks, Cancels, SameEvents

LEMMA LinkedEnds ==
  ASSUME conf \in Models, NEW s, Linked(s)
  PROVE  LET r == TryToStop(s) IN Alive(r) /\ Follows(r, s)
<1>1. Ending(s)
  BY SoundIsStoppable DEF Linked, Marks, Ending
<1> QED
  BY <1>1, EndsAlive DEF Linked

\* write_data() with the message that is being sent
LEMMA WriteDataAlive ==
  ASSUME conf \in Models, NEW s, NEW ok, Linked(s), s.queue > 0 => s.txing
  PROVE  LET r == WriteData(s, ok) IN Alive(r) /\ Follows(r, s)
<1>1. CASE ok
  <2> DEFINE r == [s EXCEPT !.writes = @ + 1]
  <2>1. s \in Tcp /\ s.writes \in Nat
    BY DEF Linked, Sound, Tcp
  <2>2. /\ r \in Tcp /\ SameEvents(r, s) /\ r.state = s.state
        /\ r.running = s.running /\ r.told = s.told /\ r.inform = s.inform
        /\ r.disorder = s.disorder /\ r.idleClosed = s.idleClosed
        /\ r.txing = s.txing /\ r.queue = s.queue /\ r.writes > 0
    BY <2>1 DEF Tcp, SameEvents
  <2>3. WriteData(s, ok) = r
    BY <1>1 DEF WriteData
  <2> HIDE DEF r
  <2>4. Alive(r)
    BY <2>2, LinkedSame, LinkedAlive
  <2> QED
    BY <2>2, <2>3, <2>4 DEF Follows, SameEvents
<1>2. CASE ~ok
  BY <1>2, LinkedEnds DEF WriteData, Follows
<1> QED
  BY <1>1, <1>2

LEMMA WriteNextAlive ==
  ASSUME conf \in Models, NEW s, NEW ok, Linked(s), s.queue # 0
  PROVE  LET r == WriteNext(s, ok) IN Alive(r) /\ Follows(r, s)
<1> DEFINE u == [s EXCEPT !.txing = TRUE, !.queue = @ - 1]
<1>1. s \in Tcp /\ s.queue - 1 \in Nat
  BY DEF Linked, Sound, Tcp
<1>2. /\ u \in Tcp /\ SameEvents(u, s) /\ u.state = s.state
      /\ u.running = s.running /\ u.told = s.told /\ u.inform = s.inform
      /\ u.disorder = s.disorder /\ u.idleClosed = s.idleClosed /\ u.txing
  BY <1>1 DEF Tcp, SameEvents
<1>3. WriteNext(s, ok) = WriteData(u, ok)
  BY DEF WriteNext
<1> HIDE DEF u
<1>4. Linked(u)
  BY <1>2, LinkedSame
<1> QED
  BY <1>2, <1>3, <1>4, WriteDataAlive DEF Follows, SameEvents

\* try_more_writes() and start_pending_writes() leave nothing queued behind.
LEMMA MoreWritesAlive ==
  ASSUME conf \in Models, NEW s, NEW ok, Linked(s)
  PROVE  /\ LET r == TryMoreWrites(s, ok) IN Alive(r) /\ Follows(r, s)
         /\ ~s.txing =>
              LET r == StartPending(s, ok) IN Alive(r) /\ Follows(r, s)
<1> DEFINE u == [s EXCEPT !.txing = FALSE]
<1>1. s \in Tcp /\ s.queue \in Nat
  BY DEF Linked, Sound, Tcp
<1>2. CASE s.queue = 0
  <2>1. /\ u \in Tcp /\ SameEvents(u, s) /\ u.state = s.state
        /\ u.running = s.running /\ u.told = s.told /\ u.inform = s.inform
        /\ u.disorder = s.disorder /\ u.idleClosed = s.idleClosed
        /\ ~u.txing /\ u.queue = 0
    BY <1>1, <1>2 DEF Tcp, SameEvents
  <2>2. TryMoreWrites(s, ok) = u
    BY <1>2 DEF TryMoreWrites
  <2> HIDE DEF u
  <2>3. Alive(u) /\ Follows(u, s)
    BY <2>1, LinkedSame, LinkedAlive DEF Follows, SameEvents
  <2>4. ~s.txing => Alive(s) /\ StartPending(s, ok) = s
    BY <1>2, LinkedAlive DEF StartPending
  <2> QED
    BY <2>2, <2>3, <2>4 DEF Follows
<1>3. CASE s.queue # 0
  BY <1>3, WriteNextAlive DEF TryMoreWrites, StartPending
<1> QED
  BY <1>2, <1>3

\* The inactivity timer takes no wake-up away.
LEMMA InactivityAlive ==
  ASSUME NEW s, Alive(s), Serves(s)
  PROVE  LET r == SetInactivityTimeout(s)
         IN  Alive(r) /\ Follows(r, s) /\ r.yev = s.yev /\ r.state = s.state
             /\ r.txing = s.txing /\ r.running = s.running
<1> DEFINE r == SetInactivityTimeout(s)
<1>1. s \in Tcp /\ Sound(s) /\ Awaited(s)
  BY DEF Alive, Sound
<1>2. /\ SameEvents(r, s) /\ r.state = s.state /\ r.writes = s.writes
      /\ r.txing = s.txing /\ r.queue = s.queue /\ r.running = s.running
      /\ r.idleClosed = s.idleClosed /\ r.inform = s.inform
      /\ s.timer => r.timer
  BY <1>1 DEF SetInactivityTimeout, SetTimeout, Tcp, SameEvents
<1>3. Sound(r)
  BY <1>1, TimersSound
<1> HIDE DEF r
<1>4. Awaited(r)
  BY <1>1, <1>2, AwaitedSame
<1>5. Alive(r)
  BY <1>2, <1>3, <1>4, AliveSame DEF SameEvents
<1> QED
  BY <1>2, <1>5 DEF Follows, SameEvents, r

\* The end of set_connected() and set_secure_connected()
LEMMA EstablishedAlive ==
  ASSUME conf \in Models, NEW s \in Tcp, NEW ok, RingInd(s), Awaited(s),
         Told(s), s.told = "down", s.yev["open"] # "RUNNING",
         Serves(s), ~s.txing, s.yev["read"] \in {"RUNNING", "IDLE"},
         ~Cancels(s), ~s.idleClosed, conf.clisrv => s.yev["open"] # "none"
  PROVE  LET r == Established(s, ok) IN Alive(r) /\ Follows(r, s)
<1> DEFINE up == Tell([s EXCEPT !.state = "CONNECTED", !.inform = TRUE], "up")
           v == StartPending(up, ok)
<1>1. /\ up \in Tcp /\ SameEvents(up, s) /\ up.state = "CONNECTED"
      /\ up.told = "up" /\ up.inform /\ ~up.disorder
      /\ up.running = s.running /\ ~up.txing /\ ~up.idleClosed
  BY DEF Tell, Told, Tcp, States, SameEvents
<1>2. Established(s, ok) = SetInactivityTimeout(v)
  BY DEF Established
<1> HIDE DEF up
<1>3. RingInd(up) /\ PhaseInd(up) /\ Awaited(up)
  BY <1>1, RingSame, AwaitedSame DEF PhaseInd, Told, SameEvents
<1>4. Linked(up)
  BY <1>1, <1>3 DEF Linked, Sound, Serves, Marks, Cancels, SameEvents
<1>5. Alive(v) /\ Follows(v, up)
  BY <1>1, <1>4, MoreWritesAlive
<1>6. Serves(v)
  BY <1>1, <1>5 DEF Follows, Serves
<1> HIDE DEF v
<1>7. Alive(SetInactivityTimeout(v)) /\ Follows(SetInactivityTimeout(v), v)
  BY <1>5, <1>6, InactivityAlive
<1> QED
  BY <1>1, <1>2, <1>5, <1>7 DEF Follows, SameEvents

\* set_connected(), from the completion of a connect or an accept
LEMMA SetConnectedAlive ==
  ASSUME conf \in Models, NEW s, Sound(s), Awaited(s), NEW ok \in BOOLEAN,
         s.state \in {"DISCONNECTED", "STOPPED", "WAIT_CONNECTED"},
         s.yev["open"] = "IDLE", Places(s.cq, "read") = {},
         ~Cancels(s), ~s.idleClosed, Serves(s)
  PROVE  LET r == SetConnected(s, ok) IN Alive(r) /\ Follows(r, s)
<1> DEFINE read == IF s.yev["read"] = "none" THEN "IDLE" ELSE s.yev["read"]
           new == [ClearTimeout(s) EXCEPT !.yev["read"] = read,
                                          !.everConnected = TRUE]
           t == Reading(s)
           h == Hello(s)
           f == [h EXCEPT !.writes = s.writes]
<1>1. s \in Tcp /\ RingInd(s) /\ Told(s) /\ Quiet(s)
  BY DEF Sound, PhaseInd
<1>2. s.yev["read"] \in {"none", "STOPPED"}
  BY <1>1 DEF Quiet, YevStopped
<1>3. /\ t \in Tcp /\ RingInd(t)
      /\ t.yev["read"] = "RUNNING" /\ t.yev["open"] = "IDLE"
      /\ t.told = "down" /\ t.inform = s.inform /\ t.disorder = s.disorder
      /\ ~t.txing /\ t.running = s.running /\ t.idleClosed = s.idleClosed
  BY <1>1, <1>2, ReadingDoes DEF Quiet
<1>4. Awaited(t)
  <2>1. [s.yev EXCEPT !["read"] = read] \in [Events -> YevStates]
    BY <1>1 DEF Tcp, YevStates, Events
  <2>2. /\ new \in Tcp /\ new.armed = s.armed /\ new.cq = s.cq
        /\ new.yev = [s.yev EXCEPT !["read"] = read]
    BY <1>1, <2>1 DEF ClearTimeout, Tcp
  <2>3. t = YevStart(new, "read")
    BY DEF Reading
  <2> HIDE DEF new, t
  <2>4. new.yev["read"] \in {"IDLE", "STOPPED"} /\ new.yev["open"] = "IDLE"
    BY <1>1, <1>2, <2>2 DEF Tcp, Events
  <2>5. Awaited(new)
    BY <2>4 DEF Awaited, Awaits, Events
  <2> QED
    BY <2>2, <2>3, <2>5, StartAwaited DEF Events
<1>5. ~t.inform /\ Told(t)
  <2>1. ~s.inform /\ ~s.disorder
    BY <1>1 DEF Told, Quiet
  <2> HIDE DEF t
  <2> QED
    BY <1>3, <2>1 DEF Told
<1>6. h = [t EXCEPT !.state = "WAIT_HANDSHAKE", !.inform = FALSE,
                    !.writes = IF conf.clisrv THEN @ ELSE @ + 1]
  BY DEF Hello
<1>7. h \in Tcp
  BY <1>1, ReadingTypes
<1> HIDE DEF read, new, t, h
<1>8. ~Cancels(t)
  BY <1>3 DEF Cancels, Events
<1>9. CASE ~conf.tls
  <2>1. SetConnected(s, ok) = Established(t, ok)
    BY <1>9, SetConnectedIs DEF t
  <2>2. Alive(Established(t, ok)) /\ Follows(Established(t, ok), t)
    BY <1>3, <1>4, <1>5, <1>8, EstablishedAlive DEF Serves
  <2> QED
    BY <1>3, <2>1, <2>2 DEF Follows
<1>10. CASE conf.tls
  <2>1. /\ SameEvents(h, t) /\ h.state = "WAIT_HANDSHAKE"
        /\ h.told = "down" /\ ~h.inform /\ ~h.disorder /\ ~h.txing
        /\ h.running = s.running /\ h.idleClosed = s.idleClosed
    BY <1>3, <1>5, <1>6 DEF Tcp, Told, SameEvents
  <2>2. Awaited(h) /\ ~Cancels(h) /\ h.yev["read"] = "RUNNING"
        /\ h.yev["open"] = "IDLE"
    BY <1>3, <1>4, <1>8, <2>1, AwaitedSame DEF Cancels, SameEvents
  <2>3. CASE ok
    <3>1. SetConnected(s, ok) = h
      BY <1>10, <2>3, SetConnectedIs DEF h
    <3>2. Sound(h)
      BY <3>1, SetConnectedSound
    <3>3. Alive(h)
      BY <2>1, <2>2, <3>2 DEF Alive, Waits, Rests, Off, Serves, Marks
    <3> QED
      BY <2>1, <2>2, <3>1, <3>3 DEF Follows
  <2>4. CASE ~ok
    <3>1. SetConnected(s, ok) = TryToStop(f)
      BY <1>10, <2>4, SetConnectedIs DEF h
    <3>2. /\ f \in Tcp /\ SameEvents(f, h) /\ f.state = "WAIT_HANDSHAKE"
          /\ f.told = h.told /\ f.inform = h.inform
          /\ f.disorder = h.disorder /\ f.running = s.running
          /\ f.idleClosed = s.idleClosed
      BY <1>1, <1>7, <2>1 DEF Tcp, SameEvents
    <3> HIDE DEF f
    <3>3. RingInd(f) /\ Told(f) /\ Awaited(f)
      BY <1>3, <2>1, <2>2, <3>2, RingSame, AwaitedSame
         DEF Told, SameEvents
    <3>4. Ending(f)
      BY <2>2, <3>2, <3>3 DEF Ending, Stoppable, SameEvents
    <3>5. Alive(TryToStop(f)) /\ Follows(TryToStop(f), f)
      BY <3>2, <3>4, EndsAlive DEF Serves
    <3> QED
      BY <2>2, <3>1, <3>2, <3>5 DEF Follows, SameEvents
  <2> QED
    BY <2>3, <2>4
<1> QED
  BY <1>9, <1>10

\* ac_connect(): the connect goes on, or the client retries later.
LEMMA ConnectAlive ==
  ASSUME conf \in Models, ~conf.clisrv, NEW s, Sound(s), Awaited(s), Marks(s),
         NEW ok, s.running, s.state = "DISCONNECTED",
         Places(s.cq, "open") = {}
  PROVE  LET r == Connect(s, ok) IN Alive(r) /\ Follows(r, s)
<1> DEFINE t == [s EXCEPT !.state = "WAIT_CONNECTED"]
<1>1. s \in Tcp /\ RingInd(s) /\ Told(s) /\ Quiet(s)
  BY DEF Sound, PhaseInd
<1>2. /\ t \in Tcp /\ SameEvents(t, s) /\ t.state = "WAIT_CONNECTED"
      /\ t.told = s.told /\ t.inform = s.inform /\ t.disorder = s.disorder
      /\ t.writes = s.writes /\ t.txing = s.txing /\ t.running = s.running
      /\ t.idleClosed = s.idleClosed
  BY <1>1 DEF Tcp, States, SameEvents
<1>3. Connect(s, ok) =
        IF ok /\ s.yev["open"] \in {"IDLE", "STOPPED"} THEN YevStart(t, "open")
        ELSE TryToStop(t)
  BY DEF Connect
<1> HIDE DEF t
<1>4. RingInd(t) /\ Told(t) /\ Awaited(t)
  BY <1>1, <1>2, RingSame, AwaitedSame DEF Told, SameEvents
<1>5. ~Cancels(s) /\ ~s.idleClosed
  BY DEF Marks
<1>6. CASE ok /\ s.yev["open"] \in {"IDLE", "STOPPED"}
  <2> DEFINE r == YevStart(t, "open")
  <2>1. Connect(s, ok) = r
    BY <1>3, <1>6
  <2>2. SameButEvents(r, t) /\ Awaited(r)
    BY <1>2, <1>4, StartDoes, StartAwaited DEF Events
  <2>3. r.yev["open"] = "RUNNING" /\ r.yev["read"] = s.yev["read"]
    BY <1>2, <1>6, StartTouches DEF Events, SameEvents
  <2>4. Sound(r)
    BY <2>1, ConnectSound
  <2> HIDE DEF r
  <2>5. ~Cancels(r)
    BY <1>5, <2>3 DEF Cancels, Events
  <2>6. Alive(r)
    BY <1>2, <1>5, <2>2, <2>3, <2>4, <2>5
       DEF Alive, Waits, Rests, Off, Serves, Marks, SameButEvents
  <2> QED
    BY <1>2, <2>1, <2>2, <2>3, <2>6 DEF Follows, SameButEvents
<1>7. CASE ~(ok /\ s.yev["open"] \in {"IDLE", "STOPPED"})
  <2>1. Ending(t)
    BY <1>2, <1>4, <1>5 DEF Ending, Stoppable
  <2>2. Alive(TryToStop(t)) /\ Follows(TryToStop(t), t)
    BY <1>2, <2>1, EndsAlive DEF Serves
  <2>3. Connect(s, ok) = TryToStop(t)
    BY <1>3, <1>7
  <2> QED
    BY <1>2, <2>2, <2>3 DEF Follows, SameEvents
<1> QED
  BY <1>6, <1>7

\* The read starts again at the end of its callback.
LEMMA RearmAlive ==
  ASSUME NEW s, Alive(s)
  PROVE  Alive(Rearm(s)) /\ Rearm(s).yev["read"] # "IDLE"
<1>1. CASE s.yev["read"] = "IDLE"
  <2> DEFINE r == YevStart(s, "read")
  <2>1. s \in Tcp /\ Sound(s) /\ PhaseInd(s) /\ Awaited(s)
    BY DEF Alive, Sound
  <2>2. Rearm(s) = r
    BY <1>1 DEF Rearm
  <2>3. SameButEvents(r, s) /\ Awaited(r)
    BY <2>1, StartDoes, StartAwaited DEF Events
  <2>4. r.yev["read"] = "RUNNING" /\ r.yev["open"] = s.yev["open"]
    BY <1>1, <2>1, StartTouches DEF Events
  <2>5. Sound(r)
    BY <2>1, <2>2, RearmSound
  <2> HIDE DEF r
  <2>6. Cancels(r) => Cancels(s)
    BY <2>4 DEF Cancels, Events
  <2>7. s.state \in {"WAIT_HANDSHAKE", "CONNECTED"}
    BY <1>1, <2>1 DEF PhaseInd
  <2>8. Alive(r)
    BY <2>3, <2>4, <2>5, <2>6, <2>7
       DEF Alive, Waits, Rests, Off, Serves, Marks, SameButEvents
  <2> QED
    BY <2>2, <2>4, <2>8
<1>2. CASE s.yev["read"] # "IDLE"
  BY <1>2 DEF Rearm
<1> QED
  BY <1>1, <1>2

LEMMA ReceiveAlive ==
  ASSUME NEW s, Alive(s), s.state = "CONNECTED"
  PROVE  LET r == Receive(s)
         IN  Alive(r) /\ r.state = "CONNECTED"
<1> DEFINE r == Receive(s)
<1>1. s \in Tcp /\ Sound(s) /\ Awaited(s)
  BY DEF Alive, Sound
<1>2. /\ SameEvents(r, s) /\ r.state = s.state /\ r.writes = s.writes
      /\ r.txing = s.txing /\ r.queue = s.queue /\ r.running = s.running
      /\ r.idleClosed = s.idleClosed /\ r.inform = s.inform
      /\ r.timer = s.timer
  BY <1>1 DEF Receive, Tcp, SameEvents
<1>3. Sound(r)
  BY <1>1, ReceiveSound
<1> HIDE DEF r
<1>4. Awaited(r)
  BY <1>1, <1>2, AwaitedSame
<1>5. Alive(r)
  BY <1>2, <1>3, <1>4, AliveSame DEF SameEvents
<1> QED
  BY <1>2, <1>5 DEF r

-----------------------------------------------------------------------------
(* The handlers leave something to wait for. *)

\* mt_start() of a channel, and of a client whose connect event is forgotten
LEMMA MtStartAlive ==
  ASSUME conf \in Models, Alive(tcp), MtStart, ~strayed'
  PROVE  Alive(tcp') /\ (tcp'.yev["read"] = "IDLE" => tcp.yev["read"] = "IDLE")
<1> DEFINE s == [tcp EXCEPT !.running = TRUE]
           new == [s EXCEPT !.yev["open"] = "IDLE"]
           client == [new EXCEPT !.state = "DISCONNECTED", !.timer = s.msec]
           refused == \/ s.state \notin {"STOPPED", "DISCONNECTED"}
                      \/ ~conf.clisrv /\ s.yev["open"] # "none"
<1>1. tcp \in Tcp /\ Sound(tcp) /\ Awaited(tcp) /\ Marks(tcp) /\ ~tcp.running
      /\ Off(tcp) /\ (conf.clisrv \/ tcp.queue = 0)
  BY DEF Alive, Rests, Serves, Sound, MtStart
<1>2. Sound(tcp')
  BY <1>1, MtStartSound
<1>3. /\ s \in Tcp /\ SameEvents(s, tcp) /\ s.state = tcp.state
      /\ s.writes = tcp.writes /\ s.idleClosed = tcp.idleClosed
      /\ s.inform = tcp.inform /\ s.told = tcp.told
      /\ s.disorder = tcp.disorder /\ s.txing = tcp.txing
      /\ s.queue = tcp.queue /\ s.running
  BY <1>1 DEF Tcp, SameEvents
<1> HIDE DEF s
<1>4. Awaited(s) /\ Marks(s) /\ Sound(s)
  BY <1>1, <1>3, AwaitedSame, SoundSame DEF Marks, Cancels, SameEvents
<1>5. CASE refused
  <2>1. tcp' = s
    BY <1>5 DEF MtStart, s
  <2>2. s.state \notin {"STOPPED", "DISCONNECTED"}
    BY <1>1, <1>3, <1>5 DEF Off, Serves, SameEvents
  <2>3. Waits(s)
    BY <1>3, <2>2 DEF Alive, Waits, Cancels, SameEvents
  <2>4. Alive(s)
    BY <1>3, <1>4, <2>3 DEF Alive, Rests, Off, Serves
  <2> QED
    BY <1>3, <2>1, <2>4 DEF SameEvents
<1>6. CASE ~refused
  <2>1. s.state \in {"STOPPED", "DISCONNECTED"} /\ Places(s.cq, "open") = {}
    <3>1. NoneOldInRing
      BY <1>6 DEF MtStart, s
    <3> QED
      BY <1>3, <1>6, <3>1, NoneOldMeans DEF SameEvents
  <2>2. ~Cancels(s) /\ ~s.idleClosed
    BY <1>4, <2>1 DEF Marks
  <2>3. /\ new \in Tcp /\ new.yev = [s.yev EXCEPT !["open"] = "IDLE"]
        /\ new.armed = s.armed /\ new.cq = s.cq
        /\ new.state = s.state /\ new.writes = s.writes
        /\ new.idleClosed = s.idleClosed /\ new.told = s.told
        /\ new.inform = s.inform /\ new.disorder = s.disorder
        /\ new.txing = s.txing /\ new.queue = s.queue /\ new.running
    <3>1. [s.yev EXCEPT !["open"] = "IDLE"] \in [Events -> YevStates]
      BY <1>3 DEF Tcp, YevStates, Events
    <3> QED
      BY <1>3, <3>1 DEF Tcp
  <2>4. new.yev["open"] = "IDLE" /\ new.yev["read"] = s.yev["read"]
    BY <1>3, <2>3 DEF Tcp, Events
  <2> HIDE DEF new
  <2>5. Awaited(new) /\ ~Cancels(new)
    BY <1>4, <2>2, <2>3, <2>4
       DEF Awaited, Awaits, Erring, Cancels, Events
  <2>6. CASE conf.clisrv
    <3> DEFINE r == YevStart(new, "open")
    <3>1. SameButEvents(r, new) /\ Awaited(r)
      BY <2>3, <2>5, StartDoes, StartAwaited DEF Events
    <3>2. r.yev["open"] = "RUNNING" /\ r.yev["read"] = new.yev["read"]
      <4>1. "open" \in Events /\ "read" \in Events \ {"open"}
        BY DEF Events
      <4>2. /\ \A f \in Events \ {"open"} : r.yev[f] = new.yev[f]
            /\ r.yev["open"] = "RUNNING"
        BY <2>3, <2>4, <4>1, StartTouches
      <4> QED
        BY <4>1, <4>2
    <3>3. tcp' = r
      BY <1>6, <2>6 DEF MtStart, s, new
    <3> HIDE DEF r
    <3>4. ~Cancels(r)
      BY <2>5, <3>2 DEF Cancels, Events
    <3>5. Alive(r)
      BY <1>2, <2>1, <2>2, <2>3, <2>6, <3>1, <3>2, <3>3, <3>4
         DEF Alive, Waits, Rests, Off, Serves, Marks, SameButEvents
    <3> QED
      BY <1>3, <2>4, <3>2, <3>3, <3>5 DEF SameEvents
  <2>7. CASE ~conf.clisrv
    <3>1. s.yev["open"] = "none" /\ "open" \notin s.armed
      <4>1. s.yev["open"] = "none"
        BY <1>6, <2>7
      <4> QED
        BY <1>4, <4>1 DEF Sound, RingInd, OneEach, Events
    <3>2. RingInd(new)
      BY <1>3, <1>4, <2>1, <2>3, <3>1, RingChanges DEF Sound, Events
    <3>3. /\ client \in Tcp /\ SameEvents(client, new)
          /\ client.state = "DISCONNECTED" /\ client.told = new.told
          /\ client.inform = new.inform /\ client.disorder = new.disorder
          /\ client.writes = new.writes /\ client.txing = new.txing
          /\ client.queue = new.queue /\ client.running
          /\ client.idleClosed = new.idleClosed
      BY <1>3, <2>3 DEF Tcp, States, SameEvents
    <3> HIDE DEF client
    <3>4. RingInd(client) /\ Awaited(client)
      BY <2>5, <3>2, <3>3, RingSame, AwaitedSame
    <3>5. PhaseInd(client)
      BY <1>4, <2>1, <2>3, <2>4, <3>3
         DEF Sound, PhaseInd, Told, Quiet, YevStopped, SameEvents
    <3>6. Marks(client)
      BY <2>2, <2>3, <2>5, <3>3 DEF Marks, Cancels, SameEvents
    <3>7. Sound(client) /\ Places(client.cq, "open") = {}
      BY <2>1, <2>3, <3>3, <3>4, <3>5 DEF Sound, SameEvents
    <3>8. \/ tcp' = client /\ conf.idle
          \/ \E ok \in BOOLEAN : tcp' = Connect(client, ok)
      BY <1>6, <2>7 DEF MtStart, client, new, s
    <3>9. CASE tcp' = client /\ conf.idle
      <4>1. client.queue = 0
        BY <1>1, <1>3, <2>3, <2>7, <3>3
      <4>2. Alive(client)
        BY <2>7, <3>3, <3>4, <3>6, <3>7, <3>9, <4>1
           DEF Alive, Waits, Rests, Off, Serves
      <4> QED
        BY <1>3, <2>4, <3>3, <3>9, <4>2 DEF SameEvents
    <3>10. CASE \E ok \in BOOLEAN : tcp' = Connect(client, ok)
      <4>1. Alive(tcp') /\ Follows(tcp', client)
        BY <2>7, <3>3, <3>4, <3>6, <3>7, <3>10, ConnectAlive
      <4> QED
        BY <1>3, <2>4, <3>3, <4>1 DEF Follows, SameEvents
    <3> QED
      BY <3>8, <3>9, <3>10
  <2> QED
    BY <2>6, <2>7
<1> QED
  BY <1>5, <1>6

\* No one stops a client that waits to connect (see TcpRestart.cfg).
StopsConnected == ~StopBetween \/ FALSE \notin Channels

LEMMA MtStopAlive ==
  ASSUME conf \in Models, StopsConnected, Alive(tcp),
         tcp.yev["read"] # "IDLE", MtStop
  PROVE  Alive(tcp') /\ tcp'.yev["read"] # "IDLE"
<1> DEFINE u == [tcp EXCEPT !.running = FALSE, !.timer = FALSE]
           r == TryToStop(u)
<1>1. tcp \in Tcp /\ Sound(tcp) /\ Awaited(tcp) /\ Marks(tcp) /\ tcp.running
      /\ Waits(tcp)
  BY DEF Alive, Sound, MtStop
<1>2. Sound(tcp')
  BY <1>1, MtStopSound
<1>3. /\ u \in Tcp /\ SameEvents(u, tcp) /\ u.state = tcp.state
      /\ u.told = tcp.told /\ u.inform = tcp.inform
      /\ u.disorder = tcp.disorder /\ u.writes = tcp.writes
      /\ u.txing = tcp.txing /\ u.idleClosed = tcp.idleClosed
      /\ ~u.running
  BY <1>1 DEF Tcp, SameEvents
<1>4. tcp' = [r EXCEPT !.txing = FALSE, !.queue = 0]
  BY DEF MtStop
<1>5. conf.clisrv \/ tcp.state # "DISCONNECTED"
  BY ConfTypes DEF MtStop, StopsConnected
<1> HIDE DEF u
<1>6. Stoppable(u) /\ Awaited(u)
  BY <1>1, <1>3, SoundSame, SoundIsStoppable, AwaitedSame
<1>7. /\ tcp.state = "DISCONNECTED" => tcp.yev["open"] = "RUNNING"
      /\ conf.clisrv => tcp.yev["open"] # "none"
  BY <1>1, <1>5 DEF Waits, Marks
<1>8. tcp.state # "STOPPED" => Ending(u)
  BY <1>1, <1>3, <1>5, <1>6, <1>7 DEF Ending, Marks, SameEvents
<1>9. /\ Sound(r) /\ Awaited(r) /\ Waits(r) /\ Marks(r) /\ Off(r)
      /\ ~r.running
      /\ r.state \in {"STOPPED", "DISCONNECTED", "WAIT_STOPPED"}
      /\ r.yev["read"] # "IDLE"
  <2>1. CASE tcp.state # "STOPPED"
    BY <1>3, <1>8, <2>1, TryToStopAlive
  <2>2. CASE tcp.state = "STOPPED"
    <3>1. r = u
      BY <1>3, <2>2 DEF TryToStop
    <3>2. Sound(u) /\ conf.clisrv
      BY <1>1, <1>3, <2>2, SoundSame DEF Waits
    <3>3. Waits(u) /\ Marks(u) /\ Off(u)
      BY <1>1, <1>3, <2>2, <3>2
         DEF Waits, Marks, Off, Serves, Cancels, SameEvents
    <3> HIDE DEF r
    <3> QED
      BY <1>3, <1>6, <2>2, <3>1, <3>2, <3>3 DEF SameEvents
  <2> QED
    BY <2>1, <2>2
<1> HIDE DEF r
<1>10. /\ SameEvents(tcp', r) /\ tcp'.state = r.state
       /\ tcp'.writes = r.writes /\ tcp'.inform = r.inform
       /\ tcp'.idleClosed = r.idleClosed /\ tcp'.timer = r.timer
       /\ ~tcp'.running /\ ~tcp'.txing /\ tcp'.queue = 0
  BY <1>4, <1>9 DEF Sound, Tcp, SameEvents
<1>11. Awaited(tcp')
  BY <1>9, <1>10, AwaitedSame
<1>12. Waits(tcp') /\ Marks(tcp') /\ Off(tcp')
  BY <1>9, <1>10 DEF Waits, Marks, Off, Serves, Cancels, SameEvents
<1> QED
  BY <1>2, <1>9, <1>10, <1>11, <1>12 DEF Alive, Rests, SameEvents

LEMMA EnqueueDoes ==
  ASSUME NEW s \in Tcp
  PROVE  LET r == Enqueue(s)
         IN  /\ r \in Tcp /\ SameEvents(r, s) /\ r.state = s.state
             /\ r.told = s.told /\ r.inform = s.inform
             /\ r.disorder = s.disorder /\ r.writes = s.writes
             /\ r.txing = s.txing /\ r.running = s.running
             /\ r.idleClosed = s.idleClosed /\ r.timer = s.timer
BY EnqueueTypes DEF Enqueue, Tcp, SameEvents

\* The events from above
LEMMA FromAboveAlive ==
  ASSUME conf \in Models, Alive(tcp), FromAbove
  PROVE  Alive(tcp') /\ Follows(tcp', tcp)
<1>1. /\ tcp \in Tcp /\ Sound(tcp) /\ Awaited(tcp) /\ Marks(tcp) /\ Waits(tcp)
      /\ tcp.running \/ tcp.state # "DISCONNECTED"
  BY DEF Alive, Sound, FromAbove
<1> DEFINE q == Enqueue(tcp)
<1>2. /\ q \in Tcp /\ SameEvents(q, tcp) /\ q.state = tcp.state
      /\ q.told = tcp.told /\ q.inform = tcp.inform
      /\ q.disorder = tcp.disorder /\ q.writes = tcp.writes
      /\ q.txing = tcp.txing /\ q.running = tcp.running
      /\ q.idleClosed = tcp.idleClosed
  BY <1>1, EnqueueDoes
<1> HIDE DEF q
<1>3. Sound(q) /\ Awaited(q) /\ Marks(q) /\ Follows(q, tcp)
  BY <1>1, <1>2, SoundSame, AwaitedSame
     DEF Marks, Cancels, SameEvents, Follows
<1>4. \/ tcp.state \in {"WAIT_CONNECTED", "WAIT_HANDSHAKE"}
      \/ tcp.state = "CONNECTED" /\ tcp.txing
      => Alive(q)
  BY <1>1, <1>2, <1>3 DEF Alive, Waits, Rests, Off, Serves, SameEvents
<1>5. CASE SendDisconnected
  <2> tcp.running /\ tcp.state = "DISCONNECTED"
    BY <1>1, <1>5 DEF SendDisconnected
  <2>1. CASE conf.idle
    <3> DEFINE t == ClearTimeout(q)
    <3>1. /\ t \in Tcp /\ SameEvents(t, q)
          /\ t.state = "DISCONNECTED" /\ t.state = q.state
          /\ t.told = q.told /\ t.inform = q.inform
          /\ t.disorder = q.disorder /\ t.writes = q.writes
          /\ t.txing = q.txing /\ t.running = q.running
          /\ t.idleClosed = q.idleClosed
      BY <1>2, <1>5 DEF SendDisconnected, ClearTimeout, Tcp, SameEvents
    <3>2. \E ok \in BOOLEAN : tcp' = Connect(t, ok)
      BY <1>5, <2>1 DEF SendDisconnected, q
    <3> HIDE DEF t
    <3>3. Sound(t) /\ Awaited(t) /\ Marks(t) /\ Follows(t, tcp)
      BY <1>3, <3>1, SoundSame, AwaitedSame
         DEF Marks, Cancels, SameEvents, Follows
    <3>4. Places(t.cq, "open") = {} /\ ~conf.clisrv
      <4>1. t.cq = tcp.cq
        BY <1>2, <3>1 DEF SameEvents
      <4>2. Places(tcp.cq, "open") = {}
        BY <1>5, <2>1, NoneOldMeans DEF SendDisconnected
      <4> QED
        BY <2>1, <4>1, <4>2, ConfTypes
    <3>5. Alive(tcp') /\ Follows(tcp', t)
      BY <1>1, <1>2, <3>1, <3>2, <3>3, <3>4, ConnectAlive
    <3> QED
      BY <3>3, <3>5 DEF Follows
  <2>2. CASE ~conf.idle
    BY <1>5, <2>2 DEF SendDisconnected, Follows
  <2> QED
    BY <2>1, <2>2
<1>6. CASE SendQueued
  BY <1>3, <1>4, <1>6 DEF SendQueued, q, Follows
<1>7. CASE SendConnected
  <2> DEFINE t == [tcp EXCEPT !.txing = TRUE]
  <2>1. /\ t \in Tcp /\ SameEvents(t, tcp) /\ t.state = tcp.state
        /\ t.told = tcp.told /\ t.inform = tcp.inform
        /\ t.disorder = tcp.disorder /\ t.running = tcp.running
        /\ t.idleClosed = tcp.idleClosed /\ t.txing
        /\ tcp.state = "CONNECTED"
    BY <1>1, <1>7 DEF SendConnected, Tcp, SameEvents
  <2>2. \/ tcp' = q /\ tcp.txing
        \/ \E ok \in BOOLEAN : tcp' = WriteData(t, ok)
    BY <1>7 DEF SendConnected, q
  <2> HIDE DEF t
  <2>3. Linked(t) /\ Follows(t, tcp)
    BY <2>1, AliveLinked, LinkedSame DEF Follows, SameEvents
  <2>4. CASE tcp' = q /\ tcp.txing
    BY <1>3, <1>4, <2>1, <2>4
  <2>5. CASE \E ok \in BOOLEAN : tcp' = WriteData(t, ok)
    <3>1. Alive(tcp') /\ Follows(tcp', t)
      BY <2>1, <2>3, <2>5, WriteDataAlive
    <3> QED
      BY <2>3, <3>1 DEF Follows
  <2> QED
    BY <2>2, <2>4, <2>5
<1>8. CASE ConnectNow
  BY <1>1, <1>8, NoneOldMeans, ConnectAlive DEF ConnectNow
<1> QED
  BY <1>5, <1>6, <1>7, <1>8 DEF FromAbove

LEMMA TimeoutAlive ==
  ASSUME conf \in Models, Alive(tcp), Untimed(tcp), Timeout
  PROVE  Alive(tcp') /\ Follows(tcp', tcp)
<1> DEFINE s == [tcp EXCEPT !.timer = FALSE]
           t == [s EXCEPT !.idleClosed = TRUE]
<1>1. tcp \in Tcp /\ Sound(tcp) /\ Awaited(tcp) /\ Marks(tcp) /\ tcp.timer
      /\ Waits(tcp) /\ Rests(tcp) /\ ~conf.clisrv
  BY DEF Alive, Sound, Timeout, Untimed
<1>2. /\ s \in Tcp /\ SameEvents(s, tcp) /\ s.state = tcp.state
      /\ s.told = tcp.told /\ s.inform = tcp.inform
      /\ s.disorder = tcp.disorder /\ s.writes = tcp.writes
      /\ s.txing = tcp.txing /\ s.queue = tcp.queue
      /\ s.running = tcp.running /\ s.idleClosed = tcp.idleClosed
      /\ ~s.timer
  BY <1>1 DEF Tcp, SameEvents
<1>3. /\ t \in Tcp /\ SameEvents(t, tcp) /\ t.state = tcp.state
      /\ t.told = tcp.told /\ t.inform = tcp.inform
      /\ t.disorder = tcp.disorder /\ t.writes = tcp.writes
      /\ t.txing = tcp.txing /\ t.queue = tcp.queue
      /\ t.running = tcp.running
  BY <1>1 DEF Tcp, SameEvents
<1>4. \/ /\ tcp.state = "DISCONNECTED" /\ NoneOldInRing
         /\ \E ok \in BOOLEAN : tcp' = Connect(s, ok)
      \/ tcp.state = "CONNECTED" /\ tcp' = TryToStop(t)
      \/ tcp.state \notin {"DISCONNECTED", "CONNECTED"} /\ tcp' = s
  BY DEF Timeout
<1> HIDE DEF s, t
<1>5. /\ Sound(s) /\ Awaited(s) /\ Marks(s) /\ Follows(s, tcp)
  BY <1>1, <1>2, SoundSame, AwaitedSame
     DEF Marks, Cancels, SameEvents, Follows
<1>6. CASE tcp.state = "DISCONNECTED"
  <2>1. s.running /\ Places(s.cq, "open") = {}
    BY <1>1, <1>2, <1>4, <1>6, NoneOldMeans
       DEF Rests, Off, Serves, SameEvents
  <2>2. Alive(tcp') /\ Follows(tcp', s)
    BY <1>1, <1>2, <1>4, <1>5, <1>6, <2>1, ConnectAlive
  <2> QED
    BY <1>5, <2>2 DEF Follows
<1>7. CASE tcp.state = "CONNECTED"
  <2>1. t.inform /\ t.running
    BY <1>1, <1>3, <1>7 DEF Sound, PhaseInd, Told, Rests, Off, Serves
  <2>2. Stoppable(t) /\ Awaited(t)
    BY <1>1, <1>3, SoundSame, SoundIsStoppable, AwaitedSame
  <2>3. Ending(t)
    BY <1>1, <1>3, <1>7, <2>1, <2>2 DEF Ending
  <2>4. Alive(TryToStop(t)) /\ Follows(TryToStop(t), t)
    BY <2>1, <2>3, EndsAlive DEF Serves
  <2> QED
    BY <1>3, <1>4, <1>7, <2>4 DEF Follows, SameEvents
<1>8. CASE tcp.state \notin {"DISCONNECTED", "CONNECTED"}
  <2>1. Alive(s)
    BY <1>1, <1>2, <1>5, <1>8
       DEF Alive, Waits, Rests, Off, Serves, Cancels, SameEvents
  <2> QED
    BY <1>4, <1>5, <1>8, <2>1
<1> QED
  BY <1>6, <1>7, <1>8

LEMMA CompletesAlive ==
  ASSUME conf \in Models, Alive(tcp), AcceptsSucceed,
         NEW e \in Events, NEW res \in Results, Completes(e, res)
  PROVE  Alive(tcp') /\ Follows(tcp', tcp)
<1> DEFINE c == [ev |-> e, res |-> res]
           r == [tcp EXCEPT !.armed = @ \ {e}, !.cq = Append(@, c)]
<1>1. tcp' = r
  BY DEF Completes
<1>2. tcp \in Tcp /\ Sound(tcp) /\ Awaited(tcp) /\ c \in Done
  BY DEF Alive, Sound, Done
<1>3. Sound(r)
  BY <1>1, <1>2, CompletesSound DEF AcceptsSucceed
<1>4. /\ r.yev = tcp.yev /\ r.armed = tcp.armed \ {e}
      /\ r.cq = Append(tcp.cq, c)
      /\ r.state = tcp.state /\ r.writes = tcp.writes
      /\ r.txing = tcp.txing /\ r.queue = tcp.queue
      /\ r.running = tcp.running /\ r.idleClosed = tcp.idleClosed
      /\ r.inform = tcp.inform /\ r.timer = tcp.timer
  BY <1>2 DEF Tcp
<1>5. c.ev = e
  OBVIOUS
<1> HIDE DEF r, c
<1>6. \A f \in Events :
        /\ Places(tcp.cq, f) # {} => Places(r.cq, f) # {}
        /\ Erring(tcp, f) # {} => Erring(r, f) # {}
        /\ f = e => Places(r.cq, f) # {}
  <2>1. ASSUME NEW f \in Events
        PROVE  /\ Places(tcp.cq, f) # {} => Places(r.cq, f) # {}
               /\ Erring(tcp, f) # {} => Erring(r, f) # {}
               /\ c.ev = f => Places(r.cq, f) # {}
    <3>1. tcp \in Tcp /\ c \in Done /\ r.cq = Append(tcp.cq, c)
      BY ONLY <1>2, <1>4
    <3> QED
      BY ONLY <2>1, <3>1, ErringAppend
  <2> QED
    BY ONLY <1>5, <2>1
<1>7. Awaited(r)
  BY <1>2, <1>4, <1>6 DEF Awaited, Awaits
<1>8. Alive(r)
  BY <1>3, <1>4, <1>7, AliveSame
<1> QED
  BY <1>1, <1>4, <1>8 DEF Follows

\* Inside the callback of a read, in the handshake or in ST_CONNECTED
LEMMA ReadCallbackAlive ==
  ASSUME conf \in Models, ~ReaderRefuses, NEW s, Alive(s),
         s.yev["read"] = "IDLE", ReadCallback(s)
  PROVE  Alive(tcp') /\ tcp'.yev["read"] # "IDLE"
<1> DEFINE t == SetInactivityTimeout(s)
<1>1. s.state \in {"WAIT_HANDSHAKE", "CONNECTED"} /\ Serves(s)
  BY DEF Alive, Sound, PhaseInd, Rests, Off
<1>2. Alive(t) /\ t.yev = s.yev /\ t.state = s.state /\ Serves(t)
  BY <1>1, InactivityAlive DEF Serves
<1>3. \/ /\ s.state = "WAIT_HANDSHAKE"
         /\ \/ \E n \in 0..1 : tcp' = Rearm([t EXCEPT !.writes = @ + n])
            \/ \E ok \in BOOLEAN : tcp' = Rearm(Established(t, ok))
      \/ /\ s.state = "CONNECTED"
         /\ tcp' = Rearm(Receive(t)) \/ tcp' = Rearm(TryToStop(Receive(t)))
      \/ tcp' = TryToStop(t)
  BY <1>1 DEF ReadCallback
<1> HIDE DEF t
<1>4. /\ t \in Tcp /\ Sound(t) /\ RingInd(t) /\ PhaseInd(t) /\ Told(t)
      /\ Awaited(t) /\ Marks(t)
  BY <1>2 DEF Alive, Sound, PhaseInd
<1>5. CASE tcp' = TryToStop(t)
  <2>1. Alive(TryToStop(t))
    BY <1>1, <1>2, AliveEnds
  <2>2. TryToStop(t).yev["read"] # "IDLE"
    BY <1>1, <1>2, <1>4, AliveEnds, TryToStopAlive
  <2> QED
    BY <1>5, <2>1, <2>2
<1>6. CASE s.state = "WAIT_HANDSHAKE"
  <2>1. /\ t.told = "down" /\ ~t.txing /\ t.yev["open"] # "RUNNING"
        /\ ~Cancels(t) /\ ~t.idleClosed
        /\ conf.clisrv => t.yev["open"] # "none"
    BY <1>2, <1>4, <1>6 DEF PhaseInd, Marks
  <2>2. \A ok : Alive(Established(t, ok))
    BY <1>1, <1>2, <1>4, <2>1, EstablishedAlive
  <2>3. ASSUME NEW n \in 0..1
        PROVE  Alive([t EXCEPT !.writes = @ + n])
    <3> DEFINE u == [t EXCEPT !.writes = @ + n]
    <3>1. t.writes + n \in Nat
      BY <1>4 DEF Tcp
    <3>2. /\ u \in Tcp /\ SameEvents(u, t) /\ u.state = t.state
          /\ u.told = t.told /\ u.inform = t.inform
          /\ u.disorder = t.disorder /\ u.txing = t.txing
          /\ u.running = t.running /\ u.idleClosed = t.idleClosed
          /\ u.queue = t.queue
      BY <1>4, <3>1 DEF Tcp, SameEvents
    <3> HIDE DEF u
    <3>3. RingInd(u) /\ Awaited(u)
      BY <1>4, <3>2, RingSame, AwaitedSame
    <3>4. PhaseInd(u)
      BY <1>2, <1>4, <1>6, <3>2 DEF PhaseInd, Told, SameEvents
    <3>5. Alive(u)
      BY <1>2, <1>6, <2>1, <3>2, <3>3, <3>4
         DEF Alive, Sound, Waits, Rests, Off, Serves, Marks, Cancels, SameEvents
    <3> QED
      BY <3>5 DEF u
  <2>4. CASE \E n \in 0..1 : tcp' = Rearm([t EXCEPT !.writes = @ + n])
    BY <2>3, <2>4, RearmAlive
  <2> QED
    BY <1>3, <1>5, <1>6, <2>2, <2>4, RearmAlive
<1>7. CASE s.state = "CONNECTED"
  <2>1. Alive(Receive(t)) /\ Receive(t).state = "CONNECTED"
    BY <1>2, <1>7, ReceiveAlive
  <2>2. Alive(TryToStop(Receive(t)))
    BY <2>1, AliveEnds
  <2> QED
    BY <1>3, <1>5, <1>7, <2>1, <2>2, RearmAlive
<1> QED
  BY <1>1, <1>6, <1>7

\* callback_cqe() and yev_callback() for the connect, the accept and the read
LEMMA ReapAlive ==
  ASSUME conf \in Models, ~ReaderRefuses, Alive(tcp),
         tcp.yev["read"] # "IDLE", Reap
  PROVE  Alive(tcp') /\ tcp'.yev["read"] # "IDLE"
<1> DEFINE c == Head(tcp.cq)
           s == Taken(tcp)
           calls == CallsBack(tcp.yev[c.ev], c.res)
<1>1. /\ tcp \in Tcp /\ Sound(tcp) /\ RingInd(tcp) /\ PhaseInd(tcp)
      /\ Awaited(tcp) /\ Marks(tcp) /\ Rests(tcp) /\ tcp.cq # <<>>
  BY ReapIs DEF Alive, Sound
<1>2. /\ SameButEvents(s, tcp)
      /\ s.yev[c.ev] = Reaped(tcp.yev[c.ev], c.ev, c.res)
      /\ \A f \in Events \ {c.ev} : s.yev[f] = tcp.yev[f]
  BY <1>1, RingTaken
<1>3. /\ Sound(s) /\ c \in Done
      /\ tcp.yev[c.ev] = "RUNNING" /\ c.ev = "open" =>
           /\ tcp.state \in {"DISCONNECTED", "STOPPED", "WAIT_CONNECTED"}
           /\ Places(s.cq, "read") = {}
      /\ s.yev[c.ev] = "IDLE" /\ calls => tcp.yev[c.ev] = "RUNNING"
  BY <1>1, TakenSound
<1>4. Awaited(s) /\ (~calls => \A e \in Events : s.yev[e] = tcp.yev[e])
  BY <1>1, TakenAwaited
<1>5. c.ev \in Events
  BY <1>3 DEF Done
<1>6. \/ tcp' = s /\ ~calls
      \/ calls /\ c.ev = "open" /\ OpenCallback(s)
      \/ calls /\ c.ev # "open" /\ ReadCallback(s)
  BY ReapIs
<1>7. 1 \in Places(tcp.cq, c.ev) /\ tcp.cq[1] = c
  BY <1>1, <1>5, PlacesTail DEF Tcp
<1>8. calls => \/ tcp.yev[c.ev] = "RUNNING"
               \/ tcp.yev[c.ev] = "CANCELING" /\ c.res = "error"
  BY DEF CallsBack
<1> HIDE DEF calls, c, s
<1>9. Stoppable(s) /\ (Serves(s) \/ s.queue = 0)
  BY <1>1, <1>2, <1>3, SoundIsStoppable DEF Rests, Serves, SameButEvents
<1>10. s.idleClosed => ~conf.clisrv /\ s.inform
  BY <1>1, <1>2 DEF Marks, SameButEvents
<1>11. CASE tcp' = s /\ ~calls
  <2>1. Alive(s)
    BY <1>2, <1>3, <1>4, <1>11, AliveSame DEF SameButEvents
  <2> QED
    BY <1>4, <1>11, <2>1 DEF Events
<1>12. CASE calls /\ c.ev = "open" /\ OpenCallback(s)
  <2>1. s.yev["read"] = tcp.yev["read"]
    BY <1>2, <1>12 DEF Events
  <2>2. CASE s.yev["open"] = "IDLE"
    <3>1. tcp.yev["open"] = "RUNNING"
      BY <1>3, <1>12, <2>2
    <3>2. /\ tcp.state \in {"DISCONNECTED", "STOPPED", "WAIT_CONNECTED"}
          /\ Places(s.cq, "read") = {}
      BY <1>3, <1>12, <3>1
    <3>3. Serves(tcp) /\ ~tcp.idleClosed /\ ~Cancels(tcp)
      BY <1>1, <3>1, <3>2 DEF Rests, Off, Marks
    <3>4. ~Cancels(s)
      BY <2>1, <2>2, <3>3 DEF Cancels, Events
    <3>5. \E ok \in BOOLEAN : tcp' = SetConnected(s, ok)
      BY <1>12, <2>2 DEF OpenCallback
    <3>6. Alive(tcp') /\ Follows(tcp', s)
      BY <1>2, <1>3, <1>4, <2>2, <3>2, <3>3, <3>4, <3>5, SetConnectedAlive
         DEF Serves, SameButEvents
    <3> QED
      BY <2>1, <3>6 DEF Follows
  <2>3. CASE s.yev["open"] # "IDLE"
    <3>1. tcp' = TryToStop(s)
      BY <1>12, <2>3 DEF OpenCallback
    <3>2. CASE tcp.yev["open"] = "RUNNING"
      <4>1. c.res = "error"
        BY <1>2, <1>12, <2>3, <3>2 DEF Reaped
      <4>2. ~conf.clisrv
        BY <1>1, <1>7, <1>12, <3>2, <4>1 DEF RingInd, AcceptEnds
      <4>3. s.state = "WAIT_CONNECTED"
        BY <1>1, <1>2, <3>2, <4>2 DEF PhaseInd, SameButEvents
      <4>4. Ending(s)
        BY <1>4, <1>9, <1>10, <4>2, <4>3 DEF Ending
      <4> QED
        BY <1>9, <3>1, <4>4, EndsAlive, TryToStopAlive
    <3>3. CASE tcp.yev["open"] = "CANCELING" /\ c.res = "error"
      <4>1. s.state = "WAIT_STOPPED"
        BY <1>1, <1>2, <3>3 DEF Marks, Cancels, Events, SameButEvents
      <4>2. s.yev["open"] = "STOPPED"
        BY <1>2, <1>12, <3>3 DEF Reaped
      <4>3. Ending(s)
        BY <1>4, <1>9, <1>10, <4>1, <4>2 DEF Ending
      <4> QED
        BY <1>9, <3>1, <4>3, EndsAlive, TryToStopAlive
    <3> QED
      BY <1>8, <1>12, <3>2, <3>3
  <2> QED
    BY <2>2, <2>3
<1>13. CASE calls /\ c.ev # "open" /\ ReadCallback(s)
  <2>1. c.ev = "read" /\ s.yev["open"] = tcp.yev["open"]
    BY <1>2, <1>5, <1>13 DEF Events
  <2>2. CASE s.yev["read"] = "IDLE"
    <3>1. tcp.yev["read"] = "RUNNING"
      BY <1>3, <1>13, <2>1, <2>2
    <3>2. tcp.state \in {"WAIT_HANDSHAKE", "CONNECTED"}
      BY <1>1, <3>1 DEF PhaseInd
    <3>3. ~Cancels(tcp) /\ ~tcp.idleClosed
      BY <1>1, <3>2 DEF Marks
    <3>4. ~Cancels(s)
      BY <2>1, <2>2, <3>3 DEF Cancels, Events
    <3>5. Waits(tcp) /\ Serves(tcp)
      BY <1>1, <3>2 DEF Alive, Rests, Off
    <3>6. Alive(s)
      BY <1>1, <1>2, <1>3, <1>4, <2>1, <2>2, <3>2, <3>3, <3>4, <3>5
         DEF Alive, Waits, Rests, Off, Serves, Marks, SameButEvents
    <3> QED
      BY <1>13, <2>2, <3>6, ReadCallbackAlive
  <2>3. CASE s.yev["read"] # "IDLE"
    <3>1. tcp' = TryToStop(s)
      BY <1>13, <2>3 DEF ReadCallback
    <3>2. s.state \in {"WAIT_HANDSHAKE", "CONNECTED", "WAIT_STOPPED"}
      BY <1>1, <1>2, <1>8, <1>13, <2>1
         DEF PhaseInd, Marks, Cancels, Events, SameButEvents
    <3>3. conf.clisrv => s.yev["open"] # "none"
      BY <1>1, <1>2, <2>1, <3>2 DEF Marks, SameButEvents
    <3>4. Ending(s)
      BY <1>4, <1>9, <1>10, <3>2, <3>3 DEF Ending
    <3> QED
      BY <1>9, <3>1, <3>4, EndsAlive, TryToStopAlive
  <2> QED
    BY <2>2, <2>3
<1> QED
  BY <1>6, <1>11, <1>12, <1>13

LEMMA WriteEndsAlive ==
  ASSUME conf \in Models, Alive(tcp), tcp.yev["read"] # "IDLE",
         WriteDone \/ WriteFails
  PROVE  Alive(tcp') /\ tcp'.yev["read"] # "IDLE"
<1> DEFINE s == [tcp EXCEPT !.writes = @ - 1]
           t == SetInactivityTimeout(s)
<1>1. /\ tcp \in Tcp /\ Sound(tcp) /\ PhaseInd(tcp) /\ Awaited(tcp)
      /\ Marks(tcp) /\ Rests(tcp) /\ Waits(tcp) /\ tcp.writes > 0
  BY DEF Alive, Sound, WriteDone, WriteFails
<1>2. tcp.writes \in Nat \ {0} /\ tcp.writes - 1 \in Nat
  BY <1>1 DEF Tcp
<1>3. tcp.state \in {"WAIT_HANDSHAKE", "CONNECTED", "WAIT_STOPPED"}
  <2>1. tcp.state \in States
    BY <1>1 DEF Tcp
  <2> QED
    BY <1>2, <1>1, <2>1 DEF PhaseInd, Quiet, States
<1>4. /\ s \in Tcp /\ SameEvents(s, tcp) /\ s.state = tcp.state
      /\ s.told = tcp.told /\ s.inform = tcp.inform
      /\ s.disorder = tcp.disorder /\ s.txing = tcp.txing
      /\ s.running = tcp.running /\ s.queue = tcp.queue
      /\ s.idleClosed = tcp.idleClosed
  BY <1>1, <1>2 DEF Tcp, SameEvents
<1>5. \/ tcp' = TryToStop(s)
      \/ tcp.running /\ tcp.state = "WAIT_STOPPED" /\ tcp' = TryToStop(t)
      \/ tcp.running /\ tcp.state = "WAIT_HANDSHAKE" /\ tcp' = t
      \/ /\ tcp.running /\ tcp.state = "CONNECTED"
         /\ \E ok \in BOOLEAN : tcp' = TryMoreWrites(t, ok)
  BY <1>3, <1>4 DEF WriteDone, WriteFails
<1>6. /\ t \in Tcp /\ SameEvents(t, s) /\ t.state = s.state
      /\ t.told = s.told /\ t.inform = s.inform
      /\ t.disorder = s.disorder /\ t.txing = s.txing
      /\ t.running = s.running /\ t.queue = s.queue
      /\ t.idleClosed = s.idleClosed /\ t.writes = s.writes
  <2>1. t \in Tcp
    BY <1>4, TimersTypes
  <2> HIDE DEF s
  <2>2. s \in Tcp /\ t = SetInactivityTimeout(s)
    BY <1>4
  <2> HIDE DEF t
  <2>3. /\ SameEvents(t, s) /\ t.state = s.state
        /\ t.told = s.told /\ t.inform = s.inform
        /\ t.disorder = s.disorder /\ t.txing = s.txing
        /\ t.running = s.running /\ t.queue = s.queue
        /\ t.idleClosed = s.idleClosed /\ t.writes = s.writes
    BY ONLY <2>2 DEF SetInactivityTimeout, SetTimeout, Tcp, SameEvents
  <2> QED
    BY ONLY <2>1, <2>3
<1> HIDE DEF s, t
<1>7. Sound(s) /\ Sound(t)
  <2>1. RingInd(s)
    BY <1>1, <1>4, RingSame DEF Sound
  <2>2. PhaseInd(s)
    BY <1>1, <1>3, <1>4 DEF PhaseInd, Told, SameEvents
  <2>3. Sound(s)
    BY <1>4, <2>1, <2>2 DEF Sound
  <2> QED
    BY <1>6, <2>3, SoundSame
<1>8. /\ Awaited(s) /\ Awaited(t) /\ Marks(s) /\ Marks(t)
  BY <1>1, <1>4, <1>6, AwaitedSame DEF Marks, Cancels, SameEvents
<1>9. Ending(s) /\ Ending(t)
  BY <1>3, <1>4, <1>6, <1>7, <1>8, SoundIsStoppable DEF Ending, Marks
<1>10. ASSUME NEW r, Ending(r), r.running = tcp.running, r.queue = tcp.queue
       PROVE  Alive(TryToStop(r)) /\ TryToStop(r).yev["read"] # "IDLE"
  BY <1>1, <1>10, EndsAlive, TryToStopAlive DEF Rests, Serves
<1>11. /\ Alive(TryToStop(s)) /\ TryToStop(s).yev["read"] # "IDLE"
       /\ Alive(TryToStop(t)) /\ TryToStop(t).yev["read"] # "IDLE"
  BY <1>4, <1>6, <1>9, <1>10
<1>12. CASE tcp.running /\ tcp.state = "WAIT_HANDSHAKE" /\ tcp' = t
  <2>1. Alive(t)
    BY <1>1, <1>4, <1>6, <1>7, <1>8, <1>12
       DEF Alive, Waits, Rests, Off, Serves, SameEvents
  <2> QED
    BY <1>4, <1>6, <1>12, <2>1 DEF SameEvents
<1>13. CASE /\ tcp.running /\ tcp.state = "CONNECTED"
            /\ \E ok \in BOOLEAN : tcp' = TryMoreWrites(t, ok)
  <2>1. t.yev["read"] = "RUNNING"
    BY <1>1, <1>4, <1>6, <1>13 DEF Waits, SameEvents
  <2>2. Linked(t)
    BY <1>4, <1>6, <1>7, <1>8, <1>13, <2>1 DEF Linked, Serves
  <2>3. Alive(tcp') /\ Follows(tcp', t)
    BY <1>13, <2>2, MoreWritesAlive
  <2> QED
    BY <2>1, <2>3 DEF Follows
<1> QED
  BY <1>5, <1>11, <1>12, <1>13

-----------------------------------------------------------------------------
(* A running connection always has something to wake it up.  Between two   *)
(* handlers no read is left idle, unless a reader's error kept it from     *)
(* being armed again (ReaderRefuses).                                      *)

AwakeInd == TcpInd /\ (~strayed => Alive(tcp) /\ tcp.yev["read"] # "IDLE")

LEMMA AwakeStarts ==
  ASSUME Init
  PROVE  AwakeInd
<1>1. TcpInd
  BY TcpStarts
<1>2. /\ tcp.yev["open"] = "none" /\ tcp.yev["read"] = "none"
      /\ tcp.state = "DISCONNECTED" /\ ~tcp.running /\ tcp.queue = 0
      /\ ~tcp.timer /\ ~tcp.idleClosed
  BY DEF Init, Events
<1>3. Awaited(tcp)
  BY <1>2 DEF Awaited, Awaits, Events
<1>4. Waits(tcp) /\ Rests(tcp) /\ Marks(tcp)
  BY <1>2 DEF Waits, Rests, Off, Serves, Marks, Cancels, Events
<1> QED
  BY <1>1, <1>2, <1>3, <1>4 DEF AwakeInd, Alive, TcpInd

LEMMA AwakeStep ==
  ASSUME AcceptsSucceed, StopsConnected, ~ReaderRefuses, AwakeInd, [Next]_vars
  PROVE  AwakeInd'
<1>0. TcpInd /\ TcpInd'
  BY TcpStep DEF AwakeInd
<1> SUFFICES ASSUME ~strayed'
             PROVE  (Alive(tcp) /\ tcp.yev["read"] # "IDLE")'
  BY <1>0 DEF AwakeInd
<1>1. /\ conf \in Models /\ Untimed(tcp) /\ Alive(tcp)
      /\ tcp.yev["read"] # "IDLE"
  BY <1>0, NoStrays DEF AwakeInd
<1>2. conf' = conf /\ ~StrayAccepts
  BY <1>0, NoStrays
<1>3. Sound(tcp)'
  BY <1>0 DEF TcpInd
<1>4. Alive(tcp') /\ tcp'.yev["read"] # "IDLE"
  <2>1. CASE MtStart
    BY <1>1, <2>1, MtStartAlive
  <2>2. CASE MtStop
    BY <1>1, <2>2, MtStopAlive
  <2>3. CASE FromAbove
    BY <1>1, <2>3, FromAboveAlive DEF Follows
  <2>4. CASE Drop
    <3>1. tcp.state \notin {"STOPPED", "DISCONNECTED"}
      BY <2>4 DEF Drop, Droppable
    <3>2. tcp' = TryToStop(tcp)
      BY <2>4 DEF Drop
    <3> QED
      BY <1>1, <3>1, <3>2, AliveEnds DEF Follows
  <2>5. CASE Timeout
    BY <1>1, <2>5, TimeoutAlive DEF Follows
  <2>6. ASSUME NEW e \in Events, NEW res \in Results, Completes(e, res)
        PROVE  Alive(tcp') /\ tcp'.yev["read"] # "IDLE"
    BY <1>1, <2>6, CompletesAlive DEF Follows
  <2>7. CASE Reap
    BY <1>1, <2>7, ReapAlive
  <2>8. CASE WriteDone \/ WriteFails
    BY <1>1, <2>8, WriteEndsAlive
  <2>9. CASE WritePart
    BY <1>1, <2>9, InactivityAlive DEF WritePart, Serves, Follows
  <2>10. CASE UNCHANGED vars
    BY <1>1, <2>10 DEF vars
  <2> QED
    BY <1>2, <2>1, <2>2, <2>3, <2>4, <2>5, <2>6, <2>7, <2>8, <2>9, <2>10
       DEF Next
<1>5. /\ Awaited(tcp') /\ Waits(tcp') /\ Off(tcp') /\ Marks(tcp')
      /\ Serves(tcp') \/ tcp'.queue = 0
  BY <1>4 DEF Alive, Rests
<1>6. Awaited(tcp)'
  BY <1>5 DEF Awaited, Awaits, Erring, Places
<1>7. Waits(tcp)'
  BY <1>2, <1>5 DEF Waits, Cancels
<1>8. Rests(tcp)'
  BY <1>2, <1>5 DEF Rests, Off, Serves
<1>9. Marks(tcp)'
  BY <1>2, <1>5 DEF Marks, Cancels
<1> QED
  BY <1>3, <1>4, <1>6, <1>7, <1>8, <1>9 DEF Alive

\* What each state waits for is there.
LEMMA AwakeWakesUp ==
  ASSUME AwakeInd
  PROVE  NeverStalled
<1> SUFFICES ASSUME tcp.running, ~strayed
             PROVE  WakeUp
  BY DEF NeverStalled
<1>1. /\ Awaited(tcp) /\ Waits(tcp) /\ tcp \in Tcp /\ tcp.state \in States
      /\ tcp.yev["read"] # "IDLE"
  BY DEF AwakeInd, Alive, Sound, Tcp
<1>2. \A e \in Events : tcp.yev[e] = "RUNNING" => Busy(e)
  BY <1>1 DEF Awaited, Awaits, Places, Busy
<1>3. \A e \in Events : tcp.yev[e] = "CANCELING" => Busy(e)
  BY <1>1 DEF Awaited, Awaits, Erring, Places, Busy
<1>4. "open" \in Events /\ "read" \in Events
  BY DEF Events
<1>5. CASE tcp.state = "DISCONNECTED"
  BY <1>1, <1>2, <1>4, <1>5 DEF Waits, WakeUp
<1>6. CASE tcp.state = "WAIT_CONNECTED"
  BY <1>1, <1>2, <1>4, <1>6 DEF Waits, WakeUp
<1>7. CASE tcp.state = "WAIT_HANDSHAKE"
  BY <1>1, <1>2, <1>4, <1>7 DEF Waits, WakeUp
<1>8. CASE tcp.state = "CONNECTED"
  BY <1>1, <1>2, <1>4, <1>8 DEF Waits, WakeUp
<1>9. CASE tcp.state = "WAIT_STOPPED"
  BY <1>1, <1>3, <1>9 DEF Waits, Cancels, WakeUp
<1>10. CASE tcp.state = "STOPPED"
  BY <1>1, <1>2, <1>4, <1>10 DEF Waits, WakeUp
<1> QED
  BY <1>1, <1>5, <1>6, <1>7, <1>8, <1>9, <1>10 DEF States

(***************************************************************************)
(* A running connection always has something to wake it up, whatever is    *)
(* dropped, fails or is stopped and however a cancel crosses a completion: *)
(* a retry, an operation or a completion, or, in the inactivity model with *)
(* nothing to send, the next data; and what is queued has a write before   *)
(* it (set_disconnected, yev_callback, try_to_stop_yevents, mt_start).     *)
(* Three cases are taken out, each a constant of the model: an accept that *)
(* fails while a channel waits for a peer, a stop of a client between two  *)
(* connections, an EV_RX_DATA that returns an error; and a fourth by the   *)
(* property itself, a gobj that lost an accept.                            *)
(***************************************************************************)
THEOREM TcpNeverStalled ==
  ASSUME AcceptsSucceed, StopsConnected, ~ReaderRefuses
  PROVE  Spec => []NeverStalled
<1>1. AwakeInd /\ [Next]_vars => AwakeInd'
  BY AwakeStep
<1> QED
  BY <1>1, AwakeStarts, AwakeWakesUp, PTL DEF Spec
=============================================================================
