---------------------------- MODULE MqttSession ----------------------------
(***************************************************************************)
(* The queues of an MQTT session, modules/c/mqtt/src/c_prot_mqtt2.c and    *)
(* tr2q_mqtt.c: messages of QoS 1 and 2 from a sender to a receiver, both  *)
(* C_PROT_MQTT2, the sender in the broker or in the client.                *)
(*                                                                         *)
(* The sender stores a message as a row with a state, and holds at most    *)
(* MaxInflight of them inflight, the rest queued.  A row is settled by     *)
(* PUBACK, or by PUBREC and PUBCOMP.  The receiver passes on a message of  *)
(* QoS 1 as it comes; one of QoS 2 it holds, on disk too, until PUBREL.    *)
(*                                                                         *)
(* Rows and their states survive a connection and the process.  The        *)
(* message ids of the sender do not: its rows store none, and each         *)
(* connection gives new ones.  The receiver's rows store theirs.           *)
(***************************************************************************)
EXTENDS Naturals, Sequences, FiniteSets, SequencesExt

CONSTANTS
    Roles,              \* the sender is the broker (TRUE), the client, or both
    QosLevels,          \* a subset of {1, 2}
    MaxInflight,        \* max_inflight_messages of both, 0 = no limit
    MaxMid,             \* the last message id, 65535 in the code
    MaxMsgs,            \* bound: messages
    MaxFaults,          \* bound: closes, breaks and crashes
    BreaksInExchange,   \* the connection may end at any point of QoS 2
    CleanStarts,        \* clean_start of the first CONNECT of the session
    RoutesWhileClosing  \* the broker may route to a client that it is closing

ASSUME MqttAssumption ==
    /\ {Roles, CleanStarts} \subseteq SUBSET BOOLEAN
    /\ QosLevels \subseteq {1, 2}
    /\ {MaxInflight, MaxMsgs, MaxFaults} \subseteq Nat
    /\ MaxMid \in Nat \ {0}
    /\ {BreaksInExchange, RoutesWhileClosing} \subseteq BOOLEAN

Ids == 1..MaxMsgs

VARIABLES
    conf,       \* server: the sender is the broker; qos of each message
    accepted,   \* how many messages the sender was given
    out,        \* the sender, see Init
    in,         \* the receiver, see Init
    savedMid,   \* last_mid of the session in the broker's database
    cleanStart, \* the connection came with clean_start
    link,       \* which end closed it: ws_close() of the sender, or of the peer
    faults

vars == <<conf, accepted, out, in, savedMid, cleanStart, link, faults>>

Links == {"closed", "open", "senderCloses", "receiverCloses"}

\* The state of a row; "none" once it is settled, or before it exists
States == {"none", "invalid", "wait_for_puback", "wait_for_pubrec",
           "wait_for_pubcomp"}

Init ==
    /\ conf \in [server : Roles, qos : [Ids -> QosLevels]]
    /\ accepted = 0
    /\ out = [state |-> [id \in Ids |-> "none"],
              inflight |-> <<>>,    \* dl_inflight: [id, mid]
              queued |-> <<>>,      \* dl_queued
              lastMid |-> 0,
              packets |-> <<>>]     \* on their way to the receiver
    /\ in = [held |-> <<>>,         \* rows of QoS 2: [id, mid, row]
             rows |-> 0,            \* rows ever appended
             delivered |-> [id \in Ids |-> 0],
             packets |-> <<>>]      \* on their way to the sender
    /\ savedMid = 0
    /\ cleanStart \in CleanStarts
    /\ link = "closed"
    /\ faults = 0

Fault == faults < MaxFaults /\ faults' = faults + 1

-----------------------------------------------------------------------------
(* The sender's queue. *)

\* The elements of a set of naturals, from the least to the greatest
Ordered(S) ==
    [k \in 1..Cardinality(S) |->
       CHOOSE x \in S : Cardinality({y \in S : y <= x}) = k]

\* Mutant of MidAfter: the last id is not remembered.
MidAfterUnsaved(mid, n) == ((n - 1) % MaxMid) + 1

\* The n-th id of mqtt_mid_generate() after mid; 0 is no message id.
MidAfter(mid, n) == ((mid + n - 1) % MaxMid) + 1

Publish(id, mid, dup) ==
    [type |-> "PUBLISH", id |-> id, mid |-> mid, dup |-> dup]

Packet(type, mid) == [type |-> type, mid |-> mid]

\* Mutant of Room: one message too many.
RoomForOneMore(queue) == MaxInflight = 0 \/ Len(queue) <= MaxInflight

Room(queue) == MaxInflight = 0 \/ Len(queue) < MaxInflight

\* new_msg(): inflight if there is room, whatever is queued
NewMsg(s, id) ==
    IF Room(s.inflight)
    THEN [s EXCEPT !.inflight = Append(@, [id |-> id, mid |-> 0])]
    ELSE [s EXCEPT !.queued = Append(@, id)]

\* Mutant of Fill: dl_last() for dl_first().
FillFromTail(s) ==
    LET places == {i \in DOMAIN s.queued :
                     MaxInflight = 0 \/ Len(s.inflight) + i <= MaxInflight}
        n == Cardinality(places)
        q == Len(s.queued)
    IN  [s EXCEPT
            !.inflight = @ \o [i \in 1..n |-> [id |-> s.queued[q + 1 - i], mid |-> 0]],
            !.queued = SubSeq(@, 1, q - n)]

\* What is queued takes the places that are free, in its order.
Fill(s) ==
    LET places == {i \in DOMAIN s.queued :
                     MaxInflight = 0 \/ Len(s.inflight) + i <= MaxInflight}
        n == Cardinality(places)
    IN  [s EXCEPT
            !.inflight = @ \o [i \in 1..n |-> [id |-> s.queued[i], mid |-> 0]],
            !.queued = SubSeq(@, n + 1, Len(@))]

\* tr2q_load(): new_msg() for each pending row, in their order
Load(s) ==
    Fill([s EXCEPT !.inflight = <<>>,
                   !.queued = Ordered({id \in Ids : s.state[id] # "none"})])

\* Mutant of Resends: what waits for an answer is sent again at any time.
ResendsAlways(redeliver, state) ==
    state \in {"wait_for_puback", "wait_for_pubrec"}

Resends(redeliver, state) ==
    redeliver /\ state \in {"wait_for_puback", "wait_for_pubrec"}

\* The places of the messages that message__release_to_inflight() sends
Sends(s, redeliver) ==
    {i \in DOMAIN s.inflight :
       LET state == s.state[s.inflight[i].id]
       IN  \/ state = "invalid" \/ Resends(redeliver, state)
           \/ redeliver /\ state = "wait_for_pubcomp"}

\* Those of them that take a new message id
TakesMid(s, redeliver) ==
    {i \in Sends(s, redeliver) :
       s.state[s.inflight[i].id] = "wait_for_pubcomp" => s.inflight[i].mid = 0}

FirstWait(qos) == IF qos = 1 THEN "wait_for_puback" ELSE "wait_for_pubrec"

\* message__release_to_inflight(): in the order of the list
Release(s, redeliver) ==
    LET sends == Sends(s, redeliver)
        new == TakesMid(s, redeliver)
        mid(i) == IF i \in new
                  THEN MidAfter(s.lastMid, Cardinality({j \in new : j <= i}))
                  ELSE s.inflight[i].mid
        packet(i) ==
            LET id == s.inflight[i].id
            IN  IF s.state[id] = "wait_for_pubcomp" THEN Packet("PUBREL", mid(i))
                ELSE Publish(id, mid(i), s.state[id] # "invalid")
        sent == {s.inflight[i].id : i \in sends}
    IN  [s EXCEPT
            !.inflight = [i \in DOMAIN @ |-> [id |-> @[i].id, mid |-> mid(i)]],
            !.lastMid = IF new = {} THEN @ ELSE MidAfter(@, Cardinality(new)),
            !.packets = @ \o [k \in 1..Cardinality(sends) |->
                                 packet(Ordered(sends)[k])],
            !.state = [id \in Ids |-> IF id \in sent /\ @[id] = "invalid"
                                     THEN FirstWait(conf.qos[id]) ELSE @[id]]]

\* message__queue(), with tr2q_append()
Enqueue(s, id) == Release(NewMsg([s EXCEPT !.state[id] = "invalid"], id), FALSE)

\* Mutant of Refill: nothing takes the place of a settled message.
RefillNothing(s) == s

\* The broker moves queued messages to the places that are free; the client
\* does not.
Refill(s) == IF conf.server THEN Fill(s) ELSE s

\* tr2q_get_by_mid(): the first with that id
WithMid(list, mid) == {i \in DOMAIN list : list[i].mid = mid}

First(places) == CHOOSE i \in places : \A j \in places : i <= j

-----------------------------------------------------------------------------
(* Bound: without BreaksInExchange, a connection ends with no message held   *)
(* by the receiver, and at most one of QoS 2 sent and not known to be there. *)

Sent(s) == {id \in Ids : s.state[id] = "wait_for_pubrec"}

MayEnd(s, r) ==
    \/ BreaksInExchange
    \/ r.held = <<>> /\ Cardinality(Sent(s)) <= 1

-----------------------------------------------------------------------------
(* Messages to send. *)

\* EV_SEND_MESSAGE from the broker, EV_MQTT_PUBLISH from the client's user
SendMessage ==
    /\ link \in {"open", "receiverCloses"}
    /\ out' = Enqueue(out, accepted + 1)
    /\ link = "open" \/ MayEnd(out', in)

\* The broker stores a message for a session that is not connected.
StoreMessage ==
    /\ link = "closed" /\ conf.server
    /\ out' = [out EXCEPT !.state[accepted + 1] = "invalid"]

\* ST_DISCONNECTED does not know EV_SEND_MESSAGE: the message goes nowhere.
RouteToClosing ==
    /\ link = "senderCloses" /\ conf.server /\ RoutesWhileClosing
    /\ UNCHANGED out

Accept ==
    /\ accepted < MaxMsgs
    /\ SendMessage \/ StoreMessage \/ RouteToClosing
    /\ accepted' = accepted + 1
    /\ UNCHANGED <<conf, in, savedMid, cleanStart, link, faults>>

-----------------------------------------------------------------------------
(* The receiver. *)

Deliver(s, id) == [s EXCEPT !.delivered[id] = @ + 1]

Answer(s, type, mid) == [s EXCEPT !.packets = Append(@, Packet(type, mid))]

\* What a PUBLISH with DUP replaces: the broker looks for its message id,
\* the client takes it for a row (db__message_remove_incoming_dup).
Replaced(s, mid) ==
    IF conf.server THEN {i \in DOMAIN s.held : s.held[i].row = mid}
    ELSE WithMid(s.held, mid)

WithoutDup(s, p) ==
    LET old == IF p.dup THEN Replaced(s, p.mid) ELSE {}
    IN  IF old = {} THEN s ELSE [s EXCEPT !.held = RemoveAt(@, First(old))]

\* handle__publish_s() and handle__publish_c()
HandlePublish(p) ==
    LET s == WithoutDup(in, p)
    IN  \/ /\ conf.qos[p.id] = 1
           /\ in' = Answer(Deliver(in, p.id), "PUBACK", p.mid)
           /\ UNCHANGED link
        \/ /\ conf.qos[p.id] = 2 /\ Room(s.held)
           /\ in' = Answer([s EXCEPT !.rows = @ + 1,
                                     !.held = Append(@, [id |-> p.id,
                                                         mid |-> p.mid,
                                                         row |-> s.rows + 1])],
                           "PUBREC", p.mid)
           /\ UNCHANGED link
        \/ /\ conf.qos[p.id] = 2 /\ ~Room(s.held)
           /\ in' = s
           /\ link' = IF link = "open" THEN "receiverCloses" ELSE link

\* handle__pubrel(): PUBCOMP whether the message is found or not
HandlePubrel(p) ==
    LET found == WithMid(in.held, p.mid)
        released == Deliver([in EXCEPT !.held = RemoveAt(@, First(found))],
                            in.held[First(found)].id)
    IN  /\ in' = Answer(IF found = {} THEN in ELSE released, "PUBCOMP", p.mid)
        /\ UNCHANGED link

\* A packet reaches the receiver, unless it is closing.
ReceiverReads ==
    /\ link \in {"open", "senderCloses"}
    /\ out.packets # <<>>
    /\ LET p == Head(out.packets)
       IN  IF p.type = "PUBLISH" THEN HandlePublish(p) ELSE HandlePubrel(p)
    /\ out' = [out EXCEPT !.packets = Tail(@)]
    /\ link' = "open" \/ MayEnd(out', in')
    /\ UNCHANGED <<conf, accepted, savedMid, cleanStart, faults>>

-----------------------------------------------------------------------------
(* The answers. *)

\* handle__pubackcomp()
Settle(s, mid) ==
    LET found == WithMid(s.inflight, mid)
        i == First(found)
        settled == [s EXCEPT !.inflight = RemoveAt(@, i),
                             !.state[s.inflight[i].id] = "none"]
    IN  Release(Refill(IF found = {} THEN s ELSE settled), FALSE)

\* handle__pubrec(): PUBREL whether the message is found or not
Received(s, mid) ==
    LET found == WithMid(s.inflight, mid)
        noted == [s EXCEPT !.state[s.inflight[First(found)].id] =
                             "wait_for_pubcomp"]
    IN  [(IF found = {} THEN s ELSE noted)
           EXCEPT !.packets = Append(@, Packet("PUBREL", mid))]

\* A packet reaches the sender, unless it is closing.
SenderReads ==
    /\ link \in {"open", "receiverCloses"}
    /\ in.packets # <<>>
    /\ LET a == Head(in.packets)
           s == IF a.type = "PUBREC" THEN Received(out, a.mid)
                ELSE Settle(out, a.mid)
       IN  out' = s
    /\ in' = [in EXCEPT !.packets = Tail(@)]
    /\ link = "open" \/ MayEnd(out', in')
    /\ UNCHANGED <<conf, accepted, savedMid, cleanStart, link, faults>>

-----------------------------------------------------------------------------
(* The connection. *)

\* A session resumes: the broker restores last_mid, a client begins at 0.
Connect ==
    /\ link = "closed"
    /\ link' = "open"
    /\ out' = Release(Load([out EXCEPT !.lastMid =
                                 IF conf.server THEN savedMid ELSE 0]), TRUE)
    /\ UNCHANGED <<conf, accepted, in, savedMid, cleanStart, faults>>

\* ws_close() of either end, by a keepalive or an error of the protocol: it
\* waits for the end of the connection, deaf to packets and to its user.
Close ==
    /\ link = "open" /\ MayEnd(out, in)
    /\ Fault
    /\ link' \in {"senderCloses", "receiverCloses"}
    /\ UNCHANGED <<conf, accepted, out, in, savedMid, cleanStart>>

\* The memory of a connection and its packets are gone.
Forgotten(s) == [s EXCEPT !.inflight = <<>>, !.queued = <<>>, !.packets = <<>>]

\* The broker deletes its topic of the session: of the sender or the receiver.
OutDeleted(s) == [s EXCEPT !.state = [id \in Ids |-> "none"]]

InDeleted(s) == [s EXCEPT !.held = <<>>, !.rows = 0]

\* EV_DISCONNECTED at both ends: close_queues(), and the broker saves last_mid.
Disconnect ==
    LET o == Forgotten(out)
        i == [in EXCEPT !.packets = <<>>]
    IN  /\ link # "closed"
        /\ IF link = "open" THEN MayEnd(out, in) /\ Fault ELSE UNCHANGED faults
        /\ link' = "closed"
        /\ out' = IF cleanStart /\ conf.server THEN OutDeleted(o) ELSE o
        /\ in' = IF cleanStart /\ ~conf.server THEN InDeleted(i) ELSE i
        /\ savedMid' = out.lastMid
        /\ cleanStart' = FALSE
        /\ UNCHANGED <<conf, accepted>>

\* The process of the broker dies, and the connection with it.
BrokerCrashes ==
    /\ link # "closed"
    /\ MayEnd(out, in)
    /\ Fault
    /\ link' = "closed"
    /\ out' = Forgotten(out)
    /\ in' = [in EXCEPT !.packets = <<>>]
    /\ cleanStart' = FALSE
    /\ UNCHANGED <<conf, accepted, savedMid>>

Next ==
    \/ Accept
    \/ ReceiverReads \/ SenderReads
    \/ Connect \/ Close \/ Disconnect \/ BrokerCrashes

Spec == Init /\ [][Next]_vars

\* Packets arrive, a client that lost its connection comes back, and one that
\* is closing ends.
FairSpec ==
    /\ Spec
    /\ WF_vars(ReceiverReads) /\ WF_vars(SenderReads)
    /\ WF_vars(Connect)
    /\ WF_vars(link # "open" /\ Disconnect)

-----------------------------------------------------------------------------
(* Properties. *)

Settled(id) == id <= accepted /\ out.state[id] = "none"

TypeOK ==
    /\ conf \in [server : Roles, qos : [Ids -> QosLevels]]
    /\ accepted \in 0..MaxMsgs
    /\ out.state \in [Ids -> States]
    /\ out.inflight \in Seq([id : Ids, mid : 0..MaxMid])
    /\ out.queued \in Seq(Ids)
    /\ out.lastMid \in 0..MaxMid
    /\ in.held \in Seq([id : Ids, mid : 1..MaxMid, row : 1..in.rows])
    /\ in.delivered \in [Ids -> Nat]
    /\ savedMid \in 0..MaxMid
    /\ cleanStart \in BOOLEAN
    /\ link \in Links
    /\ faults \in 0..MaxFaults
    /\ MaxInflight > 0 => Len(out.inflight) <= MaxInflight
    /\ MaxInflight > 0 => Len(in.held) <= MaxInflight

(***************************************************************************)
(* An answer on its way names one message inflight, and is the one that    *)
(* this message waits for: neither new ids after a reconnection, nor ids   *)
(* that wrap, nor a full window make two messages share an id              *)
(* (mqtt_mid_generate, tr2q_get_by_mid, handle__pubackcomp).               *)
(***************************************************************************)
Expects(id, type) ==
    \/ type = "PUBACK" /\ out.state[id] = "wait_for_puback"
    \/ type = "PUBREC" /\ out.state[id] = "wait_for_pubrec"
    \/ type = "PUBCOMP" /\ out.state[id] = "wait_for_pubcomp"

AnswersMatch ==
    link # "closed" =>
        \A a \in Range(in.packets) :
          /\ Cardinality(WithMid(out.inflight, a.mid)) = 1
          /\ \A i \in WithMid(out.inflight, a.mid) :
               Expects(out.inflight[i].id, a.type)

(***************************************************************************)
(* QoS 2: a message is passed on once, at most before and exactly after it *)
(* is settled (docs/c_prot_mqtt.md: "Exactly once"; handle__pubrel,        *)
(* handle__pubackcomp, message__release_to_inflight).  It takes a          *)
(* connection that does not break within the exchange (MayEnd).            *)
(***************************************************************************)
ExactlyOnce ==
    \A id \in Ids :
      conf.qos[id] = 2 =>
        /\ in.delivered[id] <= 1
        /\ Settled(id) => in.delivered[id] = 1

(***************************************************************************)
(* The broker's messages of one QoS first reach the receiver in the order  *)
(* in which the broker took them: neither a queued message is overtaken    *)
(* by a new one, nor does a reconnection change the order (new_msg,        *)
(* db__message_delete_outgoing, tr2q_load).                                *)
(***************************************************************************)
InOrder ==
    conf.server =>
        \A i, j \in Ids :
          i < j /\ conf.qos[i] = conf.qos[j] /\ in.delivered[j] > 0
            => in.delivered[i] > 0

(***************************************************************************)
(* Every message is owed until it was passed on, then settled, through     *)
(* breaks and crashes that come where MayEnd allows: anywhere in a session *)
(* of QoS 1, between the exchanges of QoS 2; and those of the broker are   *)
(* all settled in the end (open_queues, message__release_to_inflight,      *)
(* db__message_delete_outgoing).                                           *)
(***************************************************************************)
Outstanding == {id \in Ids : out.state[id] # "none"}
Delivered == {id \in Ids : in.delivered[id] > 0}

Promise == INSTANCE AtLeastOnce WITH
    outstanding <- Outstanding, processed <- Delivered, reachable <- TRUE

KeepsPromise == Promise!SafeSpec /\ (conf.server => Promise!Settles)
=============================================================================
