---------------------------- MODULE AtLeastOnce ----------------------------
(***************************************************************************)
(* What a persistent queue with acknowledgements promises, the gate's of   *)
(* QIOGate and an MQTT session's of MqttSession: each accepted message is  *)
(* owed until its peer has processed it, is then settled, and in the end   *)
(* all are settled, as long as the peer can be reached.  Nothing is said   *)
(* of how often the peer processes one.                                    *)
(***************************************************************************)
EXTENDS Naturals

CONSTANT MaxMsgs

VARIABLES
    accepted,       \* how many messages were accepted
    outstanding,    \* those owed
    processed,      \* those that the peer has processed
    reachable       \* of the environment: there will be a connection again

vars == <<accepted, outstanding, processed>>

Init ==
    /\ accepted = 0
    /\ outstanding = {}
    /\ processed = {}

Accept ==
    /\ accepted < MaxMsgs
    /\ accepted' = accepted + 1
    /\ outstanding' = outstanding \cup {accepted + 1}
    /\ UNCHANGED processed

Process ==
    \E i \in 1..accepted :
      /\ processed' = processed \cup {i}
      /\ UNCHANGED <<accepted, outstanding>>

Settle ==
    \E i \in outstanding \cap processed :
      /\ outstanding' = outstanding \ {i}
      /\ UNCHANGED <<accepted, processed>>

Next == Accept \/ Process \/ Settle

SafeSpec == Init /\ [][Next]_vars

\* A message that is owed may wait for ever only for a peer out of reach.
Settles ==
    \A i \in 1..MaxMsgs :
        i \in outstanding ~> i \notin outstanding \/ ~reachable

Spec == SafeSpec /\ Settles
=============================================================================
