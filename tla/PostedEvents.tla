---------------------------- MODULE PostedEvents ----------------------------
(***************************************************************************)
(* gobj_post_event() of gobj-c/src/gobj.c: an event for the next cycle of  *)
(* the loop.                                                               *)
(*                                                                         *)
(* At the top of each cycle the loop delivers the events posted before     *)
(* that cycle.  The action of a delivered event, like any handler, may     *)
(* post more events and destroy gobjs, the destinations and sources of     *)
(* waiting events among them.                                              *)
(*                                                                         *)
(* The list dl_posted_events is the set of its entries: dl_add() numbers   *)
(* them in the order of the list, and an entry leaves without changing the *)
(* order of the others.  One thread runs the loop: the handlers' steps     *)
(* below happen between two steps of a delivery, or between deliveries.    *)
(***************************************************************************)
EXTENDS Naturals, Sequences, FiniteSets

CONSTANTS
    Gobjs,          \* the gobjs; one freed is not created again
    NoGobj,         \* the source of an event whose source was destroyed
    Ceiling,        \* MAX_POSTED_EVENTS
    MaxPosts,       \* bound: events accepted in a behaviour
    PostsInDestroy  \* a gobj being destroyed is the source of new events

ASSUME PostedAssumption ==
    /\ NoGobj \notin Gobjs
    /\ Ceiling \in Nat
    /\ MaxPosts \in Nat
    /\ PostsInDestroy \in BOOLEAN

VARIABLES
    alive,      \* the gobjs that gobj_destroy() was not called for
    destroying, \* the stack of its calls in progress, the last one innermost
    queue,      \* dl_posted_events, each entry [id, dst, src]
    lastId,     \* the number that dl_add() gave last
    lastOne,    \* last_id of the delivery in progress, 0 = none
    fresh,      \* history: what was posted since the last delivery began
    accepted,   \* history: the destination of each event accepted
    delivered   \* history: the numbers of the events delivered

vars == <<alive, destroying, queue, lastId, lastOne, fresh, accepted, delivered>>

Ids == 1..MaxPosts

Entry == [id : Ids, dst : Gobjs, src : Gobjs \cup {NoGobj}]

InDestroy == {destroying[i] : i \in DOMAIN destroying}

Pending == {m.id : m \in queue}

Init ==
    /\ alive = Gobjs
    /\ destroying = <<>>
    /\ queue = {}
    /\ lastId = 0
    /\ lastOne = 0
    /\ fresh = {}
    /\ accepted = <<>>
    /\ delivered = {}

-----------------------------------------------------------------------------

(***************************************************************************)
(* gobj_post_event().  A destination destroyed or being destroyed and a    *)
(* full queue are refused; the source is not looked at.                    *)
(***************************************************************************)
Post(dst, src) ==
    /\ lastId < MaxPosts
    /\ dst \in alive
    /\ Cardinality(queue) < Ceiling
    /\ lastId' = lastId + 1
    /\ queue' = queue \cup {[id |-> lastId', dst |-> dst, src |-> src]}
    /\ fresh' = fresh \cup {lastId'}
    /\ accepted' = Append(accepted, dst)
    /\ UNCHANGED <<alive, destroying, lastOne, delivered>>

\* A handler posts: the source is the gobj whose code runs.
HandlerPosts ==
    \E dst \in alive :
      \E src \in alive \cup (IF PostsInDestroy THEN InDestroy ELSE {}) :
        Post(dst, src)

\* The entry m, its source cleared if that is g.
SourceCleared(m, g) ==
    [id |-> m.id, dst |-> m.dst, src |-> IF m.src = g THEN NoGobj ELSE m.src]

\* Mutant of Purged: only the source is cleared.
PurgedOfSource(g) == {SourceCleared(m, g) : m \in queue}

\* Mutant of Purged: only the destination is purged.
PurgedOfDestination(g) == {m \in queue : m.dst # g}

\* Mutant of Purged: both halves drop the entry.
PurgedOfBoth(g) == {m \in queue : m.dst # g /\ m.src # g}

\* Mutant of Purged: both halves clear their pointer.
PurgedOfPointers(g) ==
    {[SourceCleared(m, g) EXCEPT !.dst = IF @ = g THEN NoGobj ELSE @] : m \in queue}

\* purge_posted_events()
Purged(g) == {SourceCleared(m, g) : m \in {n \in queue : n.dst # g}}

\* gobj_destroy(), up to the purge.
DestroyBegins(g) ==
    /\ g \in alive
    /\ alive' = alive \ {g}
    /\ destroying' = Append(destroying, g)
    /\ queue' = Purged(g)
    /\ UNCHANGED <<lastId, lastOne, fresh, accepted, delivered>>

\* The rest of it: mt_child_removed(), the children, mt_destroy(), free.
DestroyEnds ==
    /\ destroying # <<>>
    /\ destroying' = SubSeq(destroying, 1, Len(destroying) - 1)
    /\ UNCHANGED <<alive, queue, lastId, lastOne, fresh, accepted, delivered>>

-----------------------------------------------------------------------------
(* gobj_deliver_posted_events() *)

\* Mutant of InSnapshot: the queue is drained until it is empty.
DrainUntilEmpty(m) == TRUE

\* Mutant of InSnapshot: the last one is left for the next cycle.
BeforeTheLast(m) == m.id < lastOne

InSnapshot(m) == m.id <= lastOne

\* Mutant of IsFirst: dl_insert() instead of dl_add().
IsLast(m) == m \in queue /\ \A n \in queue : n.id <= m.id

IsFirst(m) == m \in queue /\ \A n \in queue : m.id <= n.id

DeliveryBegins ==
    /\ destroying = <<>>
    /\ lastOne = 0
    /\ queue # {}
    /\ \E m \in queue : /\ \A n \in queue : n.id <= m.id
                        /\ lastOne' = m.id
    /\ fresh' = {}
    /\ UNCHANGED <<alive, destroying, queue, lastId, accepted, delivered>>

\* gobj_send_event() of the first entry.
Deliver(m) ==
    /\ destroying = <<>>
    /\ lastOne # 0
    /\ IsFirst(m)
    /\ InSnapshot(m)
    /\ queue' = queue \ {m}
    /\ delivered' = delivered \cup {m.id}
    /\ UNCHANGED <<alive, destroying, lastId, lastOne, fresh, accepted>>

DeliveryEnds ==
    /\ destroying = <<>>
    /\ lastOne # 0
    /\ \A m \in queue : IsFirst(m) => ~InSnapshot(m)
    /\ lastOne' = 0
    /\ UNCHANGED <<alive, destroying, queue, lastId, fresh, accepted, delivered>>

Next ==
    \/ HandlerPosts
    \/ \E g \in Gobjs : DestroyBegins(g)
    \/ DestroyEnds
    \/ DeliveryBegins
    \/ \E m \in queue : Deliver(m)
    \/ DeliveryEnds

Spec == Init /\ [][Next]_vars

\* The loop goes on, and a call returns.
Fairness ==
    /\ WF_vars(DestroyEnds)
    /\ WF_vars(DeliveryBegins)
    /\ WF_vars(\E m \in queue : Deliver(m))
    /\ WF_vars(DeliveryEnds)

FairSpec == Spec /\ Fairness

-----------------------------------------------------------------------------

TypeOK ==
    /\ alive \subseteq Gobjs
    /\ destroying \in Seq(Gobjs)
    /\ queue \subseteq Entry
    /\ lastId \in 0..MaxPosts
    /\ lastOne \in 0..MaxPosts
    /\ fresh \subseteq Ids
    /\ accepted \in Seq(Gobjs)
    /\ delivered \subseteq Ids

(***************************************************************************)
(* No waiting event has a destination destroyed or being destroyed: the    *)
(* delivery calls gobj_send_event() with a pointer that is still good,     *)
(* whatever the actions before it destroyed (purge_posted_events).         *)
(***************************************************************************)
NoDeadDestination == \A m \in queue : m.dst \in alive

(***************************************************************************)
(* No waiting event has a source already freed: it is cleared when the     *)
(* source is destroyed (purge_posted_events).                              *)
(***************************************************************************)
NoDanglingSource ==
    \A m \in queue : m.src \in alive \cup InDestroy \cup {NoGobj}

(***************************************************************************)
(* An event is delivered in the cycle after the one it was posted in:      *)
(* never in the same one, so that events that post the next do not hold    *)
(* the loop, and never later: at the end of a delivery only events posted  *)
(* during it are left, whatever was purged from the middle of the list     *)
(* (gobj_deliver_posted_events).                                           *)
(***************************************************************************)
NextCycle ==
    [][/\ \A m \in queue : Deliver(m) => m.id \notin fresh
       /\ DeliveryEnds => Pending \subseteq fresh]_vars

(***************************************************************************)
(* Each accepted event waits, was delivered, or lost its destination; the  *)
(* death of its source does not drop it (gobj_post_event,                  *)
(* purge_posted_events).                                                   *)
(***************************************************************************)
AllAccounted ==
    \A i \in 1..lastId :
        \/ i \in delivered
        \/ accepted[i] \notin alive
        \/ \E m \in queue : m.id = i /\ m.dst = accepted[i]

(***************************************************************************)
(* Events are delivered once and in the order of the posts: what waits is  *)
(* younger than all that was delivered (dl_add, dl_first).                 *)
(***************************************************************************)
OrderKept == \A i \in delivered, m \in queue : i < m.id

(***************************************************************************)
(* An accepted event does not wait for ever (yev_loop_run: the loop does   *)
(* not block on the ring while events are posted).                         *)
(***************************************************************************)
NoneWaitsForEver == \A i \in Ids : i \in Pending ~> i \notin Pending
=============================================================================
